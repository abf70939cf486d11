------------------------- MODULE WorkerAttemptProofs -------------------------
(***************************************************************************)
(* Proofs about WorkerAttempt, for any budget, any number of attempts and   *)
(* any answers: an answer a worker completed is kept, a node is proved only *)
(* by a body the gate passed, an attempt is charged only for what its own   *)
(* worker did, and no worker is left running behind an attempt.             *)
(*                                                                         *)
(* And about Gate, which an attempt asks: for any frozen file, any plan and *)
(* bodies of any length, the text that passed is the file with the plan's   *)
(* statements, proved.                                                      *)
(***************************************************************************)
EXTENDS WorkerAttempt, Gate, SequenceTheorems, FiniteSetTheorems, WellFoundedInduction, NaturalsInduction, TLAPS

\* The row of the attempt under way is the only one claimed, and the node is then
\* claimed too; the attempts to come have left nothing yet.
InFlight ==
    /\ pc \in {"pump", "kill", "unwind", "decided", "finished"} => cur \in Rows
    /\ pc \in {"pump", "kill", "unwind", "decided"} => rows[cur].status = "claimed"
    /\ \A a \in Rows : rows[a].status = "claimed" =>
          /\ a = cur /\ node.status = "claimed" /\ pc \notin {"loop", "finished", "over"}
          /\ rows[a].how = "none" /\ rows[a].gate = "none"
    /\ \A a \in Rows : cur < a =>
          rows[a] = NoRow /\ dir[a] = NoDir /\ worker[a] = NoWorker /\ killer[a] = "none"

\* A kill is under way only where it was asked for; a group whose kill is through is dead,
\* and a leader that was killed was killed so, or with the sandbox of a group let loose.
Killing ==
    /\ pc = "pump" => worker[cur].leader # "none" /\ killer[cur] = "none" /\ cur \notin loose
    /\ pc = "kill" => killer[cur] \in {"queued", "grace", "killed"}
    /\ \A a \in Rows :
        /\ killer[a] = "queued" => a = cur /\ pc \in {"kill", "unwind"}
        /\ killer[a] = "killed" => ~Lives(a)
        /\ worker[a].leader = "killed" => worker[a].rc = 1 /\ (killer[a] # "none" \/ a \in loose)
        /\ cur < a => a \notin loose

HadItsSay(a) == (worker[a].leader = "exited" /\ worker[a].rc = 0) \/ HasAnswer(a)

\* What the result in hand says is what the directory and the stream of the attempt say.
Decided ==
    /\ pc = "decided" =>
        /\ result.by = cur /\ result.status # "none"
        /\ result.status = "qed" => result.proof \in Bodies /\ (result.proof = "good" => ClaimsProof(cur))
        /\ result.status # "error" => result.how \in {"deadline", "limit"} \/ HadItsSay(cur)
        /\ result.how \in {"exit", "deadline"} =>
            /\ ClaimsProof(cur) => result.status = "qed" /\ result.proof # "empty"
            /\ dir[cur].answer = "contested" => result.status = "contested"
    /\ pc = "finished" /\ result.status = "qed" =>
        result.by = cur /\ result.proof = "good" /\ cur \in Gated

\* What is said of one closed row.
RowOK(a) ==
    /\ rows[a].how \in {"exit", "deadline"} =>
        /\ ClaimsProof(a) => rows[a].gate # "none"
        /\ dir[a].answer = "contested" => rows[a].status = "contested"
    /\ rows[a].status \in {"stuck", "contested", "qed"} =>
        /\ rows[a].gate # "cannot"
        /\ rows[a].how \in {"deadline", "limit", "interrupted"} \/ HadItsSay(a)
    /\ a \in Gated => ClaimsProof(a)

\* What is alive of a group is answered for.
NoneStray == \A a \in Rows : Answered(a)

\* The variables' types, but for what is apart.
Typed ==
    /\ node \in Nodes /\ rows \in [Rows -> AttemptRows]
    /\ dir \in [Rows -> Dirs] /\ worker \in [Rows -> Workers]
    /\ pc \in {"loop", "pump", "kill", "unwind", "decided", "finished", "over", "down"}
    /\ cur \in 0 .. MaxRows
    /\ killer \in [Rows -> {"none", "queued", "grace", "killed", "withdrawn"}]
    /\ result \in Results /\ loose \subseteq Rows

\* What is apart in a sandbox, and what a leader left there, lives while the leader does.
Walled == apart \subseteq Rows /\ \A a \in Rows : Contained(a)

IInv ==
    /\ Typed /\ InFlight /\ Killing /\ Decided
    /\ ProofIsGated /\ NoneStray
    /\ \A a \in Rows : RowOK(a)

-----------------------------------------------------------------------------
(* Reading an answer *)

\* An answer that is built, or amended in one field, is a result; its other fields stay.
LEMMA StuckFacts ==
    ASSUME NEW a \in Rows, NEW body \in Bodies \cup {"none"}
    PROVE  /\ Stuck(a, body) \in Results
           /\ Stuck(a, body).status = "stuck" /\ Stuck(a, body).proof = body /\ Stuck(a, body).by = a
           /\ Stuck(a, body).how = "exit"
BY BoundsAssumption DEF Stuck, Results, Rows

\* A status, a request and a limit are each written into one field and leave the others.
LEMMA Amended ==
    ASSUME NEW r \in Results, NEW how \in {"none", "exit", "deadline", "limit"},
           NEW status \in {"none", "qed", "stuck", "contested", "error"}
    PROVE  /\ CutBy(r, how) \in Results /\ Requests(r) \in Results /\ Becomes(r, status) \in Results
           /\ CutBy(r, how).how = how /\ CutBy(r, how).status = r.status
           /\ CutBy(r, how).proof = r.proof /\ CutBy(r, how).by = r.by
           /\ Requests(r).how = r.how /\ Requests(r).status = r.status
           /\ Requests(r).proof = r.proof /\ Requests(r).by = r.by
           /\ Becomes(r, status).how = r.how /\ Becomes(r, status).status = status
           /\ Becomes(r, status).proof = r.proof /\ Becomes(r, status).by = r.by
BY DEF Results, CutBy, Requests, Becomes

\* What is read names its attempt; a proof it claims is in the directory or the stream,
\* and one that is there is claimed.
LEMMA ReadResultFacts ==
    ASSUME Typed, NEW a \in Rows, NEW fenced \in BOOLEAN, fenced => worker[a].fenced
    PROVE  /\ ReadResult(a, fenced) \in Results
           /\ ReadResult(a, fenced).by = a /\ ReadResult(a, fenced).how = "exit"
           /\ ReadResult(a, fenced).status \in {"qed", "stuck", "contested"}
           /\ ReadResult(a, fenced).status = "qed" =>
                /\ ReadResult(a, fenced).proof \in Bodies
                /\ ReadResult(a, fenced).proof = "good" => ClaimsProof(a)
           /\ fenced = worker[a].fenced =>
                /\ ClaimsProof(a) => ReadResult(a, fenced).status = "qed" /\ ReadResult(a, fenced).proof # "empty"
                /\ dir[a].answer = "contested" => ReadResult(a, fenced).status = "contested"
<1>1. dir[a] \in Dirs
  BY DEF Typed
<1>2. ASSUME NEW body \in Bodies
      PROVE  /\ Qed(a, body) \in Results
             /\ Qed(a, body).status = "qed" /\ Qed(a, body).proof = body /\ Qed(a, body).by = a
             /\ Qed(a, body).how = "exit"
  BY StuckFacts, Amended DEF Qed
<1>3. CASE dir[a].answer # "absent"
  <2>1. ReadResult(a, fenced) = AnswerFile(a)
    BY <1>3 DEF ReadResult
  <2>2. CASE dir[a].answer = "torn"
    <3>1. ReadResult(a, fenced) = Stuck(a, "none")
      BY <2>1, <2>2 DEF AnswerFile
    <3> QED BY <2>2, <3>1, StuckFacts DEF ClaimsProof, Bodies
  <2>3. CASE dir[a].answer = "asks"
    <3>1. ReadResult(a, fenced) = Requests(Stuck(a, "none"))
      BY <2>1, <2>3 DEF AnswerFile
    <3> QED BY <2>3, <3>1, StuckFacts, Amended DEF ClaimsProof, Bodies
  <2>4. CASE dir[a].answer = "contested"
    <3>1. ReadResult(a, fenced) = Becomes(Stuck(a, "none"), "contested")
      BY <2>1, <2>4 DEF AnswerFile
    <3> QED BY <2>4, <3>1, StuckFacts, Amended DEF ClaimsProof, Bodies
  <2>5. CASE dir[a].answer \in Bodies
    <3>1. ReadResult(a, fenced) = Qed(a, dir[a].answer)
      BY <2>1, <2>5 DEF AnswerFile, Bodies
    <3> QED BY <1>2, <2>5, <3>1 DEF ClaimsProof, Bodies
  <2> QED BY <1>1, <1>3, <2>2, <2>3, <2>4, <2>5 DEF Says, Dirs
<1>4. CASE dir[a].answer = "absent" /\ (dir[a].proof = "good" \/ fenced)
  <2>1. ReadResult(a, fenced) = Qed(a, "good")
    BY <1>4 DEF ReadResult
  <2> QED BY <1>2, <1>4, <2>1 DEF ClaimsProof, Bodies
<1>5. CASE dir[a].answer = "absent" /\ dir[a].proof # "good" /\ ~fenced
  <2>1. ReadResult(a, fenced) = Stuck(a, "none")
    BY <1>5 DEF ReadResult
  <2> QED BY <1>5, <2>1, StuckFacts DEF ClaimsProof, Bodies
<1> QED BY <1>3, <1>4, <1>5

\* What is decided of an attempt that ended or was cut is what it left.
LEMMA DecideFacts ==
    ASSUME Typed, NEW a \in Rows, NEW timedOut \in BOOLEAN,
           timedOut \/ (worker[a].leader \in {"exited", "killed"} /\ (worker[a].leader = "killed" => worker[a].rc = 1))
    PROVE  /\ Decide(a, timedOut) \in Results /\ Decide(a, timedOut).by = a
           /\ Decide(a, timedOut).status # "none"
           /\ Decide(a, timedOut).status = "qed" =>
                /\ Decide(a, timedOut).proof \in Bodies
                /\ Decide(a, timedOut).proof = "good" => ClaimsProof(a)
           /\ Decide(a, timedOut).status # "error" =>
                Decide(a, timedOut).how \in {"deadline", "limit"} \/ HadItsSay(a)
           /\ ClaimsProof(a) => Decide(a, timedOut).status = "qed" /\ Decide(a, timedOut).proof # "empty"
           /\ dir[a].answer = "contested" => Decide(a, timedOut).status = "contested"
<1> DEFINE answer == ReadResult(a, worker[a].fenced)
<1>1. /\ worker[a] \in Workers /\ worker[a].fenced \in BOOLEAN /\ worker[a].rc \in {0, 1}
  BY DEF Typed, Workers
<1>2. /\ answer \in Results /\ answer.by = a /\ answer.how = "exit"
      /\ answer.status \in {"qed", "stuck", "contested"}
      /\ answer.status = "qed" => answer.proof \in Bodies /\ (answer.proof = "good" => ClaimsProof(a))
      /\ ClaimsProof(a) => answer.status = "qed" /\ answer.proof # "empty"
      /\ dir[a].answer = "contested" => answer.status = "contested"
  BY <1>1, ReadResultFacts
<1>3. ClaimsProof(a) \/ dir[a].answer = "contested" => HasAnswer(a)
  BY DEF ClaimsProof, HasAnswer, Bodies
<1>4. answer.proof \in Bodies \cup {"none"}
  BY <1>2 DEF Results
<1> HIDE DEF answer
<1>5. CASE timedOut /\ HasAnswer(a)
  <2>1. Decide(a, timedOut) = CutBy(answer, "deadline")
    BY <1>5 DEF Decide, answer
  <2> QED BY <1>2, <2>1, Amended
<1>6. CASE timedOut /\ ~HasAnswer(a)
  <2>1. Decide(a, timedOut) = CutBy(Stuck(a, answer.proof), "deadline")
    BY <1>6 DEF Decide, answer
  <2>2. ~ClaimsProof(a) /\ dir[a].answer # "contested"
    BY <1>3, <1>6
  <2>3. /\ Stuck(a, answer.proof) \in Results
        /\ Stuck(a, answer.proof).status = "stuck" /\ Stuck(a, answer.proof).by = a
    BY <1>4, StuckFacts
  <2> QED BY <2>1, <2>2, <2>3, Amended
<1>7. CASE ~timedOut /\ worker[a].rc # 0 /\ ~HasAnswer(a)
  <2>1. Decide(a, timedOut) = Becomes(answer, "error")
    BY <1>7 DEF Decide, answer
  <2> QED BY <1>2, <1>3, <1>7, <2>1, Amended
<1>8. CASE ~timedOut /\ (worker[a].rc = 0 \/ HasAnswer(a))
  <2>1. Decide(a, timedOut) = answer
    BY <1>8 DEF Decide, answer
  <2> QED BY <1>2, <1>8, <2>1 DEF HadItsSay
<1> QED BY <1>5, <1>6, <1>7, <1>8

\* Of an attempt that was cancelled, a complete claim is kept.
LEMMA ReadBackFacts ==
    ASSUME Typed, NEW a \in Rows
    PROVE  /\ ReadBack(a) \in Results /\ ReadBack(a).by = a /\ ReadBack(a).how = "limit"
           /\ ReadBack(a).status # "none"
           /\ ReadBack(a).status = "qed" =>
                ReadBack(a).proof \in Bodies /\ (ReadBack(a).proof = "good" => ClaimsProof(a))
<1> DEFINE partial == ReadResult(a, FALSE)
<1>1. /\ partial \in Results /\ partial.by = a
      /\ partial.status = "qed" => partial.proof \in Bodies /\ (partial.proof = "good" => ClaimsProof(a))
  BY ReadResultFacts
<1>2. partial.proof \in Bodies \cup {"none"}
  BY <1>1 DEF Results
<1> HIDE DEF partial
<1>3. ReadBack(a) = IF partial.status \in {"qed", "contested"} THEN CutBy(partial, "limit")
                    ELSE CutBy(Stuck(a, partial.proof), "limit")
  BY DEF ReadBack, partial
<1> QED BY <1>1, <1>2, <1>3, StuckFacts, Amended

-----------------------------------------------------------------------------
(* Workers and kills *)

\* What a worker, or its kill, does to its attempt: a directory and a stream that
\* nothing reads any more stay as they are, nothing that was left is taken back, no
\* process comes to life, and an exit is final.
Proceeds(a) ==
    /\ ~IsRead(a) => dir'[a] = dir[a]
    /\ ~(a = cur /\ pc = "pump") => worker'[a].fenced = worker[a].fenced
    /\ HasAnswer(a) => HasAnswer(a)'
    /\ Lives(a)' => Lives(a)
    /\ worker[a].leader = "exited" => worker'[a].leader = "exited" /\ worker'[a].rc = worker[a].rc
    /\ worker[a].leader # "none" => worker'[a].leader # "none"
    /\ worker'[a].leader = "alive" => worker[a].leader = "alive"

\* A worker writes and streams while its leader lives, leaves a child, exits.
LEMMA WorkerProceeds ==
    ASSUME IInv, NEW a \in Rows, WorkerStep(a), ~StartsApart(a), ~EndsApart(a)
    PROVE  /\ dir' \in [Rows -> Dirs] /\ worker' \in [Rows -> Workers]
           /\ \A b \in Rows : b # a => dir'[b] = dir[b] /\ worker'[b] = worker[b]
           /\ Proceeds(a) /\ Lives(a)
           /\ worker'[a].leader = "killed" => worker[a].leader = "killed" /\ worker'[a].rc = worker[a].rc
<1>t. /\ dir \in [Rows -> Dirs] /\ worker \in [Rows -> Workers] /\ dir[a] \in Dirs /\ worker[a] \in Workers
  BY DEF IInv, Typed
<1> DEFINE Wanted ==
      /\ dir' \in [Rows -> Dirs] /\ worker' \in [Rows -> Workers]
      /\ \A b \in Rows : b # a => dir'[b] = dir[b] /\ worker'[b] = worker[b]
      /\ Proceeds(a) /\ Lives(a)
      /\ worker'[a].leader = "killed" => worker[a].leader = "killed" /\ worker'[a].rc = worker[a].rc
<1>d. ASSUME NEW new \in Dirs, dir' = [dir EXCEPT ![a] = new], UNCHANGED worker, IsRead(a), LeaderLives(a),
             new.answer # "absent" \/ new.proof # "absent"
      PROVE  Wanted
  <2>1. dir' \in [Rows -> Dirs] /\ dir'[a] = new /\ \A b \in Rows : b # a => dir'[b] = dir[b]
    BY <1>t, <1>d
  <2>2. Lives(a) /\ Lives(a)'
    BY <1>d DEF Lives, LeaderLives
  <2>3. HasAnswer(a)'
    BY <1>d, <2>1 DEF HasAnswer
  <2> QED BY <1>t, <1>d, <2>1, <2>2, <2>3 DEF Proceeds
<1>w. ASSUME NEW new \in Workers, worker' = [worker EXCEPT ![a] = new], UNCHANGED dir, Lives(a),
             new.fenced # worker[a].fenced => new.fenced /\ a = cur /\ pc = "pump",
             \/ new.leader = worker[a].leader /\ new.rc = worker[a].rc
             \/ worker[a].leader = "alive" /\ new.leader = "exited",
             worker[a].leader = "alive" \/ new.child = "none"
      PROVE  Wanted
  <2>1. worker' \in [Rows -> Workers] /\ worker'[a] = new /\ \A b \in Rows : b # a => worker'[b] = worker[b]
    BY <1>t, <1>w
  <2>2. new.fenced \in BOOLEAN /\ worker[a].fenced \in BOOLEAN
    BY <1>t DEF Workers
  <2>3. HasAnswer(a) => HasAnswer(a)'
    BY <1>w, <2>1, <2>2 DEF HasAnswer
  <2> QED BY <1>t, <1>w, <2>1, <2>2, <2>3 DEF Proceeds
<1>1. CASE OpensAnswer(a)
  <2>1. [dir[a] EXCEPT !.answer = "torn"] \in Dirs /\ [dir[a] EXCEPT !.answer = "torn"].answer = "torn"
    BY <1>t DEF Dirs
  <2> QED BY <1>1, <1>d, <2>1 DEF OpensAnswer
<1>2. CASE WritesAnswer(a)
  <2>1. PICK what \in Says : dir' = [dir EXCEPT ![a].answer = what]
    BY <1>2 DEF WritesAnswer
  <2>2. [dir[a] EXCEPT !.answer = what] \in Dirs /\ [dir[a] EXCEPT !.answer = what].answer # "absent"
    BY <1>t DEF Dirs, Says, Bodies
  <2> QED BY <1>2, <1>d, <2>1, <2>2 DEF WritesAnswer
<1>3. CASE WritesProof(a)
  <2>1. PICK new \in {"torn", "good"} : dir' = [dir EXCEPT ![a].proof = new]
    BY <1>3 DEF WritesProof
  <2>2. [dir[a] EXCEPT !.proof = new] \in Dirs /\ [dir[a] EXCEPT !.proof = new].proof # "absent"
    BY <1>t DEF Dirs
  <2> QED BY <1>3, <1>d, <2>1, <2>2 DEF WritesProof
<1>4. CASE Streams(a)
  <2>1. /\ [worker[a] EXCEPT !.fenced = TRUE] \in Workers /\ [worker[a] EXCEPT !.fenced = TRUE].fenced
        /\ [worker[a] EXCEPT !.fenced = TRUE].leader = worker[a].leader
        /\ [worker[a] EXCEPT !.fenced = TRUE].rc = worker[a].rc
    BY <1>t DEF Workers
  <2> QED BY <1>4, <1>w, <2>1 DEF Streams, LeaderLives, Lives
<1>5. CASE LeavesChild(a) \/ ChildExits(a)
  <2>1. PICK how \in {"none", "quiet", "pipe"} : /\ worker' = [worker EXCEPT ![a].child = how]
                                                 /\ worker[a].leader = "alive" \/ how = "none"
    BY <1>5 DEF LeavesChild, ChildExits, LeaderLives
  <2>2. PICK new \in Workers : /\ new.child = how /\ new.leader = worker[a].leader /\ new.rc = worker[a].rc
                               /\ new.fenced = worker[a].fenced /\ worker' = [worker EXCEPT ![a] = new]
    <3>1. PICK w \in Workers : w = worker[a]
      BY <1>t
    <3>2. /\ [w EXCEPT !.child = how] \in Workers /\ [w EXCEPT !.child = how].child = how
          /\ [w EXCEPT !.child = how].leader = w.leader /\ [w EXCEPT !.child = how].rc = w.rc
          /\ [w EXCEPT !.child = how].fenced = w.fenced
      BY DEF Workers
    <3>3. worker' = [worker EXCEPT ![a] = [w EXCEPT !.child = how]]
      BY <1>t, <2>1, <3>1
    <3> QED BY <3>1, <3>2, <3>3
  <2>3. Lives(a) /\ UNCHANGED dir
    BY <1>5 DEF LeavesChild, ChildExits, LeaderLives, Lives
  <2> QED BY <1>w, <2>1, <2>2, <2>3
<1>6. CASE Exits(a)
  <2>1. PICK rc \in {0, 1} : worker' = [worker EXCEPT ![a] = Leaving(a, worker[a], rc)]
    BY <1>t, <1>6 DEF Exits
  <2>2. \A w \in Workers : LET new == Leaving(a, w, rc) IN
          new \in Workers /\ new.leader = "exited" /\ new.fenced = w.fenced
    BY DEF Workers, Leaving
  <2>3. worker[a].leader = "alive" /\ UNCHANGED dir /\ Lives(a)
    BY <1>6 DEF Exits, LeaderLives, Lives
  <2>4. PICK new \in Workers : new.leader = "exited" /\ new.fenced = worker[a].fenced
                               /\ worker' = [worker EXCEPT ![a] = new]
    BY <1>t, <2>1, <2>2
  <2> QED BY <1>w, <2>3, <2>4
<1> QED BY <1>1, <1>2, <1>3, <1>4, <1>5, <1>6 DEF WorkerStep

\* SIGKILL leaves no process of the group.
LEMMA KillerProceeds ==
    ASSUME IInv, NEW a \in Rows, Kills(a)
    PROVE  /\ worker' \in [Rows -> Workers]
           /\ \A b \in Rows : b # a => worker'[b] = worker[b]
           /\ UNCHANGED dir => Proceeds(a) /\ ~Lives(a)'
           /\ worker'[a].leader = "killed" => worker'[a].rc = 1
<1>t. /\ worker \in [Rows -> Workers] /\ worker[a] \in Workers
      /\ worker[a].leader = "killed" => worker[a].rc = 1
  BY DEF IInv, Typed, Killing
<1>1. PICK w \in Workers : w = worker[a]
  BY <1>t
<1>2. /\ KillGroup(w) \in Workers /\ KillGroup(w).leader # "alive" /\ KillGroup(w).child = "none"
      /\ w.leader # "alive" => KillGroup(w).leader = w.leader /\ KillGroup(w).rc = w.rc
      /\ w.leader = "alive" => KillGroup(w).leader = "killed" /\ KillGroup(w).rc = 1
      /\ KillGroup(w).fenced = w.fenced
  BY DEF KillGroup, Workers
<1>3. worker'[a] = KillGroup(w) /\ worker' \in [Rows -> Workers]
      /\ \A b \in Rows : b # a => worker'[b] = worker[b]
  BY <1>t, <1>1, <1>2 DEF Kills
<1>4. ASSUME UNCHANGED dir PROVE Proceeds(a) /\ ~Lives(a)'
  BY <1>1, <1>2, <1>3, <1>4 DEF Proceeds, Lives, LeaderLives, HasAnswer
<1> QED BY <1>t, <1>1, <1>2, <1>3, <1>4

\* An attempt whose directory and group stay as they are has proceeded by nothing.
LEMMA StaysPut ==
    ASSUME NEW a \in Rows, dir'[a] = dir[a], worker'[a] = worker[a]
    PROVE  Proceeds(a) /\ (Lives(a)' <=> Lives(a)) /\ (ClaimsProof(a)' <=> ClaimsProof(a))
           /\ (HadItsSay(a)' <=> HadItsSay(a))
BY DEF Proceeds, Lives, LeaderLives, HasAnswer, ClaimsProof, HadItsSay

\* Nothing of an attempt that is not read any more changes what was said of it.
LEMMA OldNews ==
    ASSUME IInv, NEW a \in Rows, Proceeds(a), ~IsRead(a)
    PROVE  /\ dir'[a] = dir[a]
           /\ ClaimsProof(a)' <=> ClaimsProof(a)
           /\ HadItsSay(a) => HadItsSay(a)'
<1>1. dir'[a] = dir[a] /\ worker'[a].fenced = worker[a].fenced
  BY DEF Proceeds, IsRead
<1> QED BY <1>1 DEF Proceeds, ClaimsProof, HadItsSay

\* While the rows stay as they are, what was said of each of them, and of the node, stays true.
LEMMA RowsStay ==
    ASSUME IInv, UNCHANGED rows, \A a \in Rows : Proceeds(a)
    PROVE  /\ \A a \in Rows : RowOK(a)'
           /\ UNCHANGED node => ProofIsGated'
<1>1. ASSUME NEW a \in Rows, rows[a].status # "claimed" PROVE ~IsRead(a)
  BY <1>1 DEF IInv, InFlight, IsRead
<1>2. ASSUME NEW a \in Rows PROVE RowOK(a)'
  <2>1. CASE rows[a].status = "claimed"
    BY <2>1 DEF IInv, InFlight, RowOK, Gated
  <2>2. CASE rows[a].status # "claimed"
    <3>1. RowOK(a)
      BY DEF IInv
    <3>2. dir'[a] = dir[a] /\ (ClaimsProof(a)' <=> ClaimsProof(a)) /\ (HadItsSay(a) => HadItsSay(a)')
      BY <1>1, <2>2, OldNews
    <3>3. a \in Gated' <=> a \in Gated
      BY DEF Gated
    <3> QED BY <3>1, <3>2, <3>3 DEF RowOK
  <2> QED BY <2>1, <2>2
<1>3. ASSUME UNCHANGED node PROVE ProofIsGated'
  <2>1. SUFFICES ASSUME node.status = "gated" PROVE ProofIsGated'
    BY <1>3 DEF ProofIsGated
  <2>2. node.body = "good" /\ node.by \in Gated /\ ClaimsProof(node.by)
    BY <2>1 DEF IInv, ProofIsGated
  <2>3. node.by \in Rows /\ rows[node.by].status # "claimed"
    BY <2>2 DEF Gated
  <2>4. ClaimsProof(node.by)' <=> ClaimsProof(node.by)
    <3>1. PICK b \in Rows : b = node.by
      BY <2>3
    <3>2. ClaimsProof(b)' <=> ClaimsProof(b)
      BY <1>1, <2>3, <3>1, OldNews
    <3> QED BY <1>3, <3>1, <3>2 DEF ClaimsProof
  <2> QED BY <1>3, <2>2, <2>4 DEF ProofIsGated, Gated
<1> QED BY <1>2, <1>3

-----------------------------------------------------------------------------
(* Worker and killer *)

\* What the scheduler knows is not touched by a worker or a kill: only one that has
\* started moves, and what it moves leaves the result in hand true.
LEMMA GroupStep ==
    ASSUME IInv, NEW a \in Rows, ~(cur < a),
           UNCHANGED <<node, rows, pc, cur, result, loose>>,
           dir' \in [Rows -> Dirs], worker' \in [Rows -> Workers],
           \A b \in Rows : b # a => dir'[b] = dir[b] /\ worker'[b] = worker[b],
           \A b \in Rows : b # a => killer'[b] = killer[b],
           Proceeds(a)
    PROVE  InFlight' /\ Decided' /\ ProofIsGated' /\ \A b \in Rows : RowOK(b)'
<1>1. \A b \in Rows : Proceeds(b)
  BY StaysPut
<1>2. ProofIsGated' /\ \A b \in Rows : RowOK(b)'
  BY <1>1, RowsStay
<1>3. InFlight'
  BY DEF IInv, InFlight
<1>4. Decided'
  <2>1. CASE pc = "decided"
    <3>1. cur \in Rows /\ ~IsRead(cur)
      BY <2>1 DEF IInv, InFlight, IsRead
    <3>2. /\ dir'[cur] = dir[cur] /\ (ClaimsProof(cur)' <=> ClaimsProof(cur))
          /\ HadItsSay(cur) => HadItsSay(cur)'
      BY <1>1, <3>1, OldNews
    <3>3. Decided
      BY DEF IInv
    <3> QED BY <2>1, <3>2, <3>3 DEF Decided
  <2>2. CASE pc # "decided"
    BY <2>2 DEF IInv, Decided, Gated
  <2> QED BY <2>1, <2>2
<1> QED BY <1>2, <1>3, <1>4

\* The invariant says nothing of what is apart.
LEMMA Unmoved ==
    ASSUME IInv, UNCHANGED <<node, rows, dir, worker, pc, cur, killer, result, loose>>
    PROVE  IInv'
<1>1. Typed' /\ InFlight' /\ Killing'
  BY DEF IInv, Typed, InFlight, Killing, Lives, LeaderLives
<1>2. \A a \in Rows : Proceeds(a) /\ (Lives(a)' <=> Lives(a))
  BY StaysPut
<1>3. ProofIsGated' /\ \A a \in Rows : RowOK(a)'
  BY <1>2, RowsStay
<1>4. Decided'
  BY DEF IInv, Decided, ClaimsProof, HadItsSay, HasAnswer, Gated
<1>5. NoneStray'
  BY <1>2 DEF IInv, NoneStray, Answered, Attended
<1> QED BY <1>1, <1>3, <1>4, <1>5 DEF IInv

\* Whatever a worker writes, leaves behind or exits with, the invariant stands.
LEMMA WorkerKeeps ==
    ASSUME IInv, NEW a \in Rows, WorkerStep(a)
    PROVE  IInv'
<1>0. CASE StartsApart(a) \/ EndsApart(a)
  BY <1>0, Unmoved DEF WorkerStep, StartsApart, EndsApart
<1> SUFFICES ASSUME ~StartsApart(a), ~EndsApart(a) PROVE IInv'
  BY <1>0
<1>1. /\ dir' \in [Rows -> Dirs] /\ worker' \in [Rows -> Workers]
      /\ \A b \in Rows : b # a => dir'[b] = dir[b] /\ worker'[b] = worker[b]
      /\ Proceeds(a) /\ Lives(a)
      /\ worker'[a].leader = "killed" => worker[a].leader = "killed" /\ worker'[a].rc = worker[a].rc
  BY WorkerProceeds
<1>2. UNCHANGED <<node, rows, pc, cur, killer, result, loose>>
  BY DEF WorkerStep
<1>3. ~(cur < a)
  BY <1>1 DEF IInv, InFlight, NoWorker, Lives, LeaderLives
<1>4. InFlight' /\ Decided' /\ ProofIsGated' /\ \A b \in Rows : RowOK(b)'
  BY <1>1, <1>2, <1>3, GroupStep
<1>5. Typed'
  BY <1>1, <1>2 DEF IInv, Typed
<1>6. \A b \in Rows : b # a => (Lives(b)' <=> Lives(b))
  BY <1>1, StaysPut
<1>7. Killing'
  <2>1. Killing /\ (pc = "pump" => cur \in Rows)
    BY DEF IInv, InFlight
  <2> QED BY <1>1, <1>2, <1>6, <2>1 DEF Killing, Proceeds
<1>8. NoneStray'
  <2>1. NoneStray
    BY DEF IInv
  <2> QED BY <1>1, <1>2, <1>6, <2>1 DEF NoneStray, Answered, Attended, Proceeds
<1> QED BY <1>4, <1>5, <1>7, <1>8 DEF IInv

\* Neither half of a kill breaks the invariant, the SIGKILL by what it leaves dead.
LEMMA KillerKeeps ==
    ASSUME IInv, NEW a \in Rows, Killer(a)
    PROVE  IInv'
<1>t. /\ Typed /\ InFlight /\ Killing /\ NoneStray
      /\ worker \in [Rows -> Workers]
      /\ killer \in [Rows -> {"none", "queued", "grace", "killed", "withdrawn"}]
  BY DEF IInv, Typed
<1>0. UNCHANGED <<node, rows, dir, pc, cur, result, loose>>
  BY DEF Killer
<1>1. ~(cur < a) /\ (pc = "pump" => a # cur)
  <2>1. killer[a] \in {"queued", "grace"}
    BY DEF Killer, Terminates, Kills
  <2> QED BY <1>t, <2>1 DEF InFlight, Killing
<1>2. CASE Terminates(a)
  <2>1. /\ killer' \in [Rows -> {"none", "queued", "grace", "killed", "withdrawn"}] /\ UNCHANGED worker
        /\ killer[a] = "queued" /\ killer'[a] = "grace" /\ \A b \in Rows : b # a => killer'[b] = killer[b]
    BY <1>t, <1>2 DEF Terminates
  <2>2. Proceeds(a) /\ \A b \in Rows : Lives(b)' <=> Lives(b)
    BY <1>0, <2>1, StaysPut
  <2>3. InFlight' /\ Decided' /\ ProofIsGated' /\ \A b \in Rows : RowOK(b)'
    <3>1. dir' \in [Rows -> Dirs] /\ worker' \in [Rows -> Workers]
      BY <1>t, <1>0, <2>1 DEF Typed
    <3> QED BY <1>0, <1>1, <2>1, <2>2, <3>1, GroupStep
  <2>4. Typed'
    BY <1>t, <1>0, <2>1 DEF Typed
  <2>5. Killing'
    BY <1>t, <1>0, <1>1, <2>1, <2>2 DEF Killing, InFlight
  <2>6. NoneStray'
    BY <1>t, <1>0, <2>1, <2>2 DEF NoneStray, Answered, Attended
  <2> QED BY <2>3, <2>4, <2>5, <2>6 DEF IInv
<1>3. CASE Kills(a)
  <2>1. /\ killer' \in [Rows -> {"none", "queued", "grace", "killed", "withdrawn"}]
        /\ killer[a] = "grace" /\ killer'[a] = "killed" /\ \A b \in Rows : b # a => killer'[b] = killer[b]
    BY <1>t, <1>3 DEF Kills
  <2>2. /\ worker' \in [Rows -> Workers] /\ \A b \in Rows : b # a => worker'[b] = worker[b]
        /\ Proceeds(a) /\ ~Lives(a)' /\ (worker'[a].leader = "killed" => worker'[a].rc = 1)
    BY <1>0, <1>3, KillerProceeds
  <2>3. \A b \in Rows : b # a => (Lives(b)' <=> Lives(b))
    BY <1>0, <2>2, StaysPut
  <2>4. InFlight' /\ Decided' /\ ProofIsGated' /\ \A b \in Rows : RowOK(b)'
    <3>1. dir' \in [Rows -> Dirs] /\ \A b \in Rows : dir'[b] = dir[b]
      BY <1>t, <1>0 DEF Typed
    <3> QED BY <1>0, <1>1, <2>1, <2>2, <3>1, GroupStep
  <2>5. Typed'
    BY <1>t, <1>0, <2>1, <2>2 DEF Typed
  <2>6. Killing'
    BY <1>t, <1>0, <1>1, <2>1, <2>2, <2>3 DEF Killing, InFlight
  <2>7. NoneStray'
    BY <1>t, <1>0, <2>1, <2>2, <2>3 DEF NoneStray, Answered, Attended
  <2> QED BY <2>4, <2>5, <2>6, <2>7 DEF IInv
<1> QED BY <1>2, <1>3 DEF Killer

-----------------------------------------------------------------------------
(* The scheduler *)

\* The scheduler writes no directory and, but for the spawn, no worker.
LEMMA SchedulerStep ==
    ASSUME IInv, UNCHANGED <<dir, worker>>
    PROVE  /\ \A a \in Rows : /\ Proceeds(a) /\ (Lives(a)' <=> Lives(a))
                              /\ (ClaimsProof(a)' <=> ClaimsProof(a)) /\ (HadItsSay(a)' <=> HadItsSay(a))
           /\ UNCHANGED rows => \A a \in Rows : RowOK(a)'
           /\ UNCHANGED <<rows, node>> => ProofIsGated'
<1>1. \A a \in Rows : /\ Proceeds(a) /\ (Lives(a)' <=> Lives(a))
                      /\ (ClaimsProof(a)' <=> ClaimsProof(a)) /\ (HadItsSay(a)' <=> HadItsSay(a))
  BY StaysPut
<1> QED BY <1>1, RowsStay

\* A new attempt starts from a row, a directory and a group nothing has touched.
LEMMA BeginKeeps == IInv /\ Begin => IInv'
<1> SUFFICES ASSUME IInv, Begin PROVE IInv'
  OBVIOUS
<1>t. Typed /\ InFlight /\ Killing /\ NoneStray /\ \A a \in Rows : RowOK(a)
  BY DEF IInv
<1>a. PICK a \in Rows : a = cur + 1 /\ cur' = a /\ cur < a
  BY <1>t, BoundsAssumption DEF Begin, Typed, Rows
<1>b. \A b \in Rows : b # a => (cur' < b <=> cur < b)
  BY <1>t, <1>a DEF Typed, Rows
<1>0. /\ rows[a] = NoRow /\ dir[a] = NoDir /\ worker[a] = NoWorker /\ killer[a] = "none"
      /\ \A b \in Rows : rows[b].status # "claimed"
      /\ UNCHANGED <<dir, killer, loose>> /\ pc = "loop" /\ cur' \in 0 .. MaxRows
  BY <1>t, <1>a DEF InFlight, Begin, Rows
<1>1. node' \in Nodes /\ node'.status = "claimed"
  BY <1>t DEF Begin, Typed, Nodes
<1>2. /\ rows' \in [Rows -> AttemptRows] /\ rows'[a].status = "claimed"
      /\ rows'[a].how = "none" /\ rows'[a].gate = "none"
      /\ \A b \in Rows : b # a => rows'[b] = rows[b]
  <2>1. PICK r \in AttemptRows : r = rows[a] /\ r = NoRow
    BY <1>t, <1>0 DEF Typed
  <2>2. /\ [r EXCEPT !.status = "claimed"] \in AttemptRows /\ [r EXCEPT !.status = "claimed"].status = "claimed"
        /\ [r EXCEPT !.status = "claimed"].how = "none" /\ [r EXCEPT !.status = "claimed"].gate = "none"
    BY <2>1 DEF AttemptRows, NoRow
  <2>3. rows' = [rows EXCEPT ![a] = [r EXCEPT !.status = "claimed"]]
    BY <1>t, <1>a, <2>1 DEF Begin, Typed
  <2> QED BY <1>t, <2>2, <2>3 DEF Typed
<1>3. /\ worker' \in [Rows -> Workers] /\ \A b \in Rows : b # a => worker'[b] = worker[b]
      /\ worker'[a].leader \in {"none", "alive"} /\ worker'[a].fenced = FALSE
      /\ \/ pc' = "pump" /\ worker'[a].leader = "alive" /\ UNCHANGED result
         \/ /\ pc' = "decided" /\ UNCHANGED worker
            /\ result' = Becomes(Stuck(a, "none"), "error")
  <2>1. CASE worker' = [worker EXCEPT ![a].leader = "alive"] /\ pc' = "pump" /\ UNCHANGED result
    <3>1. PICK w \in Workers : w = worker[a] /\ w.fenced = FALSE
      BY <1>t, <1>0 DEF Typed, NoWorker
    <3>2. /\ [w EXCEPT !.leader = "alive"] \in Workers /\ [w EXCEPT !.leader = "alive"].leader = "alive"
          /\ [w EXCEPT !.leader = "alive"].fenced = FALSE
      BY <3>1 DEF Workers
    <3>3. worker' = [worker EXCEPT ![a] = [w EXCEPT !.leader = "alive"]]
      BY <1>t, <2>1, <3>1 DEF Typed
    <3> QED BY <1>t, <2>1, <3>2, <3>3 DEF Typed
  <2>2. CASE pc' = "decided" /\ UNCHANGED worker /\ result' = Becomes(Stuck(a, "none"), "error")
    BY <1>t, <1>0, <2>2 DEF Typed, NoWorker
  <2> QED BY <1>a, <2>1, <2>2 DEF Begin
<1>4. /\ Stuck(a, "none") \in Results /\ result' \in Results
      /\ pc' = "decided" => result'.status = "error" /\ result'.by = a
  <2>1. /\ Stuck(a, "none") \in Results /\ Becomes(Stuck(a, "none"), "error") \in Results
        /\ Becomes(Stuck(a, "none"), "error").status = "error" /\ Becomes(Stuck(a, "none"), "error").by = a
    BY StuckFacts, Amended
  <2> QED BY <1>t, <1>3, <2>1 DEF Typed
<1>5. Typed'
  BY <1>t, <1>0, <1>1, <1>2, <1>3, <1>4 DEF Typed
<1>6. InFlight'
  BY <1>t, <1>a, <1>b, <1>0, <1>1, <1>2, <1>3 DEF InFlight
<1>7. \A b \in Rows : b # a => /\ Lives(b)' <=> Lives(b)
                               /\ ClaimsProof(b)' <=> ClaimsProof(b)
                               /\ HadItsSay(b) <=> HadItsSay(b)'
  BY <1>0, <1>3, StaysPut
<1>8. Killing'
  <2>1. a \notin loose' /\ \A b \in Rows : cur' < b => cur < b /\ b \notin loose'
    BY <1>t, <1>a, <1>0 DEF Killing, Typed, Rows
  <2> QED BY <1>t, <1>a, <1>0, <1>3, <1>7, <2>1 DEF Killing
<1>9. ~ClaimsProof(a)' /\ dir'[a].answer # "contested"
  BY <1>0, <1>3 DEF ClaimsProof, NoDir, Bodies
<1>10. Decided'
  BY <1>a, <1>3, <1>4, <1>9 DEF Decided, ClaimsProof
<1>11. NoneStray'
  <2>1. Lives(a)' => pc' = "pump"
    BY <1>0, <1>3 DEF Lives, LeaderLives, NoWorker
  <2> QED BY <1>t, <1>a, <1>0, <1>3, <1>7, <2>1 DEF NoneStray, Answered, Attended
<1>12. \A b \in Rows : RowOK(b)'
  <2>1. RowOK(a)'
    BY <1>2 DEF RowOK, Gated
  <2>2. ASSUME NEW b \in Rows, b # a PROVE RowOK(b)'
    BY <1>t, <1>0, <1>2, <1>7, <2>2 DEF RowOK, Gated
  <2> QED BY <2>1, <2>2
<1> QED BY <1>1, <1>5, <1>6, <1>8, <1>10, <1>11, <1>12 DEF IInv, ProofIsGated

\* Parking the node closes no row and moves no process.
LEMMA GiveUpKeeps == IInv /\ GiveUp => IInv'
<1> SUFFICES ASSUME IInv, GiveUp PROVE IInv'
  OBVIOUS
<1>t. Typed /\ InFlight /\ Killing /\ NoneStray /\ Decided
  BY DEF IInv
<1>1. node' \in Nodes /\ node'.status = "stuck"
  BY <1>t DEF GiveUp, Typed, Nodes
<1>2. /\ \A a \in Rows : Lives(a)' <=> Lives(a)
      /\ \A a \in Rows : RowOK(a)'
  BY SchedulerStep DEF GiveUp
<1>3. Typed'
  BY <1>t, <1>1 DEF Typed, GiveUp
<1>4. InFlight'
  BY <1>t DEF InFlight, GiveUp
<1>5. Killing'
  BY <1>t, <1>2 DEF Killing, GiveUp
<1>6. Decided' /\ ProofIsGated'
  BY <1>1 DEF Decided, GiveUp, ProofIsGated
<1>7. NoneStray'
  BY <1>t, <1>2 DEF NoneStray, Answered, Attended, GiveUp
<1> QED BY <1>2, <1>3, <1>4, <1>5, <1>6, <1>7 DEF IInv

\* A pump that has seen the pipe's end has waited for a leader that exited on its own.
LEMMA PumpEndsKeeps == IInv /\ PumpEnds => IInv'
<1> SUFFICES ASSUME IInv, PumpEnds PROVE IInv'
  OBVIOUS
<1>t. Typed /\ InFlight /\ Killing /\ NoneStray
  BY DEF IInv
<1>1. /\ pc = "pump" /\ cur \in Rows /\ killer[cur] = "none"
      /\ worker[cur].leader = "exited"
  <2>1. pc = "pump" /\ cur \in Rows /\ worker[cur] \in Workers
    BY <1>t DEF PumpEnds, InFlight, Typed
  <2> QED BY <1>t, <2>1 DEF PumpEnds, Killing, Eof, LeaderLives, Workers
<1>2. /\ \A a \in Rows : /\ Lives(a)' <=> Lives(a)
                         /\ ClaimsProof(a)' <=> ClaimsProof(a)
                         /\ HadItsSay(a)' <=> HadItsSay(a)
      /\ \A a \in Rows : RowOK(a)'
      /\ ProofIsGated'
  BY SchedulerStep DEF PumpEnds
<1>3. /\ result' \in Results /\ result'.by = cur /\ result'.status # "none"
      /\ result'.status = "qed" => result'.proof \in Bodies /\ (result'.proof = "good" => ClaimsProof(cur))
      /\ result'.status # "error" => result'.how \in {"deadline", "limit"} \/ HadItsSay(cur)
      /\ ClaimsProof(cur) => result'.status = "qed" /\ result'.proof # "empty"
      /\ dir[cur].answer = "contested" => result'.status = "contested"
  BY <1>t, <1>1, DecideFacts DEF PumpEnds
<1>4. Typed'
  BY <1>t, <1>3 DEF Typed, PumpEnds
<1>5. InFlight'
  BY <1>t, <1>1 DEF InFlight, PumpEnds
<1>6. Killing'
  BY <1>t, <1>1, <1>2 DEF Killing, PumpEnds
<1>7. Decided'
  <2>1. UNCHANGED <<cur, dir, worker>> /\ pc' = "decided"
    BY DEF PumpEnds
  <2>2. (ClaimsProof(cur)' <=> ClaimsProof(cur)) /\ (HadItsSay(cur)' <=> HadItsSay(cur))
    BY <2>1 DEF ClaimsProof, HadItsSay, HasAnswer
  <2> QED BY <1>3, <2>1, <2>2 DEF Decided
<1>8. NoneStray'
  BY <1>t, <1>1, <1>2 DEF NoneStray, Answered, Attended, PumpEnds
<1> QED BY <1>2, <1>4, <1>5, <1>6, <1>7, <1>8 DEF IInv

\* The deadline queues the kill of the group under way, and of no other.
LEMMA DeadlineKeeps == IInv /\ DeadlinePasses => IInv'
<1> SUFFICES ASSUME IInv, DeadlinePasses PROVE IInv'
  OBVIOUS
<1>t. Typed /\ InFlight /\ Killing /\ NoneStray
  BY DEF IInv
<1>1. pc = "pump" /\ cur \in Rows /\ killer[cur] = "none"
  BY <1>t DEF DeadlinePasses, Overdue, InFlight, Killing
<1>2. /\ \A a \in Rows : Lives(a)' <=> Lives(a)
      /\ \A a \in Rows : RowOK(a)'
      /\ ProofIsGated'
  BY SchedulerStep DEF DeadlinePasses
<1>3. /\ killer' \in [Rows -> {"none", "queued", "grace", "killed", "withdrawn"}]
      /\ killer'[cur] = "queued" /\ \A b \in Rows : b # cur => killer'[b] = killer[b]
  BY <1>t, <1>1 DEF DeadlinePasses, Typed
<1>4. Typed'
  BY <1>t, <1>3 DEF Typed, DeadlinePasses
<1>5. InFlight'
  BY <1>t, <1>1, <1>3 DEF InFlight, DeadlinePasses, Typed, Rows
<1>6. Killing'
  BY <1>t, <1>1, <1>2, <1>3 DEF Killing, DeadlinePasses
<1>7. Decided'
  BY DEF Decided, DeadlinePasses
<1>8. NoneStray'
  BY <1>t, <1>1, <1>2, <1>3 DEF NoneStray, Answered, Attended, DeadlinePasses
<1> QED BY <1>2, <1>4, <1>5, <1>6, <1>7, <1>8 DEF IInv

\* What a killed group left is read once nothing of it is alive.
LEMMA KillEndsKeeps == IInv /\ KillEnds => IInv'
<1> SUFFICES ASSUME IInv, KillEnds PROVE IInv'
  OBVIOUS
<1>t. Typed /\ InFlight /\ Killing /\ NoneStray
  BY DEF IInv
<1>1. pc = "kill" /\ cur \in Rows /\ ~Lives(cur)
  BY <1>t DEF KillEnds, InFlight, Killing
<1>2. /\ \A a \in Rows : /\ Lives(a)' <=> Lives(a)
                         /\ ClaimsProof(a)' <=> ClaimsProof(a)
                         /\ HadItsSay(a)' <=> HadItsSay(a)
      /\ \A a \in Rows : RowOK(a)'
      /\ ProofIsGated'
  BY SchedulerStep DEF KillEnds
<1>3. /\ result' \in Results /\ result'.by = cur /\ result'.status # "none"
      /\ result'.status = "qed" => result'.proof \in Bodies /\ (result'.proof = "good" => ClaimsProof(cur))
      /\ result'.status # "error" => result'.how \in {"deadline", "limit"} \/ HadItsSay(cur)
      /\ ClaimsProof(cur) => result'.status = "qed" /\ result'.proof # "empty"
      /\ dir[cur].answer = "contested" => result'.status = "contested"
  BY <1>t, <1>1, DecideFacts DEF KillEnds
<1>4. Typed'
  BY <1>t, <1>3 DEF Typed, KillEnds
<1>5. InFlight'
  BY <1>t, <1>1 DEF InFlight, KillEnds
<1>6. Killing'
  BY <1>t, <1>1, <1>2 DEF Killing, KillEnds
<1>7. Decided'
  <2>1. UNCHANGED <<cur, dir, worker>> /\ pc' = "decided"
    BY DEF KillEnds
  <2>2. (ClaimsProof(cur)' <=> ClaimsProof(cur)) /\ (HadItsSay(cur)' <=> HadItsSay(cur))
    BY <2>1 DEF ClaimsProof, HadItsSay, HasAnswer
  <2> QED BY <1>3, <2>1, <2>2 DEF Decided
<1>8. NoneStray'
  BY <1>t, <1>1, <1>2 DEF NoneStray, Answered, Attended, KillEnds
<1> QED BY <1>2, <1>4, <1>5, <1>6, <1>7, <1>8 DEF IInv

\* Of what a withdrawn kill leaves behind: the kill no longer waits, and its group is loose.
LEMMA Withdrawn ==
    ASSUME IInv, pc = "kill", UNCHANGED <<dir, worker, cur>>, pc' \in {"decided", "down"},
           killer' = [killer EXCEPT ![cur] = IF @ = "queued" THEN "withdrawn" ELSE @],
           loose' = IF killer[cur] = "queued" THEN loose \cup {cur} ELSE loose
    PROVE  /\ killer' \in [Rows -> {"none", "queued", "grace", "killed", "withdrawn"}]
           /\ loose' \subseteq Rows /\ Killing' /\ NoneStray'
           /\ \A a \in Rows : cur < a => killer'[a] = killer[a]
<1>t. /\ Typed /\ InFlight /\ Killing /\ NoneStray /\ cur \in Rows
      /\ killer \in [Rows -> {"none", "queued", "grace", "killed", "withdrawn"}] /\ loose \subseteq Rows
  BY DEF IInv, InFlight, Typed
<1>1. \A a \in Rows : Lives(a)' <=> Lives(a)
  BY StaysPut
<1>2. killer[cur] \in {"queued", "grace", "killed"}
  BY <1>t DEF Killing
<1>3. CASE killer[cur] = "queued"
  <2>1. /\ killer' \in [Rows -> {"none", "queued", "grace", "killed", "withdrawn"}]
        /\ killer'[cur] = "withdrawn" /\ \A b \in Rows : b # cur => killer'[b] = killer[b]
        /\ loose' = loose \cup {cur}
    BY <1>t, <1>3
  <2>2. Killing'
    <3>1. \A b \in Rows : cur < b => b # cur
      BY <1>t DEF Rows
    <3> QED BY <1>t, <1>1, <2>1, <3>1 DEF Killing
  <2>3. NoneStray'
    BY <1>t, <1>1, <2>1 DEF NoneStray, Answered, Attended
  <2> QED BY <1>t, <2>1, <2>2, <2>3 DEF Typed, Rows
<1>4. CASE killer[cur] # "queued"
  <2>1. killer' = killer /\ loose' = loose
    BY <1>t, <1>4
  <2>2. Killing'
    BY <1>t, <1>1, <1>4, <2>1 DEF Killing
  <2>3. NoneStray'
    BY <1>t, <1>1, <1>2, <1>4, <2>1 DEF NoneStray, Answered, Attended, Killing
  <2> QED BY <1>t, <2>1, <2>2, <2>3
<1> QED BY <1>3, <1>4

\* A runner that is cancelled reads back what is there, and a kill it withdraws leaves its group loose.
LEMMA BackstopKeeps == IInv /\ Backstop => IInv'
<1> SUFFICES ASSUME IInv, Backstop PROVE IInv'
  OBVIOUS
<1>t. Typed /\ InFlight /\ pc = "kill" /\ cur \in Rows
  BY DEF IInv, InFlight, Backstop
<1>1. /\ killer' \in [Rows -> {"none", "queued", "grace", "killed", "withdrawn"}]
      /\ loose' \subseteq Rows /\ Killing' /\ NoneStray'
      /\ \A a \in Rows : cur < a => killer'[a] = killer[a]
  BY Withdrawn DEF Backstop
<1>2. /\ \A a \in Rows : ClaimsProof(a)' <=> ClaimsProof(a)
      /\ \A a \in Rows : RowOK(a)'
      /\ ProofIsGated'
  BY SchedulerStep DEF Backstop
<1>3. /\ result' \in Results /\ result'.by = cur /\ result'.how = "limit" /\ result'.status # "none"
      /\ result'.status = "qed" => result'.proof \in Bodies /\ (result'.proof = "good" => ClaimsProof(cur))
  BY <1>t, ReadBackFacts DEF Backstop
<1>4. Typed'
  BY <1>t, <1>1, <1>3 DEF Typed, Backstop
<1>5. InFlight'
  BY <1>t, <1>1 DEF InFlight, Backstop
<1>6. Decided'
  <2>1. UNCHANGED <<cur, dir, worker>> /\ pc' = "decided"
    BY DEF Backstop
  <2>2. ClaimsProof(cur)' <=> ClaimsProof(cur)
    BY <2>1 DEF ClaimsProof
  <2> QED BY <1>3, <2>1, <2>2 DEF Decided
<1> QED BY <1>1, <1>2, <1>4, <1>5, <1>6 DEF IInv

\* The row closes with what the gate said of the claim: a claim has been put to it, an
\* answer it could not judge is an error, and what it passes is a complete good proof.
LEMMA FinishKeeps == IInv /\ Finish => IInv'
<1> SUFFICES ASSUME IInv, Finish PROVE IInv'
  OBVIOUS
<1>t. /\ Typed /\ InFlight /\ Killing /\ NoneStray /\ Decided /\ ProofIsGated
      /\ pc = "decided" /\ cur \in Rows /\ rows[cur].status = "claimed" /\ node.status = "claimed"
      /\ result \in Results
  BY DEF IInv, InFlight, Finish, Typed
<1>0. UNCHANGED <<node, dir, worker, cur, killer, loose>> /\ pc' = "finished"
  BY DEF Finish
<1>1. \A a \in Rows : /\ Lives(a)' <=> Lives(a)
                      /\ ClaimsProof(a)' <=> ClaimsProof(a)
                      /\ HadItsSay(a)' <=> HadItsSay(a)
  BY <1>0, SchedulerStep
<1> DEFINE claims == result.status = "qed" /\ result.proof # "empty"
           gateOf(compiler) == IF claims THEN GateRun(result.proof, compiler) ELSE "none"
<1>2. PICK compiler \in BOOLEAN :
        /\ rows' = [rows EXCEPT ![cur] = [status |-> Settle(result.status, gateOf(compiler)),
                                          gate |-> gateOf(compiler), how |-> result.how]]
        /\ result' = Becomes(result, Settle(result.status, gateOf(compiler)))
  BY DEF Finish
<1> DEFINE gate == gateOf(compiler)
           status == Settle(result.status, gate)
<1>3. /\ gate \in {"none", "reject", "cannot", "pass"}
      /\ gate # "none" <=> claims
      /\ gate = "pass" /\ result.proof \in Bodies => result.proof = "good"
  BY DEF GateRun, Bodies
<1>4. /\ status \in {"qed", "stuck", "contested", "error"}
      /\ status = "qed" <=> result.status = "qed" /\ gate = "pass"
      /\ status = "contested" <=> result.status = "contested"
      /\ status = "error" <=> result.status = "error" \/ (result.status = "qed" /\ gate = "cannot")
  BY <1>t DEF Settle, Results, Decided
<1>5. /\ rows' = [rows EXCEPT ![cur] = [status |-> status, gate |-> gate, how |-> result.how]]
      /\ result' = Becomes(result, status)
  BY <1>2
<1> HIDE DEF gate, status
<1>6. /\ rows' \in [Rows -> AttemptRows]
      /\ rows'[cur].status = status /\ rows'[cur].gate = gate /\ rows'[cur].how = result.how
      /\ \A b \in Rows : b # cur => rows'[b] = rows[b]
  <2>1. [status |-> status, gate |-> gate, how |-> result.how] \in AttemptRows
    BY <1>t, <1>3, <1>4 DEF AttemptRows, Results
  <2> QED BY <1>t, <1>5, <2>1 DEF Typed
<1>7. /\ result' \in Results /\ result'.status = status
      /\ result'.proof = result.proof /\ result'.by = result.by
  <2>1. result.how \in {"none", "exit", "deadline", "limit"}
    BY <1>t DEF Results
  <2> QED BY <1>t, <1>4, <1>5, <2>1, Amended
<1>8. Typed'
  BY <1>t, <1>0, <1>6, <1>7 DEF Typed
<1>9. InFlight'
  BY <1>t, <1>0, <1>4, <1>6 DEF InFlight, Typed, Rows
<1>10. Killing' /\ NoneStray'
  BY <1>t, <1>0, <1>1 DEF Killing, NoneStray, Answered, Attended
<1>11. cur \in Gated' <=> status = "qed" /\ gate = "pass"
  BY <1>t, <1>6 DEF Gated
<1>12. status = "qed" => result.by = cur /\ result.proof = "good" /\ ClaimsProof(cur)
  BY <1>t, <1>3, <1>4 DEF Decided
<1>13. Decided'
  <2>1. pc' = "finished" /\ cur' = cur
    BY <1>0
  <2>2. status = "qed" => cur \in Gated'
    BY <1>4, <1>11
  <2> QED BY <1>7, <1>12, <2>1, <2>2 DEF Decided
<1>14. ProofIsGated'
  BY <1>t, <1>0 DEF ProofIsGated
<1>15. \A b \in Rows : RowOK(b)'
  <2>1. RowOK(cur)'
    <3>1. result.how \in {"exit", "deadline"} =>
            /\ ClaimsProof(cur) => gate # "none"
            /\ dir[cur].answer = "contested" => status = "contested"
      BY <1>t, <1>3, <1>4 DEF Decided
    <3>2. status \in {"stuck", "contested", "qed"} =>
            gate # "cannot" /\ (result.how \in {"deadline", "limit", "interrupted"} \/ HadItsSay(cur))
      BY <1>t, <1>3, <1>4 DEF Decided
    <3>3. cur' = cur /\ dir' = dir /\ (ClaimsProof(cur)' <=> ClaimsProof(cur)) /\ (HadItsSay(cur)' <=> HadItsSay(cur))
      BY <1>0 DEF ClaimsProof, HadItsSay, HasAnswer
    <3> QED BY <1>6, <1>11, <1>12, <3>1, <3>2, <3>3 DEF RowOK
  <2>2. ASSUME NEW b \in Rows, b # cur PROVE RowOK(b)'
    BY <1>0, <1>1, <1>6, <2>2 DEF IInv, RowOK, Gated
  <2>3. ASSUME NEW b \in Rows PROVE RowOK(b)'
    BY <1>0, <2>1, <2>2
  <2> QED BY <2>3
<1> QED BY <1>8, <1>9, <1>10, <1>13, <1>14, <1>15 DEF IInv

\* Only a claim the gate passed is what the node is proved by.
LEMMA ConcludeKeeps == IInv /\ Conclude => IInv'
<1> SUFFICES ASSUME IInv, Conclude PROVE IInv'
  OBVIOUS
<1>t. /\ Typed /\ InFlight /\ Killing /\ NoneStray /\ Decided /\ ProofIsGated /\ pc = "finished"
      /\ result \in Results /\ NoResult \in Results
  BY BoundsAssumption DEF IInv, Conclude, Typed, NoResult, Results, Rows
<1>0. UNCHANGED <<rows, dir, worker, cur, killer, loose>> /\ result' = NoResult /\ pc' \in {"over", "loop"}
  BY DEF Conclude
<1>1. /\ \A a \in Rows : /\ Lives(a)' <=> Lives(a)
                         /\ ClaimsProof(a)' <=> ClaimsProof(a)
      /\ \A a \in Rows : RowOK(a)'
      /\ UNCHANGED node => ProofIsGated'
  BY <1>0, SchedulerStep
<1>2. node' \in Nodes /\ ProofIsGated'
  <2>1. CASE /\ result.status = "qed"
             /\ node' = [status |-> "gated", body |-> result.proof, by |-> result.by]
    <3>1. cur \in Gated /\ result.by = cur /\ result.proof = "good" /\ cur \in Rows
      BY <1>t, <2>1 DEF Decided, InFlight
    <3>2. PICK b \in Rows : b = cur
      BY <3>1
    <3>3. ClaimsProof(b) /\ b \in Gated
      BY <3>1, <3>2 DEF IInv, RowOK
    <3>4. ClaimsProof(b)' /\ b \in Gated'
      BY <1>0, <1>1, <3>3 DEF Gated
    <3>5. node' \in Nodes
      BY <2>1, <3>1, BoundsAssumption DEF Nodes, Bodies, Rows
    <3> QED BY <2>1, <3>1, <3>2, <3>4, <3>5 DEF ProofIsGated, ClaimsProof
  <2>2. CASE \E s \in {"contested", "stuck", "open"} : node' = [node EXCEPT !.status = s]
    <3>1. PICK s \in {"contested", "stuck", "open"} : node' = [node EXCEPT !.status = s]
      BY <2>2
    <3>2. node' \in Nodes /\ node'.status = s
      BY <1>t, <3>1 DEF Typed, Nodes
    <3> QED BY <3>1, <3>2 DEF ProofIsGated
  <2>3. CASE UNCHANGED node
    BY <1>t, <1>1, <2>3 DEF Typed
  <2> QED BY <2>1, <2>2, <2>3 DEF Conclude
<1>3. Typed'
  BY <1>t, <1>0, <1>2 DEF Typed
<1>4. InFlight'
  BY <1>t, <1>0 DEF InFlight
<1>5. Killing' /\ NoneStray'
  BY <1>t, <1>0, <1>1 DEF Killing, NoneStray, Answered, Attended
<1>6. Decided'
  BY <1>0 DEF Decided
<1> QED BY <1>1, <1>2, <1>3, <1>4, <1>5, <1>6 DEF IInv

-----------------------------------------------------------------------------
(* The run's end and the next run *)

\* A run that is cancelled kills the group it pumps, or leaves it loose with its queued kill.
LEMMA InterruptKeeps == IInv /\ Interrupt => IInv'
<1> SUFFICES ASSUME IInv, Interrupt PROVE IInv'
  OBVIOUS
<1>t. /\ Typed /\ InFlight /\ Killing /\ NoneStray /\ cur \in Rows
      /\ killer \in [Rows -> {"none", "queued", "grace", "killed", "withdrawn"}]
      /\ NoResult \in Results
  BY BoundsAssumption DEF IInv, InFlight, Interrupt, Typed, NoResult, Results, Rows
<1>0. UNCHANGED <<node, rows, dir, worker, cur>> /\ result' = NoResult
  BY DEF Interrupt
<1>1. /\ \A a \in Rows : Lives(a)' <=> Lives(a)
      /\ \A a \in Rows : RowOK(a)'
      /\ ProofIsGated'
  BY <1>0, SchedulerStep
<1>2. /\ killer' \in [Rows -> {"none", "queued", "grace", "killed", "withdrawn"}]
      /\ loose' \subseteq Rows /\ Killing' /\ NoneStray' /\ pc' \in {"unwind", "down"}
      /\ pc' = "unwind" => pc = "pump"
      /\ \A a \in Rows : cur < a => killer'[a] = killer[a]
  <2>1. CASE pc = "pump" /\ killer' = [killer EXCEPT ![cur] = "queued"] /\ pc' = "unwind" /\ UNCHANGED loose
    <3>1. /\ killer' \in [Rows -> {"none", "queued", "grace", "killed", "withdrawn"}]
          /\ killer'[cur] = "queued" /\ \A b \in Rows : b # cur => killer'[b] = killer[b]
      BY <1>t, <2>1
    <3>2. Killing'
      BY <1>t, <1>0, <1>1, <2>1, <3>1 DEF Killing
    <3>3. NoneStray'
      BY <1>t, <1>0, <1>1, <2>1, <3>1 DEF NoneStray, Answered, Attended
    <3> QED BY <1>t, <2>1, <3>1, <3>2, <3>3 DEF Typed, Rows
  <2>2. CASE /\ pc = "kill" /\ pc' = "down"
             /\ killer' = [killer EXCEPT ![cur] = IF @ = "queued" THEN "withdrawn" ELSE @]
             /\ loose' = IF killer[cur] = "queued" THEN loose \cup {cur} ELSE loose
    BY <1>0, <2>2, Withdrawn
  <2>3. CASE pc \in {"decided", "finished"} /\ pc' = "down" /\ UNCHANGED <<killer, loose>>
    <3>1. Killing'
      BY <1>t, <1>0, <1>1, <2>3 DEF Killing
    <3>2. NoneStray'
      BY <1>t, <1>0, <1>1, <2>3 DEF NoneStray, Answered, Attended
    <3> QED BY <1>t, <2>3, <3>1, <3>2 DEF Typed
  <2> QED BY <2>1, <2>2, <2>3 DEF Interrupt
<1>3. Typed'
  BY <1>t, <1>0, <1>2 DEF Typed
<1>4. InFlight'
  BY <1>t, <1>0, <1>2 DEF InFlight
<1>5. Decided'
  BY <1>2 DEF Decided
<1> QED BY <1>1, <1>2, <1>3, <1>4, <1>5 DEF IInv

\* The run is down once the kill it asked for is through.
LEMMA UnwindKeeps == IInv /\ Unwind => IInv'
<1> SUFFICES ASSUME IInv, Unwind PROVE IInv'
  OBVIOUS
<1>t. Typed /\ InFlight /\ Killing /\ NoneStray
  BY DEF IInv
<1>1. /\ \A a \in Rows : Lives(a)' <=> Lives(a)
      /\ \A a \in Rows : RowOK(a)'
      /\ ProofIsGated'
  BY SchedulerStep DEF Unwind
<1>2. Typed'
  BY <1>t DEF Typed, Unwind
<1>3. InFlight'
  BY <1>t DEF InFlight, Unwind
<1>4. Killing'
  <2>1. killer[cur] = "killed" /\ cur \in Rows
    BY <1>t DEF Unwind, InFlight
  <2> QED BY <1>t, <1>1, <2>1 DEF Killing, Unwind
<1>5. NoneStray'
  <2>1. ~Lives(cur) /\ cur \in Rows
    BY <1>t DEF Unwind, InFlight, Killing
  <2> QED BY <1>t, <1>1, <2>1 DEF NoneStray, Answered, Attended, Unwind
<1>6. Decided'
  BY DEF Decided, Unwind
<1> QED BY <1>1, <1>2, <1>3, <1>4, <1>5, <1>6 DEF IInv

\* A sandbox that dies with its run leaves nothing alive, and what was said stands.
LEMMA SandboxesProceed ==
    ASSUME IInv, SandboxesDie, UNCHANGED dir
    PROVE  /\ worker' \in [Rows -> Workers]
           /\ \A a \in Rows :
                /\ Proceeds(a) /\ (ClaimsProof(a)' <=> ClaimsProof(a)) /\ (HadItsSay(a)' <=> HadItsSay(a))
                /\ worker[a] = NoWorker => worker'[a] = NoWorker
                /\ worker'[a].leader = "killed" =>
                      worker'[a].rc = 1 /\ (worker[a].leader = "killed" \/ (a \in Sandboxed /\ LeaderLives(a)))
           /\ UNCHANGED rows => \A a \in Rows : RowOK(a)'
           /\ UNCHANGED <<rows, node>> => ProofIsGated'
<1>t. /\ worker \in [Rows -> Workers]
      /\ \A a \in Rows : worker[a].leader = "killed" => worker[a].rc = 1
  BY DEF IInv, Typed, Killing
<1>1. \A w \in Workers :
        /\ KillGroup(w) \in Workers /\ KillGroup(w).leader # "alive" /\ KillGroup(w).child = "none"
        /\ w.leader # "alive" => KillGroup(w).leader = w.leader /\ KillGroup(w).rc = w.rc
        /\ w.leader = "alive" => KillGroup(w).leader = "killed" /\ KillGroup(w).rc = 1
        /\ KillGroup(w).fenced = w.fenced
  BY DEF KillGroup, Workers
<1>n. KillGroup(NoWorker) = NoWorker
  BY DEF KillGroup, NoWorker
<1>2. /\ worker' \in [Rows -> Workers]
      /\ \A a \in Rows : worker'[a] = IF a \in Sandboxed THEN KillGroup(worker[a]) ELSE worker[a]
  BY <1>t, <1>1 DEF SandboxesDie
<1>3. ASSUME NEW a \in Rows
      PROVE  /\ Proceeds(a) /\ (ClaimsProof(a)' <=> ClaimsProof(a)) /\ (HadItsSay(a)' <=> HadItsSay(a))
             /\ worker[a] = NoWorker => worker'[a] = NoWorker
             /\ worker'[a].leader = "killed" =>
                   worker'[a].rc = 1 /\ (worker[a].leader = "killed" \/ (a \in Sandboxed /\ LeaderLives(a)))
  <2>1. CASE a \notin Sandboxed
    <3>1. dir'[a] = dir[a] /\ worker'[a] = worker[a]
      BY <1>2, <2>1
    <3> QED BY <1>t, <3>1, StaysPut
  <2>2. CASE a \in Sandboxed
    <3>1. PICK w \in Workers : w = worker[a]
      BY <1>t
    <3>2. worker'[a] = KillGroup(w) /\ dir'[a] = dir[a]
      BY <1>2, <2>2, <3>1
    <3> QED BY <1>t, <1>n, <1>1, <2>2, <3>1, <3>2
            DEF Proceeds, Lives, LeaderLives, HasAnswer, ClaimsProof, HadItsSay
  <2> QED BY <2>1, <2>2
<1> QED BY <1>2, <1>3, RowsStay

\* A crash leaves its group loose, and every kill that had not ended.
LEMMA CrashKeeps == IInv /\ Crash => IInv'
<1> SUFFICES ASSUME IInv, Crash PROVE IInv'
  OBVIOUS
<1>t. /\ Typed /\ InFlight /\ Killing /\ NoneStray /\ NoResult \in Results
      /\ killer \in [Rows -> {"none", "queued", "grace", "killed", "withdrawn"}]
      /\ cur \in Rows /\ loose \subseteq Rows
  BY BoundsAssumption DEF IInv, Crash, InFlight, Typed, NoResult, Results, Rows
<1>0. UNCHANGED <<node, rows, dir, cur>> /\ result' = NoResult /\ pc' = "down"
  BY DEF Crash
<1>1. /\ \A a \in Rows : RowOK(a)'
      /\ ProofIsGated'
      /\ worker' \in [Rows -> Workers]
      /\ \A a \in Rows : /\ Proceeds(a) /\ (worker[a] = NoWorker => worker'[a] = NoWorker)
                         /\ worker'[a].leader = "killed" =>
                              worker'[a].rc = 1 /\ (worker[a].leader = "killed" \/ LeaderLives(a))
  BY <1>0, SandboxesProceed DEF Crash
<1>2. /\ killer' \in [Rows -> {"none", "queued", "grace", "killed", "withdrawn"}]
      /\ \A a \in Rows : IF killer[a] \in {"queued", "grace"} THEN killer'[a] = "withdrawn" /\ a \in loose'
                                                              ELSE killer'[a] = killer[a]
      /\ cur \in loose' /\ loose \subseteq loose' /\ loose' \subseteq Rows
      /\ \A a \in loose' : a \in loose \/ a = cur \/ killer[a] \in {"queued", "grace"}
  BY <1>t DEF Crash
<1>3. Typed'
  BY <1>t, <1>0, <1>1, <1>2 DEF Typed
<1>4. InFlight'
  BY <1>t, <1>0, <1>1, <1>2 DEF InFlight
<1>5. Killing'
  <2>1. ASSUME NEW a \in Rows, LeaderLives(a) PROVE a \in loose' \/ killer'[a] = "withdrawn"
    BY <1>t, <1>2, <2>1 DEF NoneStray, Answered, Attended, Lives, LeaderLives
  <2>2. ASSUME NEW a \in Rows, killer'[a] = "killed" PROVE ~Lives(a)'
    BY <1>t, <1>1, <1>2, <2>2 DEF Killing, Proceeds
  <2>3. ASSUME NEW a \in Rows, cur < a PROVE a \notin loose'
    BY <1>t, <1>2, <2>3 DEF Killing, InFlight, Rows
  <2>4. ASSUME NEW a \in Rows, worker'[a].leader = "killed"
        PROVE  worker'[a].rc = 1 /\ (killer'[a] # "none" \/ a \in loose')
    BY <1>t, <1>1, <1>2, <2>1, <2>4 DEF Killing
  <2> QED BY <1>0, <1>2, <2>2, <2>3, <2>4 DEF Killing
<1>6. NoneStray'
  <2>1. ASSUME NEW a \in Rows, Lives(a)' PROVE (worker'[a].leader = "exited" /\ killer'[a] = "none") \/ a \in loose'
    <3>1. Lives(a)
      BY <1>1, <2>1 DEF Proceeds
    <3>2. worker[a].leader = "exited" => worker'[a].leader = "exited"
      BY <1>1 DEF Proceeds
    <3> QED BY <1>t, <1>2, <3>1, <3>2 DEF NoneStray, Answered, Attended
  <2> QED BY <2>1 DEF NoneStray, Answered
<1>7. Decided'
  BY <1>0 DEF Decided
<1> QED BY <1>1, <1>3, <1>4, <1>5, <1>6, <1>7 DEF IInv

\* A resume closes the rows a dead run left claimed, and touches no other.
LEMMA ResumeKeeps == IInv /\ Resume => IInv'
<1> SUFFICES ASSUME IInv, Resume PROVE IInv'
  OBVIOUS
<1>t. Typed /\ InFlight /\ Killing /\ NoneStray /\ ProofIsGated
  BY DEF IInv
<1>0. UNCHANGED <<dir, cur, killer, result, loose>> /\ pc' \in {"loop", "over"} /\ pc \in {"down", "over"}
  BY DEF Resume
<1>1. /\ worker' \in [Rows -> Workers]
      /\ \A a \in Rows : /\ Proceeds(a) /\ (ClaimsProof(a)' <=> ClaimsProof(a)) /\ (HadItsSay(a)' <=> HadItsSay(a))
                         /\ worker[a] = NoWorker => worker'[a] = NoWorker
                         /\ worker'[a].leader = "killed" =>
                              worker'[a].rc = 1 /\ (worker[a].leader = "killed" \/ LeaderLives(a))
  BY <1>0, SandboxesProceed DEF Resume
<1>2. \A r \in AttemptRows :
        /\ CloseClaimed(r) \in AttemptRows
        /\ r.status = "claimed" => /\ CloseClaimed(r).status = "stuck" /\ CloseClaimed(r).how = "interrupted"
                                   /\ CloseClaimed(r).gate = r.gate
        /\ r.status # "claimed" => CloseClaimed(r) = r
  BY DEF CloseClaimed, AttemptRows
<1>3. /\ rows' \in [Rows -> AttemptRows]
      /\ \A a \in Rows :
           /\ rows[a].status = "claimed" => /\ rows'[a].status = "stuck" /\ rows'[a].how = "interrupted"
                                            /\ rows'[a].gate = "none"
           /\ rows[a].status # "claimed" => rows'[a] = rows[a]
  <2>1. rows' = [a \in Rows |-> CloseClaimed(rows[a])] /\ rows \in [Rows -> AttemptRows]
    BY <1>t DEF Resume, Typed
  <2>2. \A a \in Rows : rows[a].status = "claimed" => rows[a].gate = "none"
    BY <1>t DEF InFlight
  <2> QED BY <1>2, <2>1, <2>2
<1>4. \A a \in Rows : a \in Gated' <=> a \in Gated
  BY <1>3 DEF Gated
<1>5. \A a \in Rows : RowOK(a)'
  <2>1. ASSUME NEW a \in Rows PROVE RowOK(a)'
    <3>1. CASE rows[a].status = "claimed"
      BY <1>3, <3>1 DEF RowOK, Gated
    <3>2. CASE rows[a].status # "claimed"
      BY <1>0, <1>1, <1>3, <1>4, <3>2 DEF IInv, RowOK
    <3> QED BY <3>1, <3>2
  <2> QED BY <2>1
<1>6. node' \in Nodes /\ ProofIsGated'
  <2>1. CASE \E a \in Gated : node' = [status |-> "gated", body |-> "good", by |-> a]
    <3>1. PICK a \in Gated : node' = [status |-> "gated", body |-> "good", by |-> a]
      BY <2>1
    <3>2. a \in Rows /\ ClaimsProof(a)' /\ a \in Gated'
      BY <1>1, <1>4, <3>1 DEF Gated, IInv, RowOK
    <3>3. node' \in Nodes
      BY <3>1, <3>2, BoundsAssumption DEF Nodes, Bodies, Rows
    <3> QED BY <3>1, <3>2, <3>3 DEF ProofIsGated, ClaimsProof
  <2>2. CASE node' = [node EXCEPT !.status = "open"]
    <3>1. node' \in Nodes /\ node'.status = "open"
      BY <1>t, <2>2 DEF Typed, Nodes
    <3> QED BY <3>1 DEF ProofIsGated
  <2>3. CASE node.status = "open" /\ UNCHANGED node
    BY <1>t, <2>3 DEF Typed, ProofIsGated
  <2> QED BY <2>1, <2>2, <2>3 DEF Resume
<1>7. Typed'
  BY <1>t, <1>0, <1>1, <1>3, <1>6 DEF Typed
<1>8. InFlight'
  <2>1. \A a \in Rows : rows'[a].status # "claimed"
    BY <1>3
  <2>2. \A a \in Rows : cur < a => rows'[a] = NoRow
    BY <1>t, <1>3 DEF InFlight, NoRow
  <2> QED BY <1>t, <1>0, <1>1, <2>1, <2>2 DEF InFlight
<1>9. Killing' /\ NoneStray'
  <2>1. ASSUME NEW a \in Rows, Lives(a) PROVE (worker[a].leader = "exited" /\ killer[a] = "none") \/ a \in loose
    BY <1>t, <1>0, <2>1 DEF NoneStray, Answered, Attended, Resume
  <2>2. Killing'
    <3>1. ASSUME NEW a \in Rows, worker'[a].leader = "killed"
          PROVE  worker'[a].rc = 1 /\ (killer'[a] # "none" \/ a \in loose')
      BY <1>t, <1>0, <1>1, <2>1, <3>1 DEF Killing, Lives, LeaderLives
    <3>2. ASSUME NEW a \in Rows, killer'[a] = "killed" PROVE ~Lives(a)'
      BY <1>t, <1>0, <1>1, <3>2 DEF Killing, Proceeds
    <3> QED BY <1>t, <1>0, <3>1, <3>2 DEF Killing
  <2>3. NoneStray'
    <3>1. ASSUME NEW a \in Rows, Lives(a)'
          PROVE  (worker'[a].leader = "exited" /\ killer'[a] = "none") \/ a \in loose'
      BY <1>0, <1>1, <2>1, <3>1 DEF Proceeds
    <3> QED BY <3>1 DEF NoneStray, Answered
  <2> QED BY <2>2, <2>3
<1>10. Decided'
  BY <1>0 DEF Decided
<1> QED BY <1>5, <1>6, <1>7, <1>8, <1>9, <1>10 DEF IInv

-----------------------------------------------------------------------------
(* The inductive invariant *)

\* Before the first attempt nothing is claimed, left or alive.
LEMMA InvInit == Init => IInv
<1> SUFFICES ASSUME Init PROVE IInv
  OBVIOUS
<1>1. Typed
  <2>1. NoRow \in AttemptRows /\ NoDir \in Dirs /\ NoWorker \in Workers
    BY DEF NoRow, AttemptRows, NoDir, Dirs, NoWorker, Workers
  <2>2. NoResult \in Results /\ [status |-> "open", body |-> "none", by |-> 0] \in Nodes
    BY BoundsAssumption DEF NoResult, Results, Nodes
  <2>3. cur \in 0 .. MaxRows
    BY BoundsAssumption DEF Init
  <2> QED BY <2>1, <2>2, <2>3 DEF Init, Typed
<1>2. \A a \in Rows : rows[a] = NoRow /\ dir[a] = NoDir /\ worker[a] = NoWorker /\ killer[a] = "none"
  BY DEF Init
<1>3. pc = "loop" /\ node.status = "open" /\ loose = {}
  BY DEF Init
<1>4. InFlight
  BY <1>2, <1>3 DEF InFlight, NoRow
<1>5. \A a \in Rows : ~Lives(a)
  BY <1>2 DEF Lives, LeaderLives, NoWorker
<1>6. Killing /\ Decided /\ ProofIsGated /\ NoneStray
  BY <1>2, <1>3, <1>5 DEF Killing, Decided, ProofIsGated, NoneStray, Answered, NoWorker
<1>7. \A a \in Rows : RowOK(a)
  BY <1>2 DEF RowOK, Gated, NoRow
<1> QED BY <1>1, <1>4, <1>6, <1>7 DEF IInv

\* Every step keeps the invariant.
LEMMA InvStep == IInv /\ [Next]_vars => IInv'
<1> SUFFICES ASSUME IInv, [Next]_vars PROVE IInv'
  OBVIOUS
<1>1. CASE Run
  BY <1>1, BeginKeeps, GiveUpKeeps, PumpEndsKeeps, KillEndsKeeps, FinishKeeps, ConcludeKeeps, UnwindKeeps DEF Run
<1>2. CASE DeadlinePasses \/ Backstop
  BY <1>2, DeadlineKeeps, BackstopKeeps
<1>3. CASE Interrupt \/ Crash \/ Resume
  BY <1>3, InterruptKeeps, CrashKeeps, ResumeKeeps
<1>4. CASE \E a \in Rows : WorkerStep(a) \/ Killer(a)
  BY <1>4, WorkerKeeps, KillerKeeps
<1>5. CASE UNCHANGED vars
  BY <1>5, Unmoved DEF vars
<1> QED BY <1>1, <1>2, <1>3, <1>4, <1>5 DEF Next

\* What a leader leaves in its group, and what starts apart, ends with a sandboxed leader.
LEMMA WallsStand == Typed /\ Walled /\ [Next]_vars => Walled'
<1> SUFFICES ASSUME Typed, Walled, [Next]_vars PROVE Walled'
  OBVIOUS
<1>t. worker \in [Rows -> Workers] /\ apart \subseteq Rows /\ Sandboxed \subseteq Rows
  BY SandboxAssumption DEF Typed, Walled
<1> DEFINE Ended(w) == w.leader # "alive" /\ w.child = "none"
<1>1. \A w \in Workers : KillGroup(w) \in Workers /\ Ended(KillGroup(w))
  BY DEF KillGroup, Workers
<1>2. \A a \in Rows, w \in Workers, rc \in {0, 1} : a \in Sandboxed => Ended(Leaving(a, w, rc))
  BY DEF Leaving, Workers
<1>3. CASE UNCHANGED <<worker, apart>>
  BY <1>3 DEF Walled, Contained, Lives, LeaderLives
<1>4. CASE SandboxesDie
  BY <1>t, <1>1, <1>4 DEF SandboxesDie, Walled, Contained, Lives, LeaderLives
<1>5. CASE Begin
  <2> SUFFICES ASSUME worker' # worker PROVE Walled'
    BY <1>3, <1>5 DEF Begin
  <2>1. worker' = [worker EXCEPT ![cur'].leader = "alive"] /\ UNCHANGED apart /\ cur' \in Rows
    <3>1. cur \in 0 .. MaxRows /\ cur < MaxRows /\ cur' = cur + 1
      BY <1>5 DEF Begin, Typed
    <3>2. cur' \in Rows
      BY <3>1, BoundsAssumption DEF Rows
    <3> QED BY <1>5, <3>2 DEF Begin
  <2>2. \A w \in Workers : [w EXCEPT !.leader = "alive"].leader = "alive"
    BY DEF Workers
  <2>3. /\ worker'[cur'].leader = "alive" /\ \A b \in Rows : b # cur' => worker'[b] = worker[b]
    BY <1>t, <2>1, <2>2
  <2> QED BY <1>t, <2>1, <2>3 DEF Walled, Contained, Lives, LeaderLives
<1>6. ASSUME NEW a \in Rows, WorkerStep(a) \/ Killer(a) PROVE Walled'
  <2>1. CASE Kills(a) \/ Exits(a)
    <3>1. /\ apart' = IF a \in Sandboxed THEN apart \ {a} ELSE apart
          /\ a \in Sandboxed => Ended(worker'[a])
          /\ \A b \in Rows : b # a => worker'[b] = worker[b]
      BY <1>t, <1>1, <1>2, <2>1 DEF Kills, Exits
    <3> QED BY <1>t, <3>1 DEF Walled, Contained, Lives, LeaderLives
  <2>2. CASE StartsApart(a) \/ EndsApart(a)
    BY <1>t, <2>2 DEF StartsApart, EndsApart, Walled, Contained, Lives, LeaderLives
  <2>3. CASE Streams(a) \/ LeavesChild(a)
    <3>1. /\ worker[a].leader = "alive" /\ UNCHANGED apart
          /\ \A b \in Rows : b # a => worker'[b] = worker[b]
      BY <1>t, <2>3 DEF Streams, LeavesChild, LeaderLives
    <3>2. worker'[a].leader = "alive"
      <4>1. \A w \in Workers : [w EXCEPT !.fenced = TRUE].leader = w.leader
        BY DEF Workers
      <4>2. \A w \in Workers : \A how \in {"quiet", "pipe"} : [w EXCEPT !.child = how].leader = w.leader
        BY DEF Workers
      <4>3. CASE Streams(a)
        BY <1>t, <3>1, <4>1, <4>3 DEF Streams
      <4>4. CASE LeavesChild(a)
        <5>1. PICK how \in {"quiet", "pipe"} : worker' = [worker EXCEPT ![a].child = how]
          BY <4>4 DEF LeavesChild
        <5> QED BY <1>t, <3>1, <4>2, <5>1
      <4> QED BY <2>3, <4>3, <4>4
    <3> QED BY <1>t, <3>1, <3>2 DEF Walled, Contained, Lives, LeaderLives
  <2>4. CASE ChildExits(a)
    <3>1. /\ UNCHANGED apart /\ worker[a].child \in {"quiet", "pipe"}
          /\ worker' = [worker EXCEPT ![a] = [worker[a] EXCEPT !.child = "none"]]
      BY <1>t, <2>4 DEF ChildExits
    <3>2. \A w \in Workers : [w EXCEPT !.child = "none"].leader = w.leader
      BY DEF Workers
    <3>3. worker'[a].leader = worker[a].leader /\ \A b \in Rows : b # a => worker'[b] = worker[b]
      BY <1>t, <3>1, <3>2
    <3> QED BY <1>t, <3>1, <3>3 DEF Walled, Contained, Lives, LeaderLives
  <2>5. CASE OpensAnswer(a) \/ WritesAnswer(a) \/ WritesProof(a) \/ Terminates(a)
    BY <1>3, <2>5 DEF OpensAnswer, WritesAnswer, WritesProof, Terminates
  <2> QED BY <1>6, <2>1, <2>2, <2>3, <2>4, <2>5 DEF WorkerStep, Killer
<1>7. CASE Crash \/ Resume
  BY <1>4, <1>7 DEF Crash, Resume
<1>8. CASE GiveUp \/ PumpEnds \/ KillEnds \/ Finish \/ Conclude \/ Unwind
  BY <1>3, <1>8 DEF GiveUp, PumpEnds, KillEnds, Finish, Conclude, Unwind
<1>9. CASE DeadlinePasses \/ Backstop \/ Interrupt \/ UNCHANGED vars
  BY <1>3, <1>9 DEF DeadlinePasses, Backstop, Interrupt, vars
<1> QED BY <1>5, <1>6, <1>7, <1>8, <1>9 DEF Next, Run

\* The inductive invariant, and the walls of the sandboxes, hold in every reachable state.
THEOREM Inductive == Spec => [](IInv /\ Walled)
<1>1. Init => Walled
  BY DEF Init, Walled, Contained, Lives, LeaderLives, NoWorker
<1>2. IInv /\ Walled /\ [Next]_vars => IInv' /\ Walled'
  BY InvStep, WallsStand DEF IInv
<1> QED BY <1>1, <1>2, InvInit, PTL DEF Spec

\* Every variable stays in its type.
THEOREM TypeCorrect == Spec => []TypeOK
<1>1. IInv /\ Walled => TypeOK
  BY DEF IInv, Typed, Walled, TypeOK
<1> QED BY <1>1, Inductive, PTL

\* However a worker's process ended, the answer it completed is what its row says: a claimed
\* proof has been put to the gate, a contest has been taken for one.
THEOREM AnswerIsKeptEver == Spec => []AnswerIsKept
<1>1. IInv => AnswerIsKept
  BY DEF IInv, RowOK, AnswerIsKept
<1> QED BY <1>1, Inductive, PTL

\* A node is proved only by a body that a worker left complete in that attempt and that
\* the gate passed, over every crash, kill and resume.
THEOREM ProofIsGatedEver == Spec => []ProofIsGated
<1>1. IInv => ProofIsGated
  BY DEF IInv
<1> QED BY <1>1, Inductive, PTL

\* No process of a worker's group outlives its attempt unattended, but for one that its leader
\* left behind when it exited by itself and for a group whose run crashed or whose kill was
\* withdrawn; of a sandboxed worker nothing, in its group or apart, outlives the leader.
THEOREM NoStrayWorkerEver == Spec => []NoStrayWorker
<1>1. IInv /\ Walled => NoStrayWorker
  BY DEF IInv, NoneStray, Walled, NoStrayWorker
<1> QED BY <1>1, Inductive, PTL

\* Only an attempt whose worker had its say, or was cut off, is charged to the node.
THEOREM ChargedForItsOwnEver == Spec => []ChargedForItsOwn
<1>1. IInv => ChargedForItsOwn
  BY DEF IInv, RowOK, ChargedForItsOwn, HadItsSay
<1> QED BY <1>1, Inductive, PTL

-----------------------------------------------------------------------------
(* Numbers and sequences *)

\* A set that holds 0 and the next of each number in it holds all numbers.
LEMMA FromZero ==
    ASSUME NEW V, 0 \in V, \A n \in Nat : n \in V => n + 1 \in V
    PROVE  Nat \subseteq V
<1> DEFINE R == OpToRel(<, Nat)
           T == {n \in Nat : n \notin V}
<1>1. SUFFICES ASSUME T # {} PROVE FALSE
  OBVIOUS
<1>2. IsWellFoundedOn(R, Nat)
  BY NatLessThanWellFounded
<1>3. \A x, y \in Nat : <<x, y>> \in R <=> x < y
  BY DEF OpToRel
<1> HIDE DEF R
<1>4. PICK n \in T : \A y \in T : ~(<<y, n>> \in R)
  BY <1>1, <1>2, WFMin
<1>5. n \in Nat /\ n # 0
  BY <1>4
<1>6. n - 1 \in Nat /\ n - 1 < n /\ (n - 1) + 1 = n
  BY <1>5
<1>7. n - 1 \in V
  BY <1>3, <1>4, <1>5, <1>6
<1> QED BY <1>4, <1>5, <1>6, <1>7

\* A set that holds the empty sequence, and every sequence in it with one more element,
\* holds all sequences.
LEMMA FromEmpty ==
    ASSUME NEW T, NEW U, <<>> \in U, \A s \in Seq(T), e \in T : s \in U => Append(s, e) \in U
    PROVE  Seq(T) \subseteq U
<1> DEFINE V == {n \in Nat : \A s \in Seq(T) : Len(s) = n => s \in U}
<1>1. 0 \in V
  BY EmptySeq
<1>2. ASSUME NEW n \in Nat, n \in V PROVE n + 1 \in V
  <2>1. ASSUME NEW s \in Seq(T), Len(s) = n + 1 PROVE s \in U
    <3>1. PICK u \in Seq(T), e \in T : s = Append(u, e)
      BY <2>1, EmptySeq, SequenceEmptyOrAppend
    <3>2. Len(u) = n
      BY <2>1, <3>1, AppendProperties, LenProperties
    <3> QED BY <1>2, <3>1, <3>2
  <2> QED BY <2>1
<1>3. Nat \subseteq V
  BY <1>1, <1>2, FromZero
<1> QED BY <1>3, LenProperties

\* One more element.
LEMMA Appending ==
    ASSUME NEW T, NEW s \in Seq(T), NEW e \in T
    PROVE  /\ Append(s, e) \in Seq(T) /\ Append(s, e) # <<>> /\ Len(Append(s, e)) = Len(s) + 1 /\ Len(s) \in Nat
           /\ \A i \in 1..Len(s) : Append(s, e)[i] = s[i]
           /\ Append(s, e)[Len(s) + 1] = e
           /\ Append(s, e) = s \o <<e>> /\ <<e>> \in Seq(T)
BY AppendProperties, LenProperties, AppendIsConcat

\* It is the last one, and what was there comes before it.
LEMMA AppendLast ==
    ASSUME NEW T, NEW s \in Seq(T), NEW e \in T
    PROVE  Last(Append(s, e)) = e /\ Front(Append(s, e)) = s
<1>1. /\ Append(s, e) \in Seq(T) /\ Len(Append(s, e)) = Len(s) + 1 /\ Len(s) \in Nat
      /\ \A i \in 1..Len(s) : Append(s, e)[i] = s[i]
      /\ Append(s, e)[Len(s) + 1] = e
  BY Appending
<1>2. Last(Append(s, e)) = e
  BY <1>1 DEF Last
<1> DEFINE f == SubSeq(Append(s, e), 1, Len(s))
<1>3. \A i \in 1..Len(s) : Append(s, e)[i] \in T
  BY <1>1, ElementOfSeq
<1>4. f \in Seq(T) /\ Len(f) = Len(s) /\ \A i \in 1..Len(s) : f[i] = Append(s, e)[i]
  <2>1. /\ f \in Seq(T) /\ Len(f) = (IF 1 <= Len(s) THEN Len(s) - 1 + 1 ELSE 0)
        /\ \A i \in 1..(Len(s) - 1 + 1) : f[i] = Append(s, e)[1 + i - 1]
    BY <1>1, <1>3, SubSeqProperties
  <2> HIDE DEF f
  <2> QED BY <1>1, <2>1
<1> HIDE DEF f
<1>5. f = s
  BY <1>1, <1>4, SeqEqual
<1>6. Len(Append(s, e)) - 1 = Len(s)
  BY <1>1
<1> QED BY <1>2, <1>5, <1>6 DEF Front, f

\* Appending to joined sequences appends to the second.
LEMMA AppendJoined ==
    ASSUME NEW T, NEW u \in Seq(T), NEW s \in Seq(T), NEW e \in T
    PROVE  u \o Append(s, e) = Append(u \o s, e) /\ u \o s \in Seq(T)
<1>1. <<e>> \in Seq(T) /\ Append(s, e) = s \o <<e>>
  BY Appending
<1>2. u \o s \in Seq(T)
  BY ConcatProperties
<1>3. Append(u \o s, e) = (u \o s) \o <<e>>
  BY <1>2, Appending
<1>4. (u \o s) \o <<e>> = u \o (s \o <<e>>)
  BY <1>1, ConcatAssociative
<1> QED BY <1>1, <1>2, <1>3, <1>4

\* The last element of a sequence, and what comes before it.
LEMMA LastIs ==
    ASSUME NEW T, NEW s \in Seq(T), s # <<>>
    PROVE  Front(s) \in Seq(T) /\ Last(s) \in T /\ Append(Front(s), Last(s)) = s
<1>1. PICK u \in Seq(T), e \in T : s = Append(u, e)
  BY SequenceEmptyOrAppend
<1>2. Last(s) = e /\ Front(s) = u
  BY <1>1, AppendLast
<1> QED BY <1>1, <1>2

-----------------------------------------------------------------------------
(* Lexing, a sentence at a time *)

\* What the lexer has after each sentence: the recursion has a solution.
LEMMA LexedIs ==
    ASSUME NEW text, Len(text) \in Nat
    PROVE  Lexed(text) = [i \in 0..Len(text) |-> IF i = 0 THEN <<>> ELSE LexNext(Lexed(text)[i - 1], text[i])]
<1> DEFINE Sat(f, n) == f = [i \in 0..n |-> IF i = 0 THEN <<>> ELSE LexNext(f[i - 1], text[i])]
           V == {n \in Nat : \E f : Sat(f, n)}
<1>1. 0 \in V
  <2>1. Sat([i \in 0..0 |-> <<>>], 0)
    OBVIOUS
  <2> QED BY <2>1
<1>2. ASSUME NEW n \in Nat, n \in V PROVE n + 1 \in V
  <2>1. PICK f : Sat(f, n)
    BY <1>2
  <2> DEFINE g == [i \in 0..(n + 1) |-> IF i = n + 1 THEN LexNext(f[n], text[n + 1]) ELSE f[i]]
  <2>2. ASSUME NEW i \in 0..(n + 1) PROVE g[i] = IF i = 0 THEN <<>> ELSE LexNext(g[i - 1], text[i])
    <3>1. CASE i = n + 1
      BY <3>1
    <3>2. CASE i # n + 1
      <4>1. i \in 0..n /\ (i # 0 => i - 1 \in 0..n)
        BY <3>2
      <4> QED BY <2>1, <3>2, <4>1
    <3> QED BY <3>1, <3>2
  <2>3. Sat(g, n + 1)
    BY <2>2
  <2>4. \E h : Sat(h, n + 1)
    <3> HIDE DEF g
    <3> QED BY <2>3
  <2> HIDE DEF Sat
  <2> QED BY <2>4
<1>3. \E f : Sat(f, Len(text))
  BY <1>1, <1>2, FromZero
<1>4. Lexed(text) = CHOOSE f : Sat(f, Len(text))
  BY DEF Lexed
<1> QED BY <1>3, <1>4

\* Lexing of nothing, and of one more sentence.
LEMMA LexMore ==
    /\ Lex(<<>>) = <<>>
    /\ \A s \in Seq(Line), e \in Line : Lex(Append(s, e)) = LexNext(Lex(s), e)
<1>1. Lex(<<>>) = <<>>
  BY LexedIs DEF Lex
<1>2. ASSUME NEW s \in Seq(Line), NEW e \in Line PROVE Lex(Append(s, e)) = LexNext(Lex(s), e)
  <2> DEFINE b == Append(s, e)
             U == {n \in Nat : n \in 0..Len(s) => Lexed(b)[n] = Lexed(s)[n]}
  <2>1. Len(s) \in Nat /\ Len(b) = Len(s) + 1 /\ (\A i \in 1..Len(s) : b[i] = s[i]) /\ b[Len(s) + 1] = e
    BY Appending
  <2> HIDE DEF b
  <2>2. /\ Lexed(s)[0] = <<>> /\ \A i \in 1..Len(s) : Lexed(s)[i] = LexNext(Lexed(s)[i - 1], s[i])
    BY <2>1, LexedIs
  <2>3. /\ Lexed(b)[0] = <<>> /\ \A i \in 1..(Len(s) + 1) : Lexed(b)[i] = LexNext(Lexed(b)[i - 1], b[i])
    BY <2>1, LexedIs
  <2>4. 0 \in U
    BY <2>2, <2>3
  <2>5. ASSUME NEW n \in Nat, n \in U PROVE n + 1 \in U
    <3>1. CASE n + 1 \in 0..Len(s)
      <4>1. n \in 0..Len(s) /\ n + 1 \in 1..Len(s) /\ (n + 1) - 1 = n /\ n + 1 \in 1..(Len(s) + 1)
        BY <2>1, <3>1
      <4> QED BY <2>1, <2>2, <2>3, <2>5, <4>1
    <3> QED BY <3>1
  <2>6. Nat \subseteq U
    BY <2>4, <2>5, FromZero
  <2>7. Lexed(b)[Len(s)] = Lexed(s)[Len(s)]
    BY <2>1, <2>6
  <2>8. Len(s) + 1 \in 1..(Len(s) + 1) /\ (Len(s) + 1) - 1 = Len(s)
    BY <2>1
  <2>9. Lexed(b)[Len(s) + 1] = LexNext(Lexed(s)[Len(s)], e)
    BY <2>1, <2>3, <2>7, <2>8
  <2> QED BY <2>1, <2>9 DEF Lex, b
<1> QED BY <1>1, <1>2

\* The lexer makes sentences of sentences, and at least one.
LEMMA LexNextType == ASSUME NEW acc \in Seq(Line), NEW s \in Line PROVE LexNext(acc, s) \in Seq(Line) /\ LexNext(acc, s) # <<>>
<1>1. CASE acc = <<>>
  BY <1>1, Appending, EmptySeq DEF LexNext
<1>2. CASE acc # <<>>
  <2>1. Front(acc) \in Seq(Line) /\ Last(acc) \in Line
    BY <1>2, LastIs
  <2>2. ASSUME NEW kind \in Kind, kind # "wrap" PROVE [Last(acc) EXCEPT !.k = kind] \in Line
    BY <2>1, <2>2 DEF Line
  <2>3. s.k \in Kind /\ "glued" \in Kind
    BY DEF Line, Kind
  <2>4. \A e \in Line : Append(Front(acc), e) \in Seq(Line) /\ Append(Front(acc), e) # <<>> /\ Append(acc, s) \in Seq(Line)
    BY <2>1, Appending
  <2> QED BY <1>2, <2>2, <2>3, <2>4, Appending DEF LexNext
<1> QED BY <1>1, <1>2

\* Lexing makes sentences.
LEMMA LexType == \A s \in Seq(Line) : Lex(s) \in Seq(Line)
<1> DEFINE U == {s \in Seq(Line) : Lex(s) \in Seq(Line)}
<1>1. <<>> \in U
  BY LexMore, EmptySeq
<1>2. ASSUME NEW s \in Seq(Line), NEW e \in Line, s \in U PROVE Append(s, e) \in U
  BY <1>2, LexMore, LexNextType, Appending
<1> HIDE DEF U
<1>3. Seq(Line) \subseteq U
  BY <1>1, <1>2, FromEmpty
<1> QED BY <1>3 DEF U

\* The last sentence has ended.
Ended(lexed) == lexed = <<>> \/ Last(lexed).k \notin {"open", "comment"}

\* The same of sentences, for texts.
LEMMA LinesAppended ==
    \A u \in Seq(Line), x \in Line :
        /\ Append(u, x) \in Seq(Line) /\ Append(u, x) # <<>>
        /\ Last(Append(u, x)) = x /\ Front(Append(u, x)) = u
<1> SUFFICES ASSUME NEW u \in Seq(Line), NEW x \in Line
             PROVE  /\ Append(u, x) \in Seq(Line) /\ Append(u, x) # <<>>
                    /\ Last(Append(u, x)) = x /\ Front(Append(u, x)) = u
  OBVIOUS
<1>1. Append(u, x) \in Seq(Line) /\ Append(u, x) # <<>>
  BY Appending
<1>2. Last(Append(u, x)) = x /\ Front(Append(u, x)) = u
  BY AppendLast
<1> QED BY <1>1, <1>2

\* And joined.
LEMMA LinesJoined ==
    \A u, s \in Seq(Line), x \in Line : u \o s \in Seq(Line) /\ u \o Append(s, x) = Append(u \o s, x)
BY AppendJoined

\* A sentence is lexed against what the sentence before it has become, whatever came before that.
LEMMA LexNextJoined ==
    ASSUME NEW one \in Seq(Line), Ended(one), NEW acc \in Seq(Line), NEW e \in Line
    PROVE  LexNext(one \o acc, e) = one \o LexNext(acc, e)
<1>1. CASE acc = <<>>
  <2>1. one \o acc = one /\ LexNext(acc, e) = <<e>>
    BY <1>1, ConcatEmptySeq DEF LexNext
  <2>2. LexNext(one, e) = Append(one, e)
    <3>1. one = <<>> => Append(one, e) = <<e>>
      OBVIOUS
    <3> QED BY <3>1 DEF LexNext, Ended
  <2> QED BY <2>1, <2>2, Appending
<1>2. CASE acc # <<>>
  <2>1. PICK u \in Seq(Line), x \in Line : acc = Append(u, x)
    BY <1>2, SequenceEmptyOrAppend
  <2>2. one \o u \in Seq(Line)
    BY ConcatProperties
  <2>3. \A y \in Line : one \o Append(u, y) = Append(one \o u, y)
    BY LinesJoined
  <2>4. one \o acc = Append(one \o u, x)
    BY <2>1, <2>3
  <2>5. Last(acc) = x /\ Front(acc) = u
    BY <2>1, AppendLast
  <2>6. /\ Last(Append(one \o u, x)) = x /\ Front(Append(one \o u, x)) = one \o u
        /\ Append(one \o u, x) # <<>> /\ Append(one \o u, x) \in Seq(Line)
    BY <2>2, LinesAppended
  <2>7. Append(one \o acc, e) = one \o Append(acc, e)
    BY LinesJoined
  <2>8. ASSUME NEW kind \in {"open", "comment", "glued"} PROVE [x EXCEPT !.k = kind] \in Line
    BY DEF Line, Kind
  <2>9. \A kind \in {"open", "comment", "glued"} :
           Append(one \o u, [x EXCEPT !.k = kind]) = one \o Append(u, [x EXCEPT !.k = kind])
    BY <2>3, <2>8
  <2>10. LexNext(acc, e) = CASE x.k = "comment" -> acc
                             [] x.k = "open" -> Append(u, [x EXCEPT !.k = IF e.k \in {"open", "comment"} THEN e.k ELSE "glued"])
                             [] OTHER -> Append(acc, e)
    BY <1>2, <2>5 DEF LexNext
  <2>11. LexNext(one \o acc, e) =
             CASE x.k = "comment" -> one \o acc
               [] x.k = "open" -> Append(one \o u, [x EXCEPT !.k = IF e.k \in {"open", "comment"} THEN e.k ELSE "glued"])
               [] OTHER -> Append(one \o acc, e)
    BY <2>4, <2>6 DEF LexNext
  <2> QED BY <2>7, <2>9, <2>10, <2>11
<1> QED BY <1>1, <1>2

\* Two texts, the first of which ends its last sentence, are lexed one after the other.
LEMMA LexJoined ==
    ASSUME NEW a \in Seq(Line), Ended(Lex(a)), NEW b \in Seq(Line)
    PROVE  Lex(a \o b) = Lex(a) \o Lex(b) /\ a \o b \in Seq(Line)
<1> DEFINE U == {s \in Seq(Line) : Lex(a \o s) = Lex(a) \o Lex(s)}
<1>0. Lex(a) \in Seq(Line)
  BY LexType
<1>1. <<>> \in U
  BY <1>0, LexMore, EmptySeq, ConcatEmptySeq
<1>2. ASSUME NEW s \in Seq(Line), NEW e \in Line, s \in U PROVE Append(s, e) \in U
  <2>1. a \o Append(s, e) = Append(a \o s, e) /\ a \o s \in Seq(Line) /\ Append(s, e) \in Seq(Line)
    BY Appending, AppendJoined
  <2>2. Lex(a \o Append(s, e)) = LexNext(Lex(a) \o Lex(s), e) /\ Lex(Append(s, e)) = LexNext(Lex(s), e)
    BY <1>2, <2>1, LexMore
  <2>3. LexNext(Lex(a) \o Lex(s), e) = Lex(a) \o LexNext(Lex(s), e)
    <3>1. Lex(s) \in Seq(Line)
      BY LexType
    <3> QED BY <1>0, <3>1, LexNextJoined
  <2> QED BY <2>1, <2>2, <2>3
<1> HIDE DEF U
<1>3. Seq(Line) \subseteq U
  BY <1>1, <1>2, FromEmpty
<1> QED BY <1>3, ConcatProperties DEF U

\* A text whose sentences have all ended is what the lexer makes of it.
LEMMA LexFlat ==
    ASSUME NEW T \in SUBSET Line, \A s \in T : s.k \notin {"open", "comment"}, NEW text \in Seq(T)
    PROVE  Lex(text) = text /\ Ended(text) /\ text \in Seq(Line)
<1> DEFINE U == {s \in Seq(T) : Lex(s) = s /\ Ended(s) /\ s \in Seq(Line)}
<1>1. <<>> \in U
  BY LexMore, EmptySeq DEF Ended
<1>2. ASSUME NEW s \in Seq(T), NEW e \in T, s \in U PROVE Append(s, e) \in U
  <2>1. s \in Seq(Line) /\ e \in Line /\ Lex(Append(s, e)) = LexNext(s, e) /\ Ended(s)
    BY <1>2, LexMore
  <2>2. LexNext(s, e) = Append(s, e)
    <3>1. s = <<>> => Append(s, e) = <<e>>
      OBVIOUS
    <3> QED BY <2>1, <3>1 DEF LexNext, Ended
  <2>3. Last(Append(s, e)) = e /\ Append(s, e) \in Seq(T)
    BY Appending, AppendLast
  <2>4. Append(s, e) \in Seq(Line)
    BY <2>1, Appending
  <2> QED BY <2>1, <2>2, <2>3, <2>4 DEF Ended
<1> HIDE DEF U
<1>3. Seq(T) \subseteq U
  BY <1>1, <1>2, FromEmpty
<1> QED BY <1>3 DEF U

-----------------------------------------------------------------------------
(* Compiling, a sentence at a time *)

\* What Rocq has made of a text after each sentence: the recursion has a solution.
LEMMA CompiledIs ==
    ASSUME NEW st, NEW text, Len(text) \in Nat
    PROVE  Compiled(st, text) = [i \in 0..Len(text) |-> IF i = 0 THEN st ELSE Step(Compiled(st, text)[i - 1], text[i])]
<1> DEFINE Sat(f, n) == f = [i \in 0..n |-> IF i = 0 THEN st ELSE Step(f[i - 1], text[i])]
           U == {n \in Nat : \E f : Sat(f, n)}
<1>1. 0 \in U
  <2>1. Sat([i \in 0..0 |-> st], 0)
    OBVIOUS
  <2> QED BY <2>1
<1>2. ASSUME NEW n \in Nat, n \in U PROVE n + 1 \in U
  <2>1. PICK f : Sat(f, n)
    BY <1>2
  <2> DEFINE g == [i \in 0..(n + 1) |-> IF i = n + 1 THEN Step(f[n], text[n + 1]) ELSE f[i]]
  <2>2. ASSUME NEW i \in 0..(n + 1) PROVE g[i] = IF i = 0 THEN st ELSE Step(g[i - 1], text[i])
    <3>1. CASE i = n + 1
      BY <3>1
    <3>2. CASE i # n + 1
      <4>1. i \in 0..n /\ (i # 0 => i - 1 \in 0..n)
        BY <3>2
      <4> QED BY <2>1, <3>2, <4>1
    <3> QED BY <3>1, <3>2
  <2>3. Sat(g, n + 1)
    BY <2>2
  <2>4. \E h : Sat(h, n + 1)
    <3> HIDE DEF g
    <3> QED BY <2>3
  <2> HIDE DEF Sat
  <2> QED BY <2>4
<1>3. \E f : Sat(f, Len(text))
  BY <1>1, <1>2, FromZero
<1>4. Compiled(st, text) = CHOOSE f : Sat(f, Len(text))
  BY DEF Compiled
<1> QED BY <1>3, <1>4

\* Compiling nothing, and one more sentence.
LEMMA CompileMore ==
    ASSUME NEW st
    PROVE  /\ Compile(st, <<>>) = st
           /\ \A s \in Seq(Line), e \in Line : Compile(st, Append(s, e)) = Step(Compile(st, s), e)
<1>1. Compile(st, <<>>) = st
  BY CompiledIs DEF Compile
<1>2. ASSUME NEW s \in Seq(Line), NEW e \in Line PROVE Compile(st, Append(s, e)) = Step(Compile(st, s), e)
  <2> DEFINE b == Append(s, e)
             cb == Compiled(st, b)
             cs == Compiled(st, s)
             U == {n \in Nat : n \in 0..Len(s) => cb[n] = cs[n]}
  <2>1. Len(s) \in Nat /\ Len(b) = Len(s) + 1 /\ (\A i \in 1..Len(s) : b[i] = s[i]) /\ b[Len(s) + 1] = e
    BY Appending
  <2> HIDE DEF b
  <2>2. /\ cs[0] = st /\ \A i \in 1..Len(s) : cs[i] = Step(cs[i - 1], s[i])
    <3>1. cs = [i \in 0..Len(s) |-> IF i = 0 THEN st ELSE Step(cs[i - 1], s[i])]
      BY <2>1, CompiledIs
    <3> HIDE DEF cs
    <3> QED BY <2>1, <3>1
  <2>3. /\ cb[0] = st /\ \A i \in 1..(Len(s) + 1) : cb[i] = Step(cb[i - 1], b[i])
    <3>1. cb = [i \in 0..Len(b) |-> IF i = 0 THEN st ELSE Step(cb[i - 1], b[i])]
      BY <2>1, CompiledIs
    <3> HIDE DEF cb
    <3> QED BY <2>1, <3>1
  <2> HIDE DEF cb, cs
  <2>4. 0 \in U
    BY <2>2, <2>3
  <2>5. ASSUME NEW n \in Nat, n \in U PROVE n + 1 \in U
    <3>1. CASE n + 1 \in 0..Len(s)
      <4>1. n \in 0..Len(s) /\ n + 1 \in 1..Len(s) /\ (n + 1) - 1 = n /\ n + 1 \in 1..(Len(s) + 1)
        BY <2>1, <3>1
      <4> QED BY <2>1, <2>2, <2>3, <2>5, <4>1
    <3> QED BY <3>1
  <2>6. Nat \subseteq U
    BY <2>4, <2>5, FromZero
  <2>7. cb[Len(s)] = cs[Len(s)]
    BY <2>1, <2>6
  <2>8. Len(s) + 1 \in 1..(Len(s) + 1) /\ (Len(s) + 1) - 1 = Len(s)
    BY <2>1
  <2>9. cb[Len(s) + 1] = Step(cs[Len(s)], e)
    BY <2>1, <2>3, <2>7, <2>8
  <2> QED BY <2>1, <2>9 DEF Compile, b, cb, cs
<1> QED BY <1>1, <1>2

\* A text compiles its parts, one after the other.
LEMMA CompileJoined ==
    ASSUME NEW st, NEW a \in Seq(Line), NEW b \in Seq(Line)
    PROVE  Compile(st, a \o b) = Compile(Compile(st, a), b)
<1> DEFINE U == {s \in Seq(Line) : Compile(st, a \o s) = Compile(Compile(st, a), s)}
<1>1. <<>> \in U
  BY CompileMore, EmptySeq, ConcatEmptySeq
<1>2. ASSUME NEW s \in Seq(Line), NEW e \in Line, s \in U PROVE Append(s, e) \in U
  <2>1. a \o Append(s, e) = Append(a \o s, e) /\ a \o s \in Seq(Line) /\ Append(s, e) \in Seq(Line)
    BY LinesJoined, LinesAppended
  <2>2. Compile(st, Append(a \o s, e)) = Step(Compile(st, a \o s), e)
    BY <2>1, CompileMore
  <2>3. Compile(Compile(st, a), Append(s, e)) = Step(Compile(Compile(st, a), s), e)
    BY CompileMore
  <2> QED BY <1>2, <2>1, <2>2, <2>3
<1> HIDE DEF U
<1>3. Seq(Line) \subseteq U
  BY <1>1, <1>2, FromEmpty
<1> QED BY <1>3 DEF U

\* Rocq stops at its first error.
LEMMA ErrorsStay ==
    ASSUME NEW st, st.err, NEW text \in Seq(Line)
    PROVE  Compile(st, text) = st
<1> DEFINE U == {s \in Seq(Line) : Compile(st, s) = st}
<1>1. <<>> \in U
  BY CompileMore, EmptySeq
<1>2. ASSUME NEW s \in Seq(Line), NEW e \in Line, s \in U PROVE Append(s, e) \in U
  <2>1. Compile(st, Append(s, e)) = Step(Compile(st, s), e)
    BY CompileMore
  <2>2. Compile(st, s) = st
    BY <1>2
  <2> QED BY <2>1, <2>2, LinesAppended DEF Step
<1> HIDE DEF U
<1>3. Seq(Line) \subseteq U
  BY <1>1, <1>2, FromEmpty
<1> QED BY <1>3 DEF U

-----------------------------------------------------------------------------
(* What a sentence does to a compilation *)

Plain == [k : Kind, n : Path, t : Wording]
Ran(s) == IF s.k = "wrap" THEN Inner(s) ELSE s
Constant == [name : Path, t : Wording, how : {"axiom", "def", "proof"}, rests : SUBSET Path]
OpenProof == [name : Path, t : Wording, solved : BOOLEAN, admits : BOOLEAN, rests : SUBSET Path]
StateOK(st) ==
    st \in [env : Seq(Constant), proofs : Seq(OpenProof), mods : Path, nested : BOOLEAN, ambient : Nat, out : {st.out},
            err : BOOLEAN]

\* What has been stated, what is open and under what settings: a compilation without its proofs.
Label == Path \X Wording
Labels(proofs) == [i \in DOMAIN proofs |-> <<proofs[i].name, proofs[i].t>>]
Record(s, n, m, b, a) == [stated |-> s, open |-> n, mods |-> m, nested |-> b, ambient |-> a]
Outline(st) == Record(Stated(st.env), Labels(st.proofs), st.mods, st.nested, st.ambient)
OutlineType == [stated : Seq(Label), open : Seq(Label), mods : Path, nested : BOOLEAN, ambient : Nat]
Drawn(o, s) ==
    CASE s.k \in {"lemma", "goal"} -> Record(o.stated, Append(o.open, <<s.n, s.t>>), o.mods, o.nested, o.ambient)
      [] s.k \in {"qed", "defined", "admitted", "term"} ->
            Record(Append(o.stated, <<o.mods \o Last(o.open)[1], Last(o.open)[2]>>), Front(o.open), o.mods, o.nested, o.ambient)
      [] s.k = "abort" -> Record(o.stated, Front(o.open), o.mods, o.nested, o.ambient)
      [] s.k \in {"axiom", "def"} -> Record(Append(o.stated, <<o.mods \o s.n, s.t>>), o.open, o.mods, o.nested, o.ambient)
      [] s.k \in {"notation", "hint"} -> Record(o.stated, o.open, o.mods, o.nested, o.ambient + 1)
      [] s.k = "hatch" -> Record(o.stated, o.open, o.mods, TRUE, o.ambient + 1)
      [] s.k = "module" -> Record(o.stated, o.open, o.mods \o s.n, o.nested, o.ambient)
      [] s.k = "end" -> Record(o.stated, o.open, Front(o.mods), o.nested, o.ambient)
      [] OTHER -> o

\* An outline, field by field.
LEMMA Fields ==
    /\ \A s, n, m, b, a : /\ Record(s, n, m, b, a).stated = s /\ Record(s, n, m, b, a).open = n
                          /\ Record(s, n, m, b, a).mods = m /\ Record(s, n, m, b, a).nested = b
                          /\ Record(s, n, m, b, a).ambient = a
    /\ \A s \in Seq(Label), n \in Seq(Label), m \in Path, b \in BOOLEAN, a \in Nat : Record(s, n, m, b, a) \in OutlineType
    /\ \A o \in OutlineType :
          /\ o = Record(o.stated, o.open, o.mods, o.nested, o.ambient)
          /\ o.stated \in Seq(Label) /\ o.open \in Seq(Label) /\ o.mods \in Path /\ o.nested \in BOOLEAN /\ o.ambient \in Nat
<1>1. \A s, n, m, b, a : /\ Record(s, n, m, b, a).stated = s /\ Record(s, n, m, b, a).open = n
                         /\ Record(s, n, m, b, a).mods = m /\ Record(s, n, m, b, a).nested = b
                         /\ Record(s, n, m, b, a).ambient = a
  BY DEF Record
<1>2. \A s \in Seq(Label), n \in Seq(Label), m \in Path, b \in BOOLEAN, a \in Nat : Record(s, n, m, b, a) \in OutlineType
  BY DEF Record, OutlineType
<1>3. \A o \in OutlineType :
         /\ o = Record(o.stated, o.open, o.mods, o.nested, o.ambient)
         /\ o.stated \in Seq(Label) /\ o.open \in Seq(Label) /\ o.mods \in Path /\ o.nested \in BOOLEAN /\ o.ambient \in Nat
  BY DEF Record, OutlineType
<1> QED BY <1>1, <1>2, <1>3

\* The outline of a compilation, field by field.
LEMMA OutlineFields ==
    ASSUME NEW st
    PROVE  /\ Outline(st).stated = Stated(st.env) /\ Outline(st).open = Labels(st.proofs) /\ Outline(st).mods = st.mods
           /\ Outline(st).nested = st.nested /\ Outline(st).ambient = st.ambient
BY Fields DEF Outline

\* And the same, from what it is.
LEMMA OutlineWas ==
    ASSUME NEW st, NEW s, NEW n, NEW m, NEW b, NEW a, Outline(st) = Record(s, n, m, b, a)
    PROVE  Stated(st.env) = s /\ Labels(st.proofs) = n /\ st.mods = m /\ st.nested = b /\ st.ambient = a
<1>1. /\ Outline(st).stated = s /\ Outline(st).open = n /\ Outline(st).mods = m /\ Outline(st).nested = b
      /\ Outline(st).ambient = a
  BY DEF Record
<1> QED BY <1>1, OutlineFields

\* What `Time` runs is a plain sentence.
LEMMA RanIs == ASSUME NEW s \in Line PROVE Ran(s) \in Plain
BY SourceAssumption DEF Ran, Inner, S, Line, Plain

\* The statements of an environment, one by one.
LEMMA StatedIs ==
    ASSUME NEW env \in Seq(Constant)
    PROVE  /\ Stated(env) \in Seq(Label) /\ Len(Stated(env)) = Len(env) /\ Len(env) \in Nat
           /\ \A i \in 1..Len(env) : Stated(env)[i] = <<env[i].name, env[i].t>> /\ env[i] \in Constant
<1>1. Len(env) \in Nat /\ DOMAIN env = 1..Len(env) /\ \A i \in 1..Len(env) : env[i] \in Constant
  BY LenProperties, ElementOfSeq
<1>2. Stated(env) = [i \in 1..Len(env) |-> <<env[i].name, env[i].t>>]
  BY <1>1 DEF Stated
<1>3. \A i \in 1..Len(env) : <<env[i].name, env[i].t>> \in Label
  BY <1>1 DEF Constant, Label
<1>4. Stated(env) \in Seq(Label)
  BY <1>1, <1>2, <1>3, IsASeq
<1>5. Len(Stated(env)) = Len(env)
  BY <1>1, <1>2, <1>4, LenProperties
<1> QED BY <1>1, <1>2, <1>4, <1>5

\* One more declaration is stated after the others.
LEMMA StatedAppend ==
    ASSUME NEW env \in Seq(Constant), NEW e \in Constant
    PROVE  Stated(Append(env, e)) = Append(Stated(env), <<e.name, e.t>>)
<1> DEFINE a == Append(env, e)
           b == Append(Stated(env), <<e.name, e.t>>)
<1>1. <<e.name, e.t>> \in Label
  BY DEF Constant, Label
<1>2. a \in Seq(Constant) /\ Len(a) = Len(env) + 1 /\ (\A i \in 1..Len(env) : a[i] = env[i]) /\ a[Len(env) + 1] = e
  BY Appending
<1>3. /\ Stated(env) \in Seq(Label) /\ Len(Stated(env)) = Len(env) /\ Len(env) \in Nat
      /\ \A i \in 1..Len(env) : Stated(env)[i] = <<env[i].name, env[i].t>>
  BY StatedIs
<1>4. /\ b \in Seq(Label) /\ Len(b) = Len(env) + 1
      /\ (\A i \in 1..Len(env) : b[i] = Stated(env)[i]) /\ b[Len(env) + 1] = <<e.name, e.t>>
  BY <1>1, <1>3, Appending
<1>5. /\ Stated(a) \in Seq(Label) /\ Len(Stated(a)) = Len(a)
      /\ \A i \in 1..Len(a) : Stated(a)[i] = <<a[i].name, a[i].t>>
  BY <1>2, StatedIs
<1> HIDE DEF a, b
<1>6. ASSUME NEW i \in 1..(Len(env) + 1) PROVE Stated(a)[i] = b[i]
  <2>1. CASE i = Len(env) + 1
    BY <1>2, <1>4, <1>5, <2>1
  <2>2. CASE i # Len(env) + 1
    <3>1. i \in 1..Len(env)
      BY <1>3, <2>2
    <3> QED BY <1>2, <1>3, <1>4, <1>5, <3>1
  <2> QED BY <2>1, <2>2
<1>7. Stated(a) = b
  BY <1>2, <1>4, <1>5, <1>6, SeqEqual
<1> QED BY <1>7 DEF a, b

\* The same of the open proofs.
LEMMA LabelsIs ==
    ASSUME NEW ps \in Seq(OpenProof)
    PROVE  /\ Labels(ps) \in Seq(Label) /\ Len(Labels(ps)) = Len(ps) /\ Len(ps) \in Nat
           /\ \A i \in 1..Len(ps) : Labels(ps)[i] = <<ps[i].name, ps[i].t>> /\ ps[i] \in OpenProof
<1>1. Len(ps) \in Nat /\ DOMAIN ps = 1..Len(ps) /\ \A i \in 1..Len(ps) : ps[i] \in OpenProof
  BY LenProperties, ElementOfSeq
<1>2. Labels(ps) = [i \in 1..Len(ps) |-> <<ps[i].name, ps[i].t>>]
  BY <1>1 DEF Labels
<1>3. \A i \in 1..Len(ps) : <<ps[i].name, ps[i].t>> \in Label
  BY <1>1 DEF OpenProof, Label
<1>4. Labels(ps) \in Seq(Label)
  BY <1>1, <1>2, <1>3, IsASeq
<1>5. Len(Labels(ps)) = Len(ps)
  BY <1>1, <1>2, <1>4, LenProperties
<1> QED BY <1>1, <1>2, <1>4, <1>5

\* One more open proof comes after the others.
LEMMA LabelsAppend ==
    ASSUME NEW ps \in Seq(OpenProof), NEW p \in OpenProof
    PROVE  Labels(Append(ps, p)) = Append(Labels(ps), <<p.name, p.t>>)
<1> DEFINE a == Append(ps, p)
           b == Append(Labels(ps), <<p.name, p.t>>)
<1>1. <<p.name, p.t>> \in Label
  BY DEF OpenProof, Label
<1>2. a \in Seq(OpenProof) /\ Len(a) = Len(ps) + 1 /\ (\A i \in 1..Len(ps) : a[i] = ps[i]) /\ a[Len(ps) + 1] = p
  BY Appending
<1>3. /\ Labels(ps) \in Seq(Label) /\ Len(Labels(ps)) = Len(ps) /\ Len(ps) \in Nat
      /\ \A i \in 1..Len(ps) : Labels(ps)[i] = <<ps[i].name, ps[i].t>>
  BY LabelsIs
<1>4. /\ b \in Seq(Label) /\ Len(b) = Len(ps) + 1
      /\ (\A i \in 1..Len(ps) : b[i] = Labels(ps)[i]) /\ b[Len(ps) + 1] = <<p.name, p.t>>
  BY <1>1, <1>3, Appending
<1>5. /\ Labels(a) \in Seq(Label) /\ Len(Labels(a)) = Len(a)
      /\ \A i \in 1..Len(a) : Labels(a)[i] = <<a[i].name, a[i].t>>
  BY <1>2, LabelsIs
<1> HIDE DEF a, b
<1>6. ASSUME NEW i \in 1..(Len(ps) + 1) PROVE Labels(a)[i] = b[i]
  <2>1. CASE i = Len(ps) + 1
    BY <1>2, <1>4, <1>5, <2>1
  <2>2. CASE i # Len(ps) + 1
    <3>1. i \in 1..Len(ps)
      BY <1>3, <2>2
    <3> QED BY <1>2, <1>3, <1>4, <1>5, <3>1
  <2> QED BY <2>1, <2>2
<1>7. Labels(a) = b
  BY <1>2, <1>4, <1>5, <1>6, SeqEqual
<1> QED BY <1>7 DEF a, b

\* The proof under way is the last; what came before it stays open behind it.
Behind(st, u, p) ==
    /\ st.proofs = Append(u, p) /\ Front(st.proofs) = u /\ Proof(st) = p /\ st.proofs[Len(st.proofs)] = p
    /\ Labels(st.proofs) = Append(Labels(u), <<p.name, p.t>>)
    /\ Front(Labels(st.proofs)) = Labels(u) /\ Last(Labels(st.proofs)) = <<p.name, p.t>>
    /\ \A q \in OpenProof : [st.proofs EXCEPT ![Len(st.proofs)] = q] = Append(u, q)

\* A state inside a proof has a last one and what is behind it.
LEMMA UnderWay ==
    ASSUME NEW st, StateOK(st), Proving(st)
    PROVE  \E u \in Seq(OpenProof), p \in OpenProof : Behind(st, u, p)
<1>1. st.proofs \in Seq(OpenProof) /\ st.proofs # <<>>
  BY DEF StateOK, Proving
<1>2. PICK u \in Seq(OpenProof), p \in OpenProof : st.proofs = Append(u, p)
  BY <1>1, SequenceEmptyOrAppend
<1>3. Front(st.proofs) = u /\ Last(st.proofs) = p
  BY <1>2, AppendLast
<1>4. Proof(st) = p /\ st.proofs[Len(st.proofs)] = p
  BY <1>3 DEF Proof, Last
<1>5. Labels(st.proofs) = Append(Labels(u), <<p.name, p.t>>)
  BY <1>2, LabelsAppend
<1>6. Labels(u) \in Seq(Label) /\ <<p.name, p.t>> \in Label
  BY LabelsIs DEF OpenProof, Label
<1>7. Front(Labels(st.proofs)) = Labels(u) /\ Last(Labels(st.proofs)) = <<p.name, p.t>>
  BY <1>5, <1>6, AppendLast
<1>8. ASSUME NEW q \in OpenProof PROVE [st.proofs EXCEPT ![Len(st.proofs)] = q] = Append(u, q)
  <2> DEFINE ps == st.proofs
             a == [ps EXCEPT ![Len(ps)] = q]
             b == Append(u, q)
  <2>1. Len(u) \in Nat /\ Len(ps) = Len(u) + 1 /\ ps \in Seq(OpenProof) /\ \A i \in 1..Len(u) : ps[i] = u[i]
    BY <1>1, <1>2, Appending
  <2>2. b \in Seq(OpenProof) /\ Len(b) = Len(u) + 1 /\ (\A i \in 1..Len(u) : b[i] = u[i]) /\ b[Len(u) + 1] = q
    BY Appending
  <2>3. a \in Seq(OpenProof) /\ Len(a) = Len(ps) /\ DOMAIN ps = 1..Len(ps)
    BY <2>1, ExceptSeq, LenProperties
  <2>4. \A i \in 1..Len(ps) : a[i] = IF i = Len(ps) THEN q ELSE ps[i]
    BY <2>3
  <2> HIDE DEF a, b, ps
  <2>5. ASSUME NEW i \in 1..(Len(u) + 1) PROVE a[i] = b[i]
    <3>1. CASE i = Len(u) + 1
      BY <2>1, <2>2, <2>4, <3>1
    <3>2. CASE i # Len(u) + 1
      <4>1. i \in 1..Len(u) /\ i # Len(ps) /\ i \in 1..Len(ps)
        BY <2>1, <3>2
      <4> QED BY <2>1, <2>2, <2>4, <4>1
    <3> QED BY <3>1, <3>2
  <2>6. a = b
    BY <2>1, <2>2, <2>3, <2>5, SeqEqual
  <2> QED BY <2>6 DEF a, b, ps
<1>9. \A q \in OpenProof : [st.proofs EXCEPT ![Len(st.proofs)] = q] = Append(u, q)
  BY <1>8
<1> QED BY <1>2, <1>3, <1>4, <1>5, <1>7, <1>9, Zenon DEF Behind

\* A set of places has a last one.
LEMMA LastPlace ==
    ASSUME NEW b \in Nat, NEW P \in SUBSET (1..b), P # {}
    PROVE  \E m \in P : \A k \in P : k <= m
<1> DEFINE V == {n \in Nat : (\E m \in P : \A k \in P : k <= m) \/ \A k \in P : k <= b - n}
<1>1. 0 \in V
  OBVIOUS
<1>2. ASSUME NEW n \in Nat, n \in V PROVE n + 1 \in V
  <2>1. CASE \E m \in P : \A k \in P : k <= m
    BY <2>1
  <2>2. CASE \A k \in P : k <= b - n
    <3>1. CASE b - n \in P
      BY <2>2, <3>1
    <3>2. CASE b - n \notin P
      <4>1. \A k \in P : k <= b - (n + 1)
        BY <2>2, <3>2
      <4> QED BY <4>1
    <3> QED BY <3>1, <3>2
  <2> QED BY <1>2, <2>1, <2>2
<1> HIDE DEF V
<1>3. b \in V
  BY <1>1, <1>2, FromZero
<1>4. ASSUME \A k \in P : k <= b - b PROVE FALSE
  <2>1. PICK k \in P : TRUE
    OBVIOUS
  <2>2. k \in 1..b /\ k <= b - b
    BY <1>4
  <2> QED BY <2>2
<1> QED BY <1>3, <1>4 DEF V

\* A declaration goes to the end of the environment, unless its name is taken.
Declares(st, d, e, n, t, how) ==
    /\ StateOK(d)
    /\ e \in Constant /\ e.name = st.mods \o n /\ e.t = t /\ e.how = how
    /\ ~d.err => /\ d = [st EXCEPT !.env = Append(st.env, e)]
                 /\ n # None => \A i \in DOMAIN st.env : st.env[i].name # e.name

\* What declaring does, or the error it is.
LEMMA DeclareIs ==
    ASSUME NEW st, StateOK(st), ~st.err, NEW n \in Path, NEW t \in Wording, NEW how \in {"axiom", "def", "proof"},
           NEW rests \in SUBSET Path
    PROVE  Declares(st, Declare(st, n, t, how, rests), Entry(st, n, t, how, rests), n, t, how)
<1> DEFINE d == Declare(st, n, t, how, rests)
           e == Entry(st, n, t, how, rests)
<1>1. st.mods \in Path /\ st.mods \o n \in Path /\ st.env \in Seq(Constant)
  BY ConcatProperties DEF StateOK, Path
<1>2. e \in Constant /\ e.name = st.mods \o n /\ e.t = t /\ e.how = how
  BY <1>1 DEF Entry, Constant
<1>3. d = Rejected(st) \/ /\ d = [st EXCEPT !.env = Append(st.env, e)]
                          /\ n # None => \A i \in DOMAIN st.env : st.env[i].name # e.name
  BY <1>2 DEF Declare
<1>4. StateOK(Rejected(st)) /\ Rejected(st).err
  BY DEF Rejected, StateOK
<1> HIDE DEF e
<1>5. StateOK([st EXCEPT !.env = Append(st.env, e)])
  <2>1. Append(st.env, e) \in Seq(Constant)
    BY <1>1, <1>2, Appending
  <2> QED BY <2>1 DEF StateOK
<1> HIDE DEF d
<1>6. StateOK(d)
  BY <1>3, <1>4, <1>5
<1>7. ~d.err => /\ d = [st EXCEPT !.env = Append(st.env, e)]
                /\ n # None => \A i \in DOMAIN st.env : st.env[i].name # e.name
  BY <1>3, <1>4
<1>8. Declares(st, d, e, n, t, how)
  BY <1>2, <1>6, <1>7 DEF Declares
<1> QED BY <1>8 DEF d, e

\* What it adds to the outline.
LEMMA DeclaredOutline ==
    ASSUME NEW st, StateOK(st), NEW e \in Constant
    PROVE  Outline([st EXCEPT !.env = Append(st.env, e)]) =
               Record(Append(Stated(st.env), <<e.name, e.t>>), Labels(st.proofs), st.mods, st.nested, st.ambient)
<1>1. Stated(Append(st.env, e)) = Append(Stated(st.env), <<e.name, e.t>>)
  BY StatedAppend DEF StateOK
<1> DEFINE d == [st EXCEPT !.env = Append(st.env, e)]
<1>2. /\ d.env = Append(st.env, e) /\ d.proofs = st.proofs /\ d.mods = st.mods
      /\ d.nested = st.nested /\ d.ambient = st.ambient
  BY DEF StateOK
<1> HIDE DEF d
<1>3. Stated(d.env) = Append(Stated(st.env), <<e.name, e.t>>)
  BY <1>1, <1>2
<1>4. Outline(d) = Record(Append(Stated(st.env), <<e.name, e.t>>), Labels(st.proofs), st.mods, st.nested, st.ambient)
  BY <1>2, <1>3, Zenon DEF Outline
<1> QED BY <1>4 DEF d

\* The proof under way is closed with its statement and its kind.
Closes(st, d, p, how) ==
    /\ StateOK(d) /\ p \in OpenProof
    /\ ~d.err => \E e \in Constant :
           /\ d = [st EXCEPT !.proofs = Front(st.proofs), !.env = Append(st.env, e)]
           /\ e.name = st.mods \o p.name /\ e.t = p.t /\ e.how = how
           /\ p.name # None => \A i \in DOMAIN st.env : st.env[i].name # e.name
           /\ Outline(d) = Record(Append(Stated(st.env), <<e.name, e.t>>), Front(Labels(st.proofs)), st.mods, st.nested,
                                  st.ambient)

\* What closing a proof does: it is taken off, and declared.
LEMMA CloseIs ==
    ASSUME NEW st, StateOK(st), Proving(st), ~st.err, NEW how \in {"axiom", "proof"}
    PROVE  Closes(st, Close(st, how), Proof(st), how)
<1> DEFINE d == Close(st, how)
           p == Proof(st)
           b == [st EXCEPT !.proofs = Front(st.proofs)]
           e == Entry(b, p.name, p.t, how, p.rests)
<1>0. PICK u \in Seq(OpenProof), q \in OpenProof : Behind(st, u, q)
  BY UnderWay
<1>1. Front(st.proofs) = u /\ p = q /\ Front(Labels(st.proofs)) = Labels(u)
  BY <1>0, Zenon DEF Behind
<1>2. StateOK(b) /\ ~b.err /\ b.mods = st.mods /\ b.env = st.env /\ b.proofs = u
  BY <1>1 DEF StateOK
<1>3. d = Declare(b, p.name, p.t, how, p.rests)
  BY DEF Close
<1>4. p \in OpenProof /\ p.name \in Path /\ p.t \in Wording /\ p.rests \in SUBSET Path
  BY <1>1 DEF OpenProof
<1> HIDE DEF p, d
<1>5. /\ StateOK(d)
      /\ e \in Constant /\ e.name = b.mods \o p.name /\ e.t = p.t /\ e.how = how
      /\ ~d.err => /\ d = [b EXCEPT !.env = Append(b.env, e)]
                   /\ p.name # None => \A i \in DOMAIN b.env : b.env[i].name # e.name
  <2> HIDE DEF b
  <2>1. how \in {"axiom", "def", "proof"}
    OBVIOUS
  <2>2. Declares(b, d, e, p.name, p.t, how)
    BY <1>2, <1>3, <1>4, <2>1, DeclareIs
  <2> QED BY <2>2 DEF Declares
<1> HIDE DEF e
<1>6. Labels(b.proofs) = Front(Labels(st.proofs)) /\ b.nested = st.nested /\ b.ambient = st.ambient
  BY <1>1, <1>2 DEF StateOK
<1>7. Outline([b EXCEPT !.env = Append(b.env, e)]) =
          Record(Append(Stated(b.env), <<e.name, e.t>>), Labels(b.proofs), b.mods, b.nested, b.ambient)
  <2> HIDE DEF b
  <2> QED BY <1>2, <1>5, DeclaredOutline
<1>8. [b EXCEPT !.env = Append(b.env, e)] = [st EXCEPT !.proofs = Front(st.proofs), !.env = Append(st.env, e)]
  BY DEF StateOK
<1>10. ASSUME ~d.err
       PROVE /\ d = [st EXCEPT !.proofs = Front(st.proofs), !.env = Append(st.env, e)]
             /\ e.name = st.mods \o p.name /\ e.t = p.t /\ e.how = how
             /\ p.name # None => \A i \in DOMAIN st.env : st.env[i].name # e.name
             /\ Outline(d) = Record(Append(Stated(st.env), <<e.name, e.t>>), Front(Labels(st.proofs)), st.mods, st.nested,
                                    st.ambient)
  <2> HIDE DEF b
  <2> QED BY <1>2, <1>5, <1>6, <1>7, <1>8, <1>10
<1>11. ~d.err => \E x \in Constant :
                      /\ d = [st EXCEPT !.proofs = Front(st.proofs), !.env = Append(st.env, x)]
                      /\ x.name = st.mods \o p.name /\ x.t = p.t /\ x.how = how
                      /\ p.name # None => \A i \in DOMAIN st.env : st.env[i].name # x.name
                      /\ Outline(d) = Record(Append(Stated(st.env), <<x.name, x.t>>), Front(Labels(st.proofs)), st.mods,
                                             st.nested, st.ambient)
  BY <1>5, <1>10
<1>12. Closes(st, d, p, how)
  BY <1>4, <1>5, <1>11 DEF Closes
<1> QED BY <1>12 DEF d, p

\* A proof that goes on is the same statement's.
LEMMA GoesOn ==
    ASSUME NEW st, StateOK(st), Proving(st), NEW q \in OpenProof, q.name = Proof(st).name, q.t = Proof(st).t
    PROVE  LET d == [st EXCEPT !.proofs = [st.proofs EXCEPT ![Len(st.proofs)] = q]]
           IN  StateOK(d) /\ Outline(d) = Outline(st) /\ Proving(d) /\ Proof(d) = q
<1>0. PICK u \in Seq(OpenProof), p \in OpenProof : Behind(st, u, p)
  BY UnderWay
<1>1. /\ Proof(st) = p /\ Labels(st.proofs) = Append(Labels(u), <<p.name, p.t>>)
      /\ [st.proofs EXCEPT ![Len(st.proofs)] = q] = Append(u, q)
  BY <1>0, Zenon DEF Behind
<1> DEFINE ps == [st.proofs EXCEPT ![Len(st.proofs)] = q]
           d == [st EXCEPT !.proofs = ps]
<1>2. ps = Append(u, q)
  BY <1>1
<1>3. ps \in Seq(OpenProof) /\ ps # <<>> /\ Last(ps) = q /\ Labels(ps) = Append(Labels(u), <<q.name, q.t>>)
  <2>1. Append(u, q) \in Seq(OpenProof) /\ Append(u, q) # <<>>
    BY Appending
  <2>2. Last(Append(u, q)) = q
    BY AppendLast
  <2>3. Labels(Append(u, q)) = Append(Labels(u), <<q.name, q.t>>)
    BY LabelsAppend
  <2> HIDE DEF ps
  <2> QED BY <1>2, <2>1, <2>2, <2>3
<1>4. Labels(ps) = Labels(st.proofs)
  BY <1>1, <1>3
<1> HIDE DEF ps
<1>5. StateOK(d) /\ d.proofs = ps /\ d.env = st.env /\ d.mods = st.mods /\ d.nested = st.nested /\ d.ambient = st.ambient
  BY <1>3 DEF StateOK
<1> HIDE DEF d
<1>6. Outline(d) = Outline(st)
  <2>1. Labels(d.proofs) = Labels(st.proofs)
    BY <1>4, <1>5
  <2> QED BY <1>5, <2>1, Zenon DEF Outline
<1>7. StateOK(d) /\ Outline(d) = Outline(st) /\ Proving(d) /\ Proof(d) = q
  BY <1>3, <1>5, <1>6 DEF Proving, Proof
<1> QED BY <1>7 DEF d, ps

\* Solving the goal changes the proof under way and nothing that is declared.
LEMMA SolveIs ==
    ASSUME NEW st, StateOK(st), Proving(st), ~st.err, NEW n \in Path
    PROVE  LET d == Solve(st, n)
           IN  StateOK(d) /\ (~d.err => Outline(d) = Outline(st) /\ Proving(d) /\ d.env = st.env)
<1> DEFINE d == Solve(st, n)
           rests == IF n = None THEN {} ELSE st.env[Newest(st, n)].rests
           p == Proof(st)
           q == [p EXCEPT !.solved = TRUE, !.rests = rests]
<1>1. StateOK(Rejected(st)) /\ Rejected(st).err
  BY DEF Rejected, StateOK
<1>2. CASE p.solved \/ (n # None /\ Declared(st, n) = {})
  BY <1>1, <1>2 DEF Solve
<1>3. CASE ~p.solved /\ (n # None => Declared(st, n) # {})
  <2>1. rests \in SUBSET Path
    <3>1. CASE n # None
      <4>1. /\ Len(st.env) \in Nat /\ DOMAIN st.env = 1..Len(st.env)
            /\ \A i \in DOMAIN st.env : st.env[i] \in Constant
        BY LenProperties, ElementOfSeq DEF StateOK
      <4>2. Declared(st, n) \in SUBSET (1..Len(st.env)) /\ Declared(st, n) # {}
        BY <1>3, <3>1, <4>1 DEF Declared
      <4>3. \E m \in Declared(st, n) : \A k \in Declared(st, n) : k <= m
        BY <4>1, <4>2, LastPlace
      <4>4. Newest(st, n) \in Declared(st, n)
        BY <4>3 DEF Newest
      <4>5. st.env[Newest(st, n)] \in Constant
        BY <4>1, <4>2, <4>4
      <4> QED BY <3>1, <4>5 DEF Constant
    <3> QED BY <3>1
  <2>2. p \in OpenProof /\ st.proofs[Len(st.proofs)] = p
    <3>1. PICK u \in Seq(OpenProof), x \in OpenProof : Behind(st, u, x)
      BY UnderWay
    <3> QED BY <3>1, Zenon DEF Behind
  <2> HIDE DEF rests, p
  <2>3. q \in OpenProof /\ q.name = p.name /\ q.t = p.t
    BY <2>1, <2>2 DEF OpenProof
  <2>4. d = [st EXCEPT !.proofs = [st.proofs EXCEPT ![Len(st.proofs)] = q]]
    <3>1. d = [st EXCEPT !.proofs[Len(st.proofs)].solved = TRUE, !.proofs[Len(st.proofs)].rests = rests]
      BY <1>3 DEF Solve, p, rests
    <3>2. st.proofs \in Seq(OpenProof) /\ Len(st.proofs) \in DOMAIN st.proofs
      <4>1. st.proofs \in Seq(OpenProof) /\ st.proofs # <<>>
        BY DEF StateOK, Proving
      <4> QED BY <4>1, EmptySeq, LenProperties
    <3> QED BY <2>2, <3>1, <3>2 DEF StateOK
  <2> HIDE DEF q, d
  <2>5. q \in OpenProof /\ q.name = Proof(st).name /\ q.t = Proof(st).t
    BY <2>3 DEF p
  <2>6. StateOK(d) /\ Outline(d) = Outline(st) /\ Proving(d)
    BY <2>4, <2>5, GoesOn
  <2>7. d.env = st.env
    BY <2>4 DEF StateOK
  <2> QED BY <2>6, <2>7 DEF d
<1> QED BY <1>2, <1>3 DEF p

\* Nothing stated is taken back or changed.
Grows(st, d) == d.env = st.env \/ \E e \in Constant : d.env = Append(st.env, e)
Goes(st, d, c) == StateOK(d) /\ (~d.err => Outline(d) = Drawn(Outline(st), c) /\ Grows(st, d))

\* An error declares nothing.
LEMMA RejectedGoes == ASSUME NEW st, StateOK(st), NEW c PROVE Goes(st, Rejected(st), c)
<1>1. StateOK(Rejected(st)) /\ Rejected(st).err
  BY DEF Rejected, StateOK
<1> QED BY <1>1 DEF Goes

\* Tactics and commands that leave the declarations alone.
Silent == {"tac", "proof", "exact", "admit", "say", "require", "directive", "printing", "query", "locate", "print", "wrap",
           "glued"}

\* They leave the outline as it was.
LEMMA SilentGoes ==
    ASSUME NEW st, StateOK(st), ~st.err, NEW c \in Plain, c.k \in Silent
    PROVE  Goes(st, Sentence(st, c), c) /\ Drawn(Outline(st), c) = Outline(st)
<1>1. Drawn(Outline(st), c) = Outline(st)
  BY DEF Drawn, Silent
<1>2. Goes(st, Rejected(st), c)
  BY RejectedGoes
<1>3. Goes(st, st, c)
  BY <1>1 DEF Goes, Grows
<1>4. ASSUME NEW lines PROVE Goes(st, Show(st, lines), c)
  <2> DEFINE d == Show(st, lines)
  <2>1. /\ StateOK(d) /\ d.env = st.env /\ d.proofs = st.proofs /\ d.mods = st.mods /\ d.nested = st.nested
        /\ d.ambient = st.ambient
    BY DEF Show, StateOK
  <2> HIDE DEF d
  <2>2. Outline(d) = Outline(st)
    BY <2>1 DEF Outline
  <2> QED BY <1>1, <2>1, <2>2 DEF Goes, Grows, d
<1>5. CASE c.k \in {"require", "directive", "printing", "query", "wrap"}
  <2>1. Sentence(st, c) = st
    BY <1>5 DEF Sentence
  <2> QED BY <1>1, <1>3, <2>1
<1>6. CASE c.k \in {"tac", "proof"}
  <2>1. Sentence(st, c) \in {st, Rejected(st)}
    BY <1>6 DEF Sentence, InProof
  <2> QED BY <1>1, <1>2, <1>3, <2>1
<1>7. CASE c.k = "exact"
  <2>1. Sentence(st, c) = IF Proving(st) THEN Solve(st, c.n) ELSE Rejected(st)
    BY <1>7 DEF Sentence, InProof
  <2>2. ASSUME Proving(st) PROVE Goes(st, Solve(st, c.n), c)
    <3>1. c.n \in Path
      BY DEF Plain
    <3>2. StateOK(Solve(st, c.n)) /\ (~Solve(st, c.n).err => Outline(Solve(st, c.n)) = Outline(st) /\ Solve(st, c.n).env = st.env)
      BY <2>2, <3>1, SolveIs
    <3> QED BY <1>1, <3>2 DEF Goes, Grows
  <2> QED BY <1>1, <1>2, <2>1, <2>2
<1>8. CASE c.k = "admit"
  <2>1. Sentence(st, c) = IF Proving(st) THEN [st EXCEPT !.proofs[Len(st.proofs)].solved = TRUE,
                                                         !.proofs[Len(st.proofs)].admits = TRUE] ELSE Rejected(st)
    BY <1>8 DEF Sentence, InProof
  <2>2. ASSUME Proving(st)
        PROVE  Goes(st, [st EXCEPT !.proofs[Len(st.proofs)].solved = TRUE, !.proofs[Len(st.proofs)].admits = TRUE], c)
    <3> DEFINE p == Proof(st)
               q == [p EXCEPT !.solved = TRUE, !.admits = TRUE]
               d == [st EXCEPT !.proofs[Len(st.proofs)].solved = TRUE, !.proofs[Len(st.proofs)].admits = TRUE]
    <3>1. p \in OpenProof /\ st.proofs[Len(st.proofs)] = p
      <4>1. PICK u \in Seq(OpenProof), x \in OpenProof : Behind(st, u, x)
        BY <2>2, UnderWay
      <4> QED BY <4>1, Zenon DEF Behind
    <3>2. st.proofs \in Seq(OpenProof) /\ Len(st.proofs) \in DOMAIN st.proofs
      <4>1. st.proofs \in Seq(OpenProof) /\ st.proofs # <<>>
        BY <2>2 DEF StateOK, Proving
      <4> QED BY <4>1, EmptySeq, LenProperties
    <3> HIDE DEF p
    <3>3. q \in OpenProof /\ q.name = p.name /\ q.t = p.t
      BY <3>1 DEF OpenProof
    <3>4. d = [st EXCEPT !.proofs = [st.proofs EXCEPT ![Len(st.proofs)] = q]]
      BY <3>1, <3>2 DEF StateOK
    <3> HIDE DEF q, d
    <3>5. q \in OpenProof /\ q.name = Proof(st).name /\ q.t = Proof(st).t
      BY <3>3 DEF p
    <3>6. StateOK(d) /\ Outline(d) = Outline(st)
      BY <2>2, <3>4, <3>5, GoesOn
    <3>7. d.env = st.env
      BY <3>4 DEF StateOK
    <3>8. Goes(st, d, c)
      BY <1>1, <3>6, <3>7 DEF Goes, Grows
    <3> QED BY <3>8 DEF d
  <2> QED BY <1>1, <1>2, <2>1, <2>2
<1>9. CASE c.k \in {"say", "locate"}
  <2>1. Sentence(st, c) = Rejected(st) \/ \E lines : Sentence(st, c) = Show(st, lines)
    BY <1>9 DEF Sentence, InProof
  <2> QED BY <1>1, <1>2, <1>4, <2>1
<1>10. CASE c.k = "print"
  <2>1. Sentence(st, c) = Rejected(st) \/ \E lines : Sentence(st, c) = Show(st, lines)
    BY <1>10 DEF Sentence, PrintAssumptions
  <2> QED BY <1>1, <1>2, <1>4, <2>1
<1>11. CASE c.k = "glued"
  <2>1. Sentence(st, c) = Rejected(st)
    BY <1>11 DEF Sentence
  <2> QED BY <1>1, <1>2, <2>1
<1> QED BY <1>5, <1>6, <1>7, <1>8, <1>9, <1>10, <1>11 DEF Silent

\* A proof is begun.
LEMMA OpensGoes ==
    ASSUME NEW st, StateOK(st), ~st.err, NEW c \in Plain, c.k \in {"lemma", "goal"}
    PROVE  /\ Goes(st, Sentence(st, c), c)
           /\ ~Sentence(st, c).err => /\ Proving(Sentence(st, c)) /\ Proof(Sentence(st, c)).name = c.n /\ Sentence(st, c).env = st.env
                                      /\ (~Proving(st) => Sentence(st, c).proofs = <<Proof(Sentence(st, c))>>)
<1> DEFINE p == [name |-> c.n, t |-> c.t, solved |-> FALSE, admits |-> FALSE, rests |-> {}]
           d == [st EXCEPT !.proofs = Append(st.proofs, p)]
<1>1. Sentence(st, c) = Rejected(st) \/ Sentence(st, c) = d
  BY DEF Sentence, Open
<1>2. p \in OpenProof /\ p.name = c.n /\ p.t = c.t
  BY DEF Plain, OpenProof
<1> HIDE DEF p
<1>3. /\ st.proofs \in Seq(OpenProof) /\ Append(st.proofs, p) \in Seq(OpenProof) /\ Append(st.proofs, p) # <<>>
      /\ Last(Append(st.proofs, p)) = p
  BY <1>2, Appending, AppendLast DEF StateOK
<1>4. Labels(Append(st.proofs, p)) = Append(Labels(st.proofs), <<c.n, c.t>>)
  BY <1>2, <1>3, LabelsAppend
<1>5. /\ StateOK(d) /\ d.env = st.env /\ d.proofs = Append(st.proofs, p) /\ d.mods = st.mods /\ d.nested = st.nested
      /\ d.ambient = st.ambient
  BY <1>3 DEF StateOK
<1> HIDE DEF d
<1>6. Outline(d) = Record(Stated(st.env), Append(Labels(st.proofs), <<c.n, c.t>>), st.mods, st.nested, st.ambient)
  <2>1. Labels(d.proofs) = Append(Labels(st.proofs), <<c.n, c.t>>)
    BY <1>4, <1>5
  <2> QED BY <1>5, <2>1, Zenon DEF Outline
<1>7. Drawn(Outline(st), c) = Record(Stated(st.env), Append(Labels(st.proofs), <<c.n, c.t>>), st.mods, st.nested, st.ambient)
  BY OutlineFields DEF Drawn
<1>8. Goes(st, d, c) /\ Proving(d) /\ Proof(d) = p
  BY <1>3, <1>5, <1>6, <1>7 DEF Goes, Grows, Proving, Proof
<1>9. ~Proving(st) => d.proofs = <<p>>
  <2>1. st.proofs = <<>> => Append(st.proofs, p) = <<p>>
    OBVIOUS
  <2> QED BY <1>5, <2>1 DEF Proving
<1>10. Goes(st, Rejected(st), c) /\ Rejected(st).err
  BY RejectedGoes DEF Rejected, StateOK
<1> QED BY <1>1, <1>2, <1>5, <1>8, <1>9, <1>10

\* A proof is ended, and its statement declared; and what that one declaration is.
EndsProof(st, d, how) ==
    \E e \in Constant :
        /\ d.proofs = Front(st.proofs) /\ d.env = Append(st.env, e)
        /\ e.name = st.mods \o Proof(st).name /\ e.t = Proof(st).t /\ e.how = how
        /\ Proof(st).name # None => \A i \in DOMAIN st.env : st.env[i].name # e.name

\* Closing the proof under way declares its statement.
LEMMA ClosesGoes ==
    ASSUME NEW st, StateOK(st), ~st.err, Proving(st), NEW c \in Plain, c.k \in {"qed", "defined", "admitted", "term"},
           NEW how \in {"axiom", "proof"}
    PROVE  /\ Goes(st, Close(st, how), c)
           /\ ~Close(st, how).err => EndsProof(st, Close(st, how), how)
<1> DEFINE d == Close(st, how)
           p == Proof(st)
<1>1. Closes(st, d, p, how)
  BY CloseIs
<1>2. PICK u \in Seq(OpenProof), q \in OpenProof : Behind(st, u, q)
  BY UnderWay
<1>3. Last(Labels(st.proofs)) = <<p.name, p.t>>
  BY <1>2, Zenon DEF Behind
<1> HIDE DEF d, p
<1>4. ASSUME ~d.err PROVE Outline(d) = Drawn(Outline(st), c) /\ Grows(st, d) /\ EndsProof(st, d, how)
  <2>1. PICK e \in Constant :
             /\ d = [st EXCEPT !.proofs = Front(st.proofs), !.env = Append(st.env, e)]
             /\ e.name = st.mods \o p.name /\ e.t = p.t /\ e.how = how
             /\ p.name # None => \A i \in DOMAIN st.env : st.env[i].name # e.name
             /\ Outline(d) = Record(Append(Stated(st.env), <<e.name, e.t>>), Front(Labels(st.proofs)), st.mods, st.nested,
                                    st.ambient)
    BY <1>1, <1>4 DEF Closes
  <2>2. d.env = Append(st.env, e) /\ d.proofs = Front(st.proofs)
    BY <2>1 DEF StateOK
  <2>3. Outline(st).mods = st.mods /\ Outline(st).open = Labels(st.proofs)
    BY OutlineFields
  <2>4. <<p.name, p.t>>[1] = p.name /\ <<p.name, p.t>>[2] = p.t
    OBVIOUS
  <2>5. Outline(st).mods \o Last(Outline(st).open)[1] = e.name /\ Last(Outline(st).open)[2] = e.t
    BY <1>3, <2>1, <2>3, <2>4
  <2>6. Drawn(Outline(st), c) =
            Record(Append(Stated(st.env), <<e.name, e.t>>), Front(Labels(st.proofs)), st.mods, st.nested, st.ambient)
    BY <2>5, OutlineFields DEF Drawn
  <2>7. Outline(d) = Drawn(Outline(st), c)
    BY <2>1, <2>6
  <2>8. EndsProof(st, d, how)
    BY <2>1, <2>2 DEF EndsProof, p
  <2> QED BY <2>2, <2>7, <2>8 DEF Grows
<1>5. Goes(st, d, c) /\ (~d.err => EndsProof(st, d, how))
  BY <1>1, <1>4 DEF Goes, Closes
<1> QED BY <1>5 DEF d

\* The sentences that end a proof.
LEMMA EndersGo ==
    ASSUME NEW st, StateOK(st), ~st.err, NEW c \in Plain, c.k \in {"qed", "defined", "admitted", "abort", "term"}
    PROVE  /\ Goes(st, Sentence(st, c), c)
           /\ ~Sentence(st, c).err /\ c.k = "qed" => Proving(st) /\ EndsProof(st, Sentence(st, c), "proof")
           /\ ~Sentence(st, c).err /\ c.k = "admitted" => Proving(st) /\ EndsProof(st, Sentence(st, c), "axiom")
<1> DEFINE d == Sentence(st, c)
<1>1. Goes(st, Rejected(st), c) /\ Rejected(st).err
  BY RejectedGoes DEF Rejected, StateOK
<1>2. CASE ~Proving(st)
  <2>1. d = Rejected(st)
    BY <1>2 DEF Sentence
  <2> HIDE DEF d
  <2>2. Goes(st, d, c) /\ d.err
    BY <1>1, <2>1
  <2> QED BY <2>2 DEF d
<1>3. CASE Proving(st) /\ c.k \in {"qed", "defined"}
  <2>1. d = Close(st, "proof") \/ d = Rejected(st)
    BY <1>3 DEF Sentence, InProof
  <2>2. Goes(st, Close(st, "proof"), c) /\ (~Close(st, "proof").err => EndsProof(st, Close(st, "proof"), "proof"))
    BY <1>3, ClosesGoes
  <2> HIDE DEF d
  <2>3. Goes(st, d, c) /\ (~d.err => EndsProof(st, d, "proof"))
    BY <1>1, <2>1, <2>2
  <2> QED BY <1>3, <2>3 DEF d
<1>4. CASE Proving(st) /\ c.k = "admitted"
  <2>1. d = Close(st, "axiom")
    BY <1>4 DEF Sentence, InProof
  <2>2. Goes(st, Close(st, "axiom"), c) /\ (~Close(st, "axiom").err => EndsProof(st, Close(st, "axiom"), "axiom"))
    BY <1>4, ClosesGoes
  <2> HIDE DEF d
  <2>3. Goes(st, d, c) /\ (~d.err => EndsProof(st, d, "axiom"))
    BY <2>1, <2>2
  <2> QED BY <1>4, <2>3 DEF d
<1>5. CASE Proving(st) /\ c.k = "term"
  <2> DEFINE solved == Solve(st, c.n)
  <2>1. d = IF solved.err THEN solved ELSE Close(solved, "proof")
    BY <1>5 DEF Sentence, InProof
  <2>2. StateOK(solved) /\ (~solved.err => Outline(solved) = Outline(st) /\ Proving(solved) /\ solved.env = st.env)
    <3>1. c.n \in Path
      BY DEF Plain
    <3> QED BY <1>5, <3>1, SolveIs
  <2> HIDE DEF solved
  <2>3. ~solved.err => Goes(solved, Close(solved, "proof"), c)
    BY <1>5, <2>2, ClosesGoes
  <2> HIDE DEF d
  <2>4. Goes(st, d, c)
    BY <2>1, <2>2, <2>3 DEF Goes, Grows
  <2> QED BY <1>5, <2>4 DEF d
<1>6. CASE Proving(st) /\ c.k = "abort"
  <2> DEFINE b == [st EXCEPT !.proofs = Front(st.proofs)]
  <2>1. d = b
    BY <1>6 DEF Sentence, InProof
  <2>2. PICK u \in Seq(OpenProof), q \in OpenProof : Behind(st, u, q)
    BY <1>6, UnderWay
  <2>3. Front(st.proofs) = u /\ Front(Labels(st.proofs)) = Labels(u)
    BY <2>2, Zenon DEF Behind
  <2>4. /\ StateOK(b) /\ b.env = st.env /\ b.proofs = u /\ b.mods = st.mods /\ b.nested = st.nested
        /\ b.ambient = st.ambient
    BY <2>3 DEF StateOK
  <2> HIDE DEF b
  <2>5. Outline(b) = Record(Stated(st.env), Labels(u), st.mods, st.nested, st.ambient)
    BY <2>4 DEF Outline
  <2>6. Drawn(Outline(st), c) = Record(Stated(st.env), Labels(u), st.mods, st.nested, st.ambient)
    BY <1>6, <2>3, OutlineFields DEF Drawn
  <2>7. Goes(st, b, c)
    BY <2>4, <2>5, <2>6 DEF Goes, Grows
  <2> QED BY <1>6, <2>1, <2>7
<1> QED BY <1>2, <1>3, <1>4, <1>5, <1>6

\* Declarations without a proof.
LEMMA DeclarationsGo ==
    ASSUME NEW st, StateOK(st), ~st.err, NEW c \in Plain, c.k \in {"axiom", "def"}
    PROVE  Goes(st, Sentence(st, c), c)
<1> DEFINE d == Declare(st, c.n, c.t, c.k, {})
           e == Entry(st, c.n, c.t, c.k, {})
<1>1. Sentence(st, c) = d
  BY DEF Sentence
<1>2. Declares(st, d, e, c.n, c.t, c.k)
  <2>1. c.n \in Path /\ c.t \in Wording /\ c.k \in {"axiom", "def", "proof"} /\ {} \in SUBSET Path
    BY DEF Plain
  <2> QED BY <2>1, DeclareIs
<1> HIDE DEF d, e
<1>3. StateOK(d) /\ e \in Constant /\ e.name = st.mods \o c.n /\ e.t = c.t
  BY <1>2 DEF Declares
<1>4. ASSUME ~d.err PROVE Outline(d) = Drawn(Outline(st), c) /\ Grows(st, d)
  <2>1. d = [st EXCEPT !.env = Append(st.env, e)]
    BY <1>2, <1>4 DEF Declares
  <2>2. d.env = Append(st.env, e)
    BY <2>1 DEF StateOK
  <2>3. Outline(d) = Record(Append(Stated(st.env), <<e.name, e.t>>), Labels(st.proofs), st.mods, st.nested, st.ambient)
    BY <1>3, <2>1, DeclaredOutline
  <2>4. Drawn(Outline(st), c) =
            Record(Append(Stated(st.env), <<st.mods \o c.n, c.t>>), Labels(st.proofs), st.mods, st.nested, st.ambient)
    BY OutlineFields DEF Drawn
  <2> QED BY <1>3, <2>2, <2>3, <2>4 DEF Grows
<1> QED BY <1>1, <1>3, <1>4 DEF Goes

\* Settings and modules.
LEMMA SettingsGo ==
    ASSUME NEW st, StateOK(st), ~st.err, NEW c \in Plain, c.k \in {"notation", "hint", "hatch", "module", "end"}
    PROVE  Goes(st, Sentence(st, c), c)
<1> DEFINE d == Sentence(st, c)
           o == Outline(st)
           With(x, y, z) == [st EXCEPT !.ambient = x, !.nested = y, !.mods = z]
<1>1. Goes(st, Rejected(st), c)
  BY RejectedGoes
<1>2. ASSUME NEW x \in Nat, NEW y \in BOOLEAN, NEW z \in Path
      PROVE  /\ StateOK(With(x, y, z)) /\ With(x, y, z).env = st.env
             /\ Outline(With(x, y, z)) = Record(Stated(st.env), Labels(st.proofs), z, y, x)
  <2> DEFINE w == With(x, y, z)
  <2>1. /\ StateOK(w) /\ w.env = st.env /\ w.proofs = st.proofs /\ w.mods = z /\ w.nested = y /\ w.ambient = x
    BY DEF StateOK
  <2> HIDE DEF w
  <2>2. Outline(w) = Record(Stated(st.env), Labels(st.proofs), z, y, x)
    BY <2>1 DEF Outline
  <2> QED BY <2>1, <2>2 DEF w
<1>3. st.ambient \in Nat /\ st.ambient + 1 \in Nat /\ st.nested \in BOOLEAN /\ TRUE \in BOOLEAN /\ st.mods \in Path
  BY DEF StateOK
<1>4. CASE c.k \in {"notation", "hint"}
  <2>1. d = With(st.ambient + 1, st.nested, st.mods)
    BY <1>4 DEF Sentence, StateOK
  <2>2. Drawn(o, c) = Record(Stated(st.env), Labels(st.proofs), st.mods, st.nested, st.ambient + 1)
    BY <1>4, OutlineFields DEF Drawn
  <2> HIDE DEF d, With, o
  <2> QED BY <1>2, <1>3, <2>1, <2>2 DEF Goes, Grows, d, o
<1>5. CASE c.k = "hatch"
  <2>1. d = With(st.ambient + 1, TRUE, st.mods)
    BY <1>5 DEF Sentence, StateOK
  <2>2. Drawn(o, c) = Record(Stated(st.env), Labels(st.proofs), st.mods, TRUE, st.ambient + 1)
    BY <1>5, OutlineFields DEF Drawn
  <2> HIDE DEF d, With, o
  <2>3. /\ StateOK(d) /\ d.env = st.env
        /\ Outline(d) = Record(Stated(st.env), Labels(st.proofs), st.mods, TRUE, st.ambient + 1)
    BY <1>2, <1>3, <2>1
  <2>4. Goes(st, d, c)
    BY <2>2, <2>3 DEF Goes, Grows, o
  <2> QED BY <2>4 DEF d
<1>6. CASE c.k = "module"
  <2>1. d = Rejected(st) \/ d = With(st.ambient, st.nested, st.mods \o c.n)
    BY <1>6 DEF Sentence, StateOK
  <2>2. Drawn(o, c) = Record(Stated(st.env), Labels(st.proofs), st.mods \o c.n, st.nested, st.ambient)
    BY <1>6, OutlineFields DEF Drawn
  <2>3. st.mods \o c.n \in Path
    BY <1>3, ConcatProperties DEF Plain, Path
  <2> HIDE DEF d, With, o
  <2>4. d = Rejected(st) => Goes(st, d, c)
    BY <1>1
  <2>5. ASSUME d = With(st.ambient, st.nested, st.mods \o c.n) PROVE Goes(st, d, c)
    BY <1>2, <1>3, <2>2, <2>3, <2>5 DEF Goes, Grows, o
  <2> QED BY <2>1, <2>4, <2>5 DEF d
<1>7. CASE c.k = "end"
  <2>1. d = Rejected(st) \/ (st.mods # <<>> /\ d = With(st.ambient, st.nested, Front(st.mods)))
    BY <1>7 DEF Sentence, StateOK
  <2>2. Drawn(o, c) = Record(Stated(st.env), Labels(st.proofs), Front(st.mods), st.nested, st.ambient)
    BY <1>7, OutlineFields DEF Drawn
  <2>3. st.mods # <<>> => Front(st.mods) \in Path
    BY <1>3, LastIs DEF Path
  <2> HIDE DEF d, With, o
  <2>4. d = Rejected(st) => Goes(st, d, c)
    BY <1>1
  <2>5. ASSUME st.mods # <<>>, d = With(st.ambient, st.nested, Front(st.mods)) PROVE Goes(st, d, c)
    BY <1>2, <1>3, <2>2, <2>3, <2>5 DEF Goes, Grows, o
  <2> QED BY <2>1, <2>4, <2>5 DEF d
<1> QED BY <1>4, <1>5, <1>6, <1>7

\* Every sentence adds to the outline what is its own.
LEMMA SentenceGoes ==
    ASSUME NEW st, StateOK(st), ~st.err, NEW c \in Plain
    PROVE  Goes(st, Sentence(st, c), c)
<1>1. CASE c.k \in {"open", "glued", "comment"}
  <2>1. Sentence(st, c) = Rejected(st)
    BY <1>1 DEF Sentence
  <2> QED BY <2>1, RejectedGoes
<1>2. \/ c.k \in Silent
      \/ c.k \in {"lemma", "goal"}
      \/ c.k \in {"qed", "defined", "admitted", "abort", "term"}
      \/ c.k \in {"axiom", "def"}
      \/ c.k \in {"notation", "hint", "hatch", "module", "end"}
      \/ c.k \in {"open", "glued", "comment"}
  BY DEF Plain, Kind, Silent
<1> QED BY <1>1, <1>2, SilentGoes, OpensGoes, EndersGo, DeclarationsGo, SettingsGo

-----------------------------------------------------------------------------
(* What a text does to a compilation *)

\* A sentence of a text that compiles: Rocq was not stuck before it, and it does what is its own.
LEMMA StepGoes ==
    ASSUME NEW st, StateOK(st), NEW s \in Line
    PROVE  /\ StateOK(Step(st, s))
           /\ ~Step(st, s).err => ~st.err /\ Step(st, s) = Sentence(st, Ran(s)) /\ Goes(st, Sentence(st, Ran(s)), Ran(s))
<1>1. CASE st.err
  BY <1>1 DEF Step
<1>2. CASE ~st.err
  <2>1. Step(st, s) = Sentence(st, Ran(s))
    BY <1>2 DEF Step, Ran
  <2>2. Goes(st, Sentence(st, Ran(s)), Ran(s))
    BY <1>2, RanIs, SentenceGoes
  <2> QED BY <1>2, <2>1, <2>2 DEF Goes
<1> QED BY <1>1, <1>2

\* Compiling a text keeps the state well formed.
LEMMA CompileOK ==
    ASSUME NEW st, StateOK(st), NEW text \in Seq(Line)
    PROVE  StateOK(Compile(st, text))
<1> DEFINE U == {s \in Seq(Line) : StateOK(Compile(st, s))}
<1>1. <<>> \in U
  BY CompileMore, EmptySeq
<1>2. ASSUME NEW s \in Seq(Line), NEW e \in Line, s \in U PROVE Append(s, e) \in U
  <2>1. Compile(st, Append(s, e)) = Step(Compile(st, s), e)
    BY CompileMore
  <2>2. StateOK(Step(Compile(st, s), e))
    BY <1>2, StepGoes
  <2> QED BY <2>1, <2>2, LinesAppended
<1> HIDE DEF U
<1>3. Seq(Line) \subseteq U
  BY <1>1, <1>2, FromEmpty
<1> QED BY <1>3 DEF U

\* A text that compiles does so sentence by sentence.
LEMMA NoErrorBefore ==
    ASSUME NEW st, StateOK(st), NEW s \in Seq(Line), NEW e \in Line, ~Compile(st, Append(s, e)).err
    PROVE  /\ StateOK(Compile(st, s)) /\ ~Compile(st, s).err
           /\ Compile(st, Append(s, e)) = Sentence(Compile(st, s), Ran(e))
           /\ Goes(Compile(st, s), Sentence(Compile(st, s), Ran(e)), Ran(e))
<1>1. StateOK(Compile(st, s))
  BY CompileOK
<1>2. Compile(st, Append(s, e)) = Step(Compile(st, s), e)
  BY CompileMore
<1> QED BY <1>1, <1>2, StepGoes

\* The declarations there are stay what and where they are.
Keeps(st, d) == Len(st.env) <= Len(d.env) /\ \A i \in 1..Len(st.env) : d.env[i] = st.env[i]

\* Whatever the text, if it compiles.
LEMMA TextKeeps ==
    ASSUME NEW st, StateOK(st), NEW text \in Seq(Line), ~Compile(st, text).err
    PROVE  Keeps(st, Compile(st, text))
<1> DEFINE U == {s \in Seq(Line) : ~Compile(st, s).err => Keeps(st, Compile(st, s))}
<1>0. st.env \in Seq(Constant) /\ Len(st.env) \in Nat
  BY LenProperties DEF StateOK
<1>1. <<>> \in U
  BY <1>0, CompileMore, EmptySeq DEF Keeps
<1>2. ASSUME NEW s \in Seq(Line), NEW e \in Line, s \in U, ~Compile(st, Append(s, e)).err
      PROVE  Keeps(st, Compile(st, Append(s, e)))
  <2> DEFINE m == Compile(st, s)
             d == Compile(st, Append(s, e))
  <2>1. StateOK(m) /\ ~m.err /\ d = Sentence(m, Ran(e)) /\ Goes(m, Sentence(m, Ran(e)), Ran(e))
    BY <1>2, NoErrorBefore
  <2>2. Keeps(st, m)
    BY <1>2, <2>1
  <2>3. Grows(m, d)
    BY <1>2, <2>1 DEF Goes
  <2> HIDE DEF m, d
  <2>4. m.env \in Seq(Constant) /\ Len(m.env) \in Nat
    BY <2>1, LenProperties DEF StateOK
  <2>5. ASSUME NEW x \in Constant, d.env = Append(m.env, x)
        PROVE  Len(d.env) = Len(m.env) + 1 /\ \A i \in 1..Len(m.env) : d.env[i] = m.env[i]
    BY <2>4, <2>5, Appending
  <2>6. Len(m.env) <= Len(d.env) /\ \A i \in 1..Len(m.env) : d.env[i] = m.env[i]
    BY <2>3, <2>4, <2>5 DEF Grows
  <2>7. Len(st.env) <= Len(m.env) /\ \A i \in 1..Len(st.env) : m.env[i] = st.env[i]
    BY <2>2 DEF Keeps
  <2>8. Len(d.env) \in Nat
    BY <2>3, <2>4, <2>5 DEF Grows
  <2>9. \A i \in 1..Len(st.env) : i \in 1..Len(m.env)
    BY <1>0, <2>4, <2>7
  <2>10. Len(st.env) <= Len(d.env)
    BY <1>0, <2>4, <2>6, <2>7, <2>8
  <2> QED BY <2>6, <2>7, <2>9, <2>10 DEF Keeps, d
<1>3. \A s \in Seq(Line), e \in Line : s \in U => Append(s, e) \in U
  BY <1>2, LinesAppended
<1> HIDE DEF U
<1>4. Seq(Line) \subseteq U
  BY <1>1, <1>3, FromEmpty
<1> QED BY <1>4 DEF U

\* A text of tactics and the like changes nothing that has been stated or is open.
LEMMA SilentText ==
    ASSUME NEW st, StateOK(st), NEW T \in SUBSET Line, \A s \in T : Ran(s).k \in Silent,
           NEW text \in Seq(T), ~Compile(st, text).err
    PROVE  Outline(Compile(st, text)) = Outline(st) /\ Compile(st, text).env = st.env
<1> DEFINE U == {s \in Seq(T) : /\ s \in Seq(Line)
                                /\ ~Compile(st, s).err => Outline(Compile(st, s)) = Outline(st) /\ Compile(st, s).env = st.env}
<1>1. <<>> \in U
  BY CompileMore, EmptySeq
<1>2. ASSUME NEW s \in Seq(T), NEW e \in T, s \in U, ~Compile(st, Append(s, e)).err
      PROVE  Outline(Compile(st, Append(s, e))) = Outline(st) /\ Compile(st, Append(s, e)).env = st.env
  <2> DEFINE m == Compile(st, s)
             d == Compile(st, Append(s, e))
  <2>1. s \in Seq(Line) /\ e \in Line
    BY <1>2
  <2>2. StateOK(m) /\ ~m.err /\ d = Sentence(m, Ran(e)) /\ Goes(m, Sentence(m, Ran(e)), Ran(e))
    BY <1>2, <2>1, NoErrorBefore
  <2>3. Outline(m) = Outline(st) /\ m.env = st.env
    BY <1>2, <2>2
  <2>4. Drawn(Outline(m), Ran(e)) = Outline(m)
    <3>1. Ran(e) \in Plain /\ Ran(e).k \in Silent
      BY <2>1, RanIs
    <3> HIDE DEF m
    <3> QED BY <2>2, <3>1, SilentGoes
  <2>5. Outline(d) = Outline(m) /\ Grows(m, d) /\ StateOK(d)
    BY <1>2, <2>2, <2>4 DEF Goes
  <2> HIDE DEF m, d
  <2>6. d.env = m.env
    <3>1. m.env \in Seq(Constant) /\ d.env \in Seq(Constant)
      BY <2>2, <2>5 DEF StateOK
    <3>2. Len(d.env) = Len(m.env)
      <4>1. Stated(d.env) = Stated(m.env)
        BY <2>5, OutlineFields
      <4> QED BY <3>1, <4>1, StatedIs
    <3>3. ASSUME NEW x \in Constant, d.env = Append(m.env, x) PROVE Len(d.env) = Len(m.env) + 1 /\ Len(m.env) \in Nat
      BY <3>1, <3>3, Appending
    <3>4. \A x \in Constant : d.env # Append(m.env, x)
      BY <3>2, <3>3
    <3> QED BY <2>5, <3>4 DEF Grows
  <2> QED BY <2>3, <2>5, <2>6 DEF d
<1>3. ASSUME NEW s \in Seq(T), NEW e \in T, s \in U PROVE Append(s, e) \in U
  <2>1. Append(s, e) \in Seq(T)
    BY Appending
  <2>2. s \in Seq(Line) /\ e \in Line
    BY <1>3
  <2>3. Append(s, e) \in Seq(Line)
    BY <2>2, LinesAppended
  <2> QED BY <1>2, <1>3, <2>1, <2>3
<1> HIDE DEF U
<1>4. Seq(T) \subseteq U
  BY <1>1, <1>3, FromEmpty
<1> QED BY <1>4 DEF U

\* Two compilations that differ in what was stated before: they stay so, whatever comes next.
Prefixed(p, o) == Record(p \o o.stated, o.open, o.mods, o.nested, o.ambient)
Alike(st, su, p, q) == \E o \in OutlineType : Outline(st) = Prefixed(p, o) /\ Outline(su) = Prefixed(q, o)

\* What a sentence ends is there to be ended.
LEMMA EndsWhatIsThere ==
    ASSUME NEW st, StateOK(st), ~st.err, NEW c \in Plain, ~Sentence(st, c).err
    PROVE  /\ c.k \in {"qed", "defined", "admitted", "term", "abort"} => Outline(st).open # <<>>
           /\ c.k = "end" => Outline(st).mods # <<>>
<1>1. Rejected(st).err
  BY DEF Rejected, StateOK
<1>2. ASSUME c.k \in {"qed", "defined", "admitted", "term", "abort"} PROVE Outline(st).open # <<>>
  <2>1. Proving(st)
    BY <1>1, <1>2 DEF Sentence
  <2>2. st.proofs \in Seq(OpenProof) /\ st.proofs # <<>>
    BY <2>1 DEF StateOK, Proving
  <2>3. Len(Labels(st.proofs)) = Len(st.proofs) /\ Len(st.proofs) # 0
    BY <2>2, LabelsIs, EmptySeq
  <2>4. Len(<<>>) = 0
    BY EmptySeq
  <2>5. Labels(st.proofs) # <<>>
    BY <2>3, <2>4
  <2> QED BY <2>5, OutlineFields
<1>3. ASSUME c.k = "end" PROVE Outline(st).mods # <<>>
  <2>1. st.mods # <<>>
    BY <1>1, <1>3 DEF Sentence
  <2> QED BY <2>1, OutlineFields
<1> QED BY <1>2, <1>3

\* The outline of a well-formed state is one.
LEMMA OutlineIs == ASSUME NEW st, StateOK(st) PROVE Outline(st) \in OutlineType
<1>1. Stated(st.env) \in Seq(Label) /\ Labels(st.proofs) \in Seq(Label) /\ st.mods \in Path /\ st.nested \in BOOLEAN /\ st.ambient \in Nat
  BY StatedIs, LabelsIs DEF StateOK
<1> QED BY <1>1, Fields DEF Outline

\* What a sentence adds does not depend on what was stated before.
LEMMA DrawnPrefixed ==
    ASSUME NEW o \in OutlineType, NEW c \in Plain, NEW p \in Seq(Label),
           c.k \in {"qed", "defined", "admitted", "term", "abort"} => o.open # <<>>, c.k = "end" => o.mods # <<>>
    PROVE  Drawn(o, c) \in OutlineType /\ Drawn(Prefixed(p, o), c) = Prefixed(p, Drawn(o, c))
<1>1. /\ o.stated \in Seq(Label) /\ o.open \in Seq(Label) /\ o.mods \in Path /\ o.nested \in BOOLEAN /\ o.ambient \in Nat
  BY Fields
<1>2. c.n \in Path /\ c.t \in Wording /\ o.mods \o c.n \in Path
  BY <1>1, ConcatProperties DEF Plain, Path
<1> DEFINE w == Prefixed(p, o)
<1>3. w.stated = p \o o.stated /\ w.open = o.open /\ w.mods = o.mods /\ w.nested = o.nested /\ w.ambient = o.ambient
  BY DEF Prefixed, Record
<1> HIDE DEF w
<1> DEFINE Goal == Drawn(o, c) \in OutlineType /\ Drawn(w, c) = Prefixed(p, Drawn(o, c))
<1>4. ASSUME NEW s \in Seq(Label), NEW n \in Seq(Label), NEW m \in Path, NEW b \in BOOLEAN, NEW a \in Nat,
             Drawn(o, c) = Record(s, n, m, b, a), Drawn(w, c) = Record(p \o s, n, m, b, a)
      PROVE  Goal
  <2>1. Drawn(o, c) \in OutlineType
    <3>1. Record(s, n, m, b, a) \in OutlineType
      BY Fields
    <3> QED BY <1>4, <3>1
  <2>2. Prefixed(p, Record(s, n, m, b, a)) = Record(p \o s, n, m, b, a)
    BY DEF Prefixed, Record
  <2> QED BY <1>4, <2>1, <2>2
<1>5. ASSUME NEW x \in Label PROVE Append(o.stated, x) \in Seq(Label) /\ Append(p \o o.stated, x) = p \o Append(o.stated, x)
  <2>1. Append(o.stated, x) \in Seq(Label)
    BY <1>1, Appending
  <2>2. p \o Append(o.stated, x) = Append(p \o o.stated, x)
    BY <1>1, AppendJoined
  <2> QED BY <2>1, <2>2
<1>6. ASSUME c.k \in {"lemma", "goal"}
      PROVE  Goal
  <2>1. Append(o.open, <<c.n, c.t>>) \in Seq(Label)
    <3>1. <<c.n, c.t>> \in Label
      BY <1>2 DEF Label
    <3> QED BY <1>1, <3>1, Appending
  <2>2. /\ Drawn(o, c) = Record(o.stated, Append(o.open, <<c.n, c.t>>), o.mods, o.nested, o.ambient)
        /\ Drawn(w, c) = Record(p \o o.stated, Append(o.open, <<c.n, c.t>>), o.mods, o.nested, o.ambient)
    BY <1>3, <1>6 DEF Drawn
  <2> QED BY <1>1, <1>4, <2>1, <2>2
<1>7. ASSUME c.k \in {"qed", "defined", "admitted", "term"}
      PROVE  Goal
  <2> DEFINE x == <<o.mods \o Last(o.open)[1], Last(o.open)[2]>>
  <2>1. Front(o.open) \in Seq(Label) /\ Last(o.open) \in Label
    BY <1>1, <1>7, LastIs
  <2>2. Last(o.open)[1] \in Path /\ Last(o.open)[2] \in Wording
    BY <2>1 DEF Label
  <2>3. o.mods \o Last(o.open)[1] \in Path
    BY <1>1, <2>2, ConcatProperties DEF Path
  <2>4. x \in Label
    BY <2>2, <2>3 DEF Label
  <2>5. /\ Drawn(o, c) = Record(Append(o.stated, x), Front(o.open), o.mods, o.nested, o.ambient)
        /\ Drawn(w, c) = Record(Append(p \o o.stated, x), Front(o.open), o.mods, o.nested, o.ambient)
    BY <1>3, <1>7 DEF Drawn
  <2> HIDE DEF x
  <2> QED BY <1>1, <1>4, <1>5, <2>1, <2>4, <2>5
<1>8. ASSUME c.k = "abort"
      PROVE  Goal
  <2>1. Front(o.open) \in Seq(Label)
    BY <1>1, <1>8, LastIs
  <2>2. /\ Drawn(o, c) = Record(o.stated, Front(o.open), o.mods, o.nested, o.ambient)
        /\ Drawn(w, c) = Record(p \o o.stated, Front(o.open), o.mods, o.nested, o.ambient)
    BY <1>3, <1>8 DEF Drawn
  <2> QED BY <1>1, <1>4, <2>1, <2>2
<1>9. ASSUME c.k \in {"axiom", "def"}
      PROVE  Goal
  <2> DEFINE x == <<o.mods \o c.n, c.t>>
  <2>1. x \in Label
    BY <1>2 DEF Label
  <2>2. /\ Drawn(o, c) = Record(Append(o.stated, x), o.open, o.mods, o.nested, o.ambient)
        /\ Drawn(w, c) = Record(Append(p \o o.stated, x), o.open, o.mods, o.nested, o.ambient)
    BY <1>3, <1>9 DEF Drawn
  <2> HIDE DEF x
  <2> QED BY <1>1, <1>4, <1>5, <2>1, <2>2
<1>10. ASSUME c.k \in {"notation", "hint"}
      PROVE  Goal
  <2>1. o.ambient + 1 \in Nat
    BY <1>1
  <2>2. /\ Drawn(o, c) = Record(o.stated, o.open, o.mods, o.nested, o.ambient + 1)
        /\ Drawn(w, c) = Record(p \o o.stated, o.open, o.mods, o.nested, o.ambient + 1)
    BY <1>3, <1>10 DEF Drawn
  <2> QED BY <1>1, <1>4, <2>1, <2>2
<1>11. ASSUME c.k = "hatch"
      PROVE  Goal
  <2>1. o.ambient + 1 \in Nat /\ TRUE \in BOOLEAN
    BY <1>1
  <2>2. /\ Drawn(o, c) = Record(o.stated, o.open, o.mods, TRUE, o.ambient + 1)
        /\ Drawn(w, c) = Record(p \o o.stated, o.open, o.mods, TRUE, o.ambient + 1)
    BY <1>3, <1>11 DEF Drawn
  <2> QED BY <1>1, <1>4, <2>1, <2>2
<1>12. ASSUME c.k = "module"
      PROVE  Goal
  <2>1. /\ Drawn(o, c) = Record(o.stated, o.open, o.mods \o c.n, o.nested, o.ambient)
        /\ Drawn(w, c) = Record(p \o o.stated, o.open, o.mods \o c.n, o.nested, o.ambient)
    BY <1>3, <1>12 DEF Drawn
  <2> QED BY <1>1, <1>2, <1>4, <2>1
<1>13. ASSUME c.k = "end"
      PROVE  Goal
  <2>1. Front(o.mods) \in Path
    BY <1>1, <1>13, LastIs DEF Path
  <2>2. /\ Drawn(o, c) = Record(o.stated, o.open, Front(o.mods), o.nested, o.ambient)
        /\ Drawn(w, c) = Record(p \o o.stated, o.open, Front(o.mods), o.nested, o.ambient)
    BY <1>3, <1>13 DEF Drawn
  <2> QED BY <1>1, <1>4, <2>1, <2>2
<1>14. ASSUME c.k \in Silent \cup {"open", "glued", "comment"}
      PROVE  Goal
  <2>1. Drawn(o, c) = o /\ Drawn(w, c) = w
    BY <1>14 DEF Drawn, Silent
  <2> QED BY <2>1 DEF w
<1>15. c.k \in Silent \cup {"open", "glued", "comment", "lemma", "goal", "qed", "defined", "admitted", "term", "abort", "axiom",
                           "def", "notation", "hint", "hatch", "module", "end"}
  BY DEF Plain, Kind, Silent
<1>16. Goal
  BY <1>6, <1>7, <1>8, <1>9, <1>10, <1>11, <1>12, <1>13, <1>14, <1>15
<1> QED BY <1>16 DEF w

\* A text adds the same to two states that differ in what was stated before.
LEMMA Lockstep ==
    ASSUME NEW st, StateOK(st), NEW su, StateOK(su), NEW p \in Seq(Label), NEW q \in Seq(Label), Alike(st, su, p, q),
           NEW text \in Seq(Line), ~Compile(st, text).err, ~Compile(su, text).err
    PROVE  Alike(Compile(st, text), Compile(su, text), p, q)
<1> DEFINE U == {s \in Seq(Line) : ~Compile(st, s).err /\ ~Compile(su, s).err => Alike(Compile(st, s), Compile(su, s), p, q)}
<1>1. <<>> \in U
  BY CompileMore, EmptySeq
<1>2. ASSUME NEW s \in Seq(Line), NEW e \in Line, s \in U, ~Compile(st, Append(s, e)).err, ~Compile(su, Append(s, e)).err
      PROVE  Alike(Compile(st, Append(s, e)), Compile(su, Append(s, e)), p, q)
  <2> DEFINE m == Compile(st, s)
             n == Compile(su, s)
             c == Ran(e)
  <2>1. /\ StateOK(m) /\ ~m.err /\ Compile(st, Append(s, e)) = Sentence(m, c) /\ Goes(m, Sentence(m, c), c)
        /\ StateOK(n) /\ ~n.err /\ Compile(su, Append(s, e)) = Sentence(n, c) /\ Goes(n, Sentence(n, c), c)
    BY <1>2, NoErrorBefore
  <2>2. Alike(m, n, p, q)
    BY <1>2, <2>1
  <2>3. c \in Plain /\ ~Sentence(m, c).err /\ ~Sentence(n, c).err
    BY <1>2, <2>1, RanIs
  <2> HIDE DEF m, n, c
  <2>4. PICK o \in OutlineType : Outline(m) = Prefixed(p, o) /\ Outline(n) = Prefixed(q, o)
    BY <2>2 DEF Alike
  <2>5. /\ c.k \in {"qed", "defined", "admitted", "term", "abort"} => o.open # <<>>
        /\ c.k = "end" => o.mods # <<>>
    <3>1. Prefixed(p, o).open = o.open /\ Prefixed(p, o).mods = o.mods
      BY Fields DEF Prefixed
    <3> QED BY <2>1, <2>3, <2>4, <3>1, EndsWhatIsThere
  <2>6. /\ Drawn(o, c) \in OutlineType
        /\ Drawn(Prefixed(p, o), c) = Prefixed(p, Drawn(o, c)) /\ Drawn(Prefixed(q, o), c) = Prefixed(q, Drawn(o, c))
    BY <2>3, <2>5, DrawnPrefixed
  <2>7. Outline(Sentence(m, c)) = Drawn(Outline(m), c) /\ Outline(Sentence(n, c)) = Drawn(Outline(n), c)
    BY <2>1, <2>3 DEF Goes
  <2>8. Alike(Sentence(m, c), Sentence(n, c), p, q)
    BY <2>4, <2>6, <2>7 DEF Alike
  <2> QED BY <2>1, <2>8
<1>3. \A s \in Seq(Line), e \in Line : s \in U => Append(s, e) \in U
  BY <1>2, LinesAppended
<1> HIDE DEF U
<1>4. Seq(Line) \subseteq U
  BY <1>1, <1>3, FromEmpty
<1> QED BY <1>4 DEF U

-----------------------------------------------------------------------------
(* Texts put one after the other *)

FlatUpTo(ss) == CHOOSE f : f = [i \in 1..Len(ss) |-> IF i = 1 THEN ss[i] ELSE f[i - 1] \o ss[i]]

\* What has been joined after each part: the recursion has a solution.
LEMMA FlatIs ==
    ASSUME NEW ss, Len(ss) \in Nat
    PROVE  FlatUpTo(ss) = [i \in 1..Len(ss) |-> IF i = 1 THEN ss[i] ELSE FlatUpTo(ss)[i - 1] \o ss[i]]
<1> DEFINE Sat(f, n) == f = [i \in 1..n |-> IF i = 1 THEN ss[i] ELSE f[i - 1] \o ss[i]]
           V == {n \in Nat : \E f : Sat(f, n)}
<1>1. 0 \in V
  <2>1. Sat([i \in 1..0 |-> <<>>], 0)
    OBVIOUS
  <2> QED BY <2>1
<1>2. ASSUME NEW n \in Nat, n \in V PROVE n + 1 \in V
  <2>1. PICK f : Sat(f, n)
    BY <1>2
  <2> DEFINE g == [i \in 1..(n + 1) |-> IF i = n + 1 THEN (IF n = 0 THEN ss[1] ELSE f[n] \o ss[n + 1]) ELSE f[i]]
  <2>2. ASSUME NEW i \in 1..(n + 1) PROVE g[i] = IF i = 1 THEN ss[i] ELSE g[i - 1] \o ss[i]
    <3>1. CASE i = n + 1
      BY <3>1
    <3>2. CASE i # n + 1
      <4>1. i \in 1..n /\ (i # 1 => i - 1 \in 1..n)
        BY <3>2
      <4>2. f[i] = IF i = 1 THEN ss[i] ELSE f[i - 1] \o ss[i]
        BY <2>1, <4>1
      <4>3. g[i] = f[i] /\ (i # 1 => g[i - 1] = f[i - 1])
        BY <3>2, <4>1
      <4> QED BY <4>2, <4>3, Zenon
    <3> QED BY <3>1, <3>2
  <2>3. Sat(g, n + 1)
    BY <2>2
  <2>4. \E h : Sat(h, n + 1)
    <3> HIDE DEF g
    <3> QED BY <2>3
  <2> HIDE DEF Sat
  <2> QED BY <2>4
<1>3. \E f : Sat(f, Len(ss))
  BY <1>1, <1>2, FromZero
<1>4. FlatUpTo(ss) = CHOOSE f : Sat(f, Len(ss))
  BY DEF FlatUpTo
<1> QED BY <1>3, <1>4

\* Joining nothing, and one part more.
LEMMA FlattenMore ==
    ASSUME NEW T
    PROVE  /\ FlattenSeq(<<>>) = <<>>
           /\ \A ss \in Seq(Seq(T)), x \in Seq(T) : FlattenSeq(Append(ss, x)) = FlattenSeq(ss) \o x
<1>0. ASSUME NEW ss PROVE FlattenSeq(ss) = IF Len(ss) = 0 THEN ss ELSE FlatUpTo(ss)[Len(ss)]
  BY DEF FlattenSeq, FlatUpTo
<1>1. FlattenSeq(<<>>) = <<>>
  BY <1>0
<1>2. ASSUME NEW ss \in Seq(Seq(T)), NEW x \in Seq(T) PROVE FlattenSeq(Append(ss, x)) = FlattenSeq(ss) \o x
  <2> DEFINE b == Append(ss, x)
             V == {n \in Nat : n \in 1..Len(ss) => FlatUpTo(b)[n] = FlatUpTo(ss)[n]}
  <2>1. Len(ss) \in Nat /\ Len(b) = Len(ss) + 1 /\ (\A i \in 1..Len(ss) : b[i] = ss[i]) /\ b[Len(ss) + 1] = x
    BY Appending
  <2> HIDE DEF b
  <2>2. \A i \in 1..Len(ss) : FlatUpTo(ss)[i] = IF i = 1 THEN ss[i] ELSE FlatUpTo(ss)[i - 1] \o ss[i]
    BY <2>1, FlatIs
  <2>3. \A i \in 1..(Len(ss) + 1) : FlatUpTo(b)[i] = IF i = 1 THEN b[i] ELSE FlatUpTo(b)[i - 1] \o b[i]
    <3>1. Len(b) \in Nat /\ Len(b) = Len(ss) + 1
      BY <2>1
    <3>2. FlatUpTo(b) = [i \in 1..Len(b) |-> IF i = 1 THEN b[i] ELSE FlatUpTo(b)[i - 1] \o b[i]]
      BY <3>1, FlatIs
    <3>3. \A i \in 1..Len(b) : FlatUpTo(b)[i] = IF i = 1 THEN b[i] ELSE FlatUpTo(b)[i - 1] \o b[i]
      BY <3>2
    <3> QED BY <3>1, <3>3, Zenon
  <2>4. 0 \in V
    OBVIOUS
  <2>5. ASSUME NEW n \in Nat, n \in V PROVE n + 1 \in V
    <3>1. CASE n + 1 \in 1..Len(ss)
      <4>1. n + 1 \in 1..(Len(ss) + 1) /\ (n + 1) - 1 = n /\ b[n + 1] = ss[n + 1] /\ (n # 0 => n \in 1..Len(ss))
        BY <2>1, <3>1
      <4>2. FlatUpTo(b)[n + 1] = IF n + 1 = 1 THEN b[n + 1] ELSE FlatUpTo(b)[(n + 1) - 1] \o b[n + 1]
        BY <2>3, <4>1
      <4>3. FlatUpTo(ss)[n + 1] = IF n + 1 = 1 THEN ss[n + 1] ELSE FlatUpTo(ss)[(n + 1) - 1] \o ss[n + 1]
        BY <2>2, <3>1
      <4>4. n + 1 # 1 => FlatUpTo(b)[n] = FlatUpTo(ss)[n]
        BY <2>5, <4>1
      <4> QED BY <4>1, <4>2, <4>3, <4>4
    <3> QED BY <3>1
  <2> HIDE DEF V
  <2>6. Len(ss) \in V
    BY <2>1, <2>4, <2>5, FromZero
  <2>7. CASE Len(ss) = 0
    <3>1. ss = <<>>
      BY <2>7, EmptySeq
    <3>2. FlattenSeq(b) = b[1]
      <4>1. FlattenSeq(b) = FlatUpTo(b)[1]
        <5>1. Len(b) = 1
          BY <2>1, <2>7
        <5>2. FlattenSeq(b) = IF Len(b) = 0 THEN b ELSE FlatUpTo(b)[Len(b)]
          BY <1>0
        <5> QED BY <5>1, <5>2
      <4>2. 1 \in 1..(Len(ss) + 1)
        BY <2>1
      <4> QED BY <2>3, <4>1, <4>2, Zenon
    <3>3. FlattenSeq(ss) = <<>> /\ <<>> \o x = x
      BY <1>1, <3>1, ConcatEmptySeq
    <3> QED BY <2>1, <2>7, <3>2, <3>3 DEF b
  <2>8. CASE Len(ss) # 0
    <3>1. Len(ss) \in 1..Len(ss) /\ Len(ss) + 1 \in 1..(Len(ss) + 1) /\ Len(ss) + 1 # 1 /\ (Len(ss) + 1) - 1 = Len(ss)
      BY <2>1, <2>8
    <3>2. FlatUpTo(b)[Len(ss)] = FlatUpTo(ss)[Len(ss)]
      BY <2>6, <3>1 DEF V
    <3>3. FlattenSeq(b) = FlatUpTo(b)[Len(ss) + 1]
      BY <1>0, <2>1
    <3>4. FlattenSeq(ss) = FlatUpTo(ss)[Len(ss)]
      BY <1>0, <2>8
    <3> QED BY <2>1, <2>3, <3>1, <3>2, <3>3, <3>4 DEF b
  <2> QED BY <2>7, <2>8
<1> QED BY <1>1, <1>2

\* What is joined is made of what its parts are made of.
LEMMA FlattenType == ASSUME NEW T, NEW ss \in Seq(Seq(T)) PROVE FlattenSeq(ss) \in Seq(T)
<1> DEFINE V == {s \in Seq(Seq(T)) : FlattenSeq(s) \in Seq(T)}
<1>1. <<>> \in V
  BY FlattenMore, EmptySeq
<1>2. ASSUME NEW s \in Seq(Seq(T)), NEW x \in Seq(T), s \in V PROVE Append(s, x) \in V
  <2>1. FlattenSeq(Append(s, x)) = FlattenSeq(s) \o x
    BY FlattenMore
  <2>2. FlattenSeq(s) \o x \in Seq(T)
    BY <1>2, ConcatProperties
  <2> QED BY <2>1, <2>2, Appending
<1> HIDE DEF V
<1>3. Seq(Seq(T)) \subseteq V
  BY <1>1, <1>2, FromEmpty
<1> QED BY <1>3 DEF V

\* One part for each element: for one element more, one part more.
Each(part, u) == FlattenSeq([i \in DOMAIN u |-> part[u[i]]])
EachIs(I, T, part) ==
    /\ Each(part, <<>>) = <<>>
    /\ \A u \in Seq(I), n \in I : Each(part, Append(u, n)) = Each(part, u) \o part[n]
    /\ \A u \in Seq(I) : Each(part, u) \in Seq(T)

\* The parts of a sequence, by its length.
LEMMA EachMore ==
    ASSUME NEW I, NEW T, NEW part \in [I -> Seq(T)]
    PROVE  EachIs(I, T, part)
<1>1. Each(part, <<>>) = <<>>
  <2>1. [i \in DOMAIN <<>> |-> part[<<>>[i]]] = <<>>
    OBVIOUS
  <2> QED BY <2>1, FlattenMore DEF Each
<1>2. ASSUME NEW u \in Seq(I), NEW n \in I
      PROVE  Each(part, Append(u, n)) = Each(part, u) \o part[n]
  <2> DEFINE b == Append(u, n)
             pu == [i \in DOMAIN u |-> part[u[i]]]
             pb == [i \in DOMAIN b |-> part[b[i]]]
  <2>1. Len(u) \in Nat /\ DOMAIN u = 1..Len(u) /\ \A i \in 1..Len(u) : u[i] \in I
    BY LenProperties, ElementOfSeq
  <2>2. b \in Seq(I) /\ Len(b) = Len(u) + 1 /\ (\A i \in 1..Len(u) : b[i] = u[i]) /\ b[Len(u) + 1] = n /\ DOMAIN b = 1..(Len(u) + 1)
    BY Appending, LenProperties
  <2>3. pu \in Seq(Seq(T)) /\ Len(pu) = Len(u) /\ part[n] \in Seq(T)
    <3>1. pu = [i \in 1..Len(u) |-> part[u[i]]] /\ \A i \in 1..Len(u) : part[u[i]] \in Seq(T)
      BY <2>1
    <3> HIDE DEF pu
    <3>2. pu \in Seq(Seq(T))
      BY <2>1, <3>1, IsASeq
    <3> QED BY <2>1, <3>1, <3>2, LenProperties
  <2> HIDE DEF b
  <2>4. pb \in Seq(Seq(T)) /\ Len(pb) = Len(u) + 1
    <3>1. pb = [i \in 1..(Len(u) + 1) |-> part[b[i]]] /\ \A i \in 1..(Len(u) + 1) : part[b[i]] \in Seq(T)
      BY <2>2, ElementOfSeq
    <3> HIDE DEF pb
    <3>2. pb \in Seq(Seq(T)) /\ Len(u) + 1 \in Nat
      BY <2>1, <3>1, IsASeq
    <3> QED BY <2>1, <3>1, <3>2, LenProperties
  <2>5. /\ Append(pu, part[n]) \in Seq(Seq(T)) /\ Len(Append(pu, part[n])) = Len(u) + 1
        /\ (\A i \in 1..Len(u) : Append(pu, part[n])[i] = pu[i]) /\ Append(pu, part[n])[Len(u) + 1] = part[n]
    BY <2>3, Appending
  <2>6. ASSUME NEW i \in 1..(Len(u) + 1) PROVE pb[i] = Append(pu, part[n])[i]
    <3>1. CASE i = Len(u) + 1
      BY <2>2, <2>5, <3>1
    <3>2. CASE i # Len(u) + 1
      <4>1. i \in 1..Len(u)
        BY <2>1, <3>2
      <4> QED BY <2>1, <2>2, <2>5, <4>1
    <3> QED BY <3>1, <3>2
  <2> HIDE DEF pu, pb
  <2>7. pb = Append(pu, part[n])
    BY <2>4, <2>5, <2>6, SeqEqual
  <2>8. FlattenSeq(pb) = FlattenSeq(pu) \o part[n]
    BY <2>3, <2>7, FlattenMore
  <2> QED BY <2>8 DEF pb, pu, b, Each
<1>3. ASSUME NEW u \in Seq(I) PROVE Each(part, u) \in Seq(T)
  <2>1. Len(u) \in Nat /\ DOMAIN u = 1..Len(u) /\ \A i \in 1..Len(u) : u[i] \in I
    BY LenProperties, ElementOfSeq
  <2>2. [i \in 1..Len(u) |-> part[u[i]]] \in Seq(Seq(T))
    BY <2>1, IsASeq
  <2>3. FlattenSeq([i \in 1..Len(u) |-> part[u[i]]]) \in Seq(T)
    BY <2>2, FlattenType
  <2> QED BY <2>1, <2>3 DEF Each
<1> QED BY <1>1, <1>2, <1>3 DEF EachIs

-----------------------------------------------------------------------------
(* A proof body that passes the static checks, and the lemma it is put in *)

\* What the checks let by: tactics, and commands that only look or print.
Fine == {s \in Line : Ran(s).k \in Silent /\ s.k \notin {"open", "comment"}}
FineKinds == {"tac", "exact", "say", "glued", "query", "printing"}

\* A body the static checks pass is lexed to such sentences, and ends.
LEMMA FineBody ==
    ASSUME NEW body \in Seq(Line), Violations(body) = {}
    PROVE  Lex(body) \in Seq(Fine) /\ Ended(Lex(body))
<1> DEFINE s == Lex(body)
<1>1. {CheckCode(s[i]) : i \in DOMAIN s} \ {"fine"} = {}
  BY DEF Violations
<1>2. s \in Seq(Line)
  BY LexType
<1> HIDE DEF s
<1>3. ASSUME NEW i \in DOMAIN s PROVE s[i] \in Fine /\ s[i].k \notin {"open", "comment"}
  <2>1. CheckCode(s[i]) = "fine"
    BY <1>1
  <2>2. s[i] \in Line
    BY <1>2, ElementOfSeq, LenProperties
  <2>3. Ran(s[i]).k \in FineKinds
    BY <2>1 DEF CheckCode, FineKinds, Ran, IsEnder
  <2>4. s[i].k \in FineKinds \/ s[i].k = "wrap"
    BY <2>3 DEF Ran
  <2> QED BY <2>2, <2>3, <2>4 DEF Fine, FineKinds, Silent
<1>4. s \in Seq(Fine)
  <2>1. Len(s) \in Nat /\ s = [i \in 1..Len(s) |-> s[i]] /\ DOMAIN s = 1..Len(s)
    BY <1>2, LenProperties
  <2>2. \A i \in 1..Len(s) : s[i] \in Fine
    BY <1>3, <2>1
  <2>3. [i \in 1..Len(s) |-> s[i]] \in Seq(Fine)
    BY <2>1, <2>2, IsASeq
  <2> QED BY <2>1, <2>3
<1>5. Ended(s)
  <2>1. CASE s # <<>>
    <3>1. Last(s) \in Fine
      BY <1>4, <2>1, LastIs
    <3> QED BY <3>1 DEF Ended, Fine
  <2>2. CASE s = <<>>
    BY <2>2 DEF Ended
  <2> QED BY <2>1, <2>2
<1> QED BY <1>4, <1>5 DEF s

\* Texts that have ended, one after the other.
LEMMA EndedJoined ==
    ASSUME NEW a \in Seq(Line), NEW b \in Seq(Line), Ended(a), Ended(b)
    PROVE  Ended(a \o b)
<1>1. CASE b = <<>>
  BY <1>1, ConcatEmptySeq
<1>2. CASE b # <<>>
  <2>1. PICK u \in Seq(Line), x \in Line : b = Append(u, x)
    BY <1>2, SequenceEmptyOrAppend
  <2>2. a \o b = Append(a \o u, x) /\ a \o u \in Seq(Line)
    BY <2>1, LinesJoined
  <2>3. Last(a \o b) = x /\ Last(b) = x
    <3>1. Last(Append(a \o u, x)) = x /\ Last(Append(u, x)) = x
      BY <2>1, <2>2, LinesAppended
    <3> QED BY <2>1, <2>2, <3>1
  <2> QED BY <1>2, <2>3 DEF Ended
<1> QED BY <1>1, <1>2

\* A lemma's text, between its statement and its ender.
Inside(body) == <<S("proof", None, "")>> \o (IF body = NoBody THEN <<>> ELSE Lex(body))
Closing(body) == S(IF body = NoBody THEN "admitted" ELSE "qed", None, "")

\* A sentence as the assembly writes it.
Plainly(s, k, n, t) == s \in Line /\ s.k = k /\ s.n = n /\ s.t = t /\ Ran(s) = s

\* Any sentence that is not run by another one.
LEMMA Sentences ==
    \A k \in Kind, n \in Path, t \in Wording : k # "wrap" => Plainly(S(k, n, t), k, n, t)
<1> SUFFICES ASSUME NEW k \in Kind, k # "wrap", NEW n \in Path, NEW t \in Wording
             PROVE  Plainly(S(k, n, t), k, n, t)
  OBVIOUS
<1> DEFINE s == S(k, n, t)
<1>1. s \in Line /\ s.k = k /\ s.n = n /\ s.t = t
  BY DEF S, Line
<1> HIDE DEF s
<1>2. Ran(s) = s
  BY <1>1 DEF Ran
<1>3. Plainly(s, k, n, t)
  BY <1>1, <1>2 DEF Plainly
<1> QED BY <1>3 DEF s

\* One sentence, or two, as texts.
LEMMA OneLine ==
    ASSUME NEW T, NEW l \in T, NEW p \in T
    PROVE  <<l>> \in Seq(T) /\ <<l, p>> \in Seq(T) /\ <<l, p>> = <<l>> \o <<p>> /\ <<>> \in Seq(T)
<1>1. <<l>> \in Seq(T) /\ <<l, p>> \in Seq(T) /\ <<>> \in Seq(T) /\ <<p>> \in Seq(T)
  OBVIOUS
<1>2. <<l, p>> = <<l>> \o <<p>>
  <2>1. Append(<<l>>, p) = <<l>> \o <<p>>
    BY <1>1, AppendIsConcat
  <2>2. Append(<<l>>, p) = <<l, p>>
    <3> DEFINE a == Append(<<l>>, p)
               b == <<l, p>>
    <3>1. a \in Seq(T) /\ Len(a) = 2 /\ a[1] = l /\ a[2] = p
      <4>1. <<l>> \in Seq(T) /\ Len(<<l>>) = 1 /\ <<l>>[1] = l
        OBVIOUS
      <4> HIDE DEF a
      <4>2. a \in Seq(T) /\ Len(a) = 1 + 1 /\ (\A i \in 1..1 : a[i] = <<l>>[i]) /\ a[1 + 1] = p
        BY <4>1, Appending DEF a
      <4> QED BY <4>1, <4>2
    <3>2. b \in Seq(T) /\ Len(b) = 2 /\ b[1] = l /\ b[2] = p
      OBVIOUS
    <3> HIDE DEF a, b
    <3>3. a = b
      BY <3>1, <3>2, SeqEqual
    <3> QED BY <3>3 DEF a, b
  <2> QED BY <2>1, <2>2
<1> QED BY <1>1, <1>2

\* What is inside a lemma is fine.
LEMMA InsideIs ==
    ASSUME NEW body \in Seq(Line), body # NoBody => Violations(body) = {}
    PROVE  Inside(body) \in Seq(Fine) /\ Inside(body) \in Seq(Line)
<1>1. S("proof", None, "") \in Fine
  <2>1. "proof" \in Kind /\ "proof" # "wrap" /\ None \in Path /\ "" \in Wording
    BY SourceAssumption, EmptySeq DEF Kind, None, Path
  <2>2. Plainly(S("proof", None, ""), "proof", None, "")
    BY <2>1, Sentences
  <2> QED BY <2>2 DEF Fine, Silent, Plainly
<1>2. <<S("proof", None, "")>> \in Seq(Fine)
  BY <1>1, OneLine, Zenon
<1>3. (IF body = NoBody THEN <<>> ELSE Lex(body)) \in Seq(Fine)
  BY FineBody, EmptySeq
<1>4. Inside(body) \in Seq(Fine)
  BY <1>2, <1>3, ConcatProperties DEF Inside
<1>5. Seq(Fine) \subseteq Seq(Line)
  BY DEF Fine
<1> QED BY <1>4, <1>5

\* A rendered obligation is lexed as a lemma, what is inside it, and its ender.
Rendered(name, t, body) == Append(<<S("lemma", name, t)>> \o Inside(body), Closing(body))

\* NodeSpec.render, read back.
LEMMA RenderLexed ==
    ASSUME NEW name \in Path, NEW t \in Wording, NEW body \in Seq(Line), body # NoBody => Violations(body) = {}
    PROVE  LET spec == [name |-> name, t |-> t, body |-> body]
           IN  Render(spec) \in Seq(Line) /\ Lex(Render(spec)) = Rendered(name, t, body) /\ Ended(Lex(Render(spec)))
<1> DEFINE l == S("lemma", name, t)
           p == S("proof", None, "")
           c == Closing(body)
           spec == [name |-> name, t |-> t, body |-> body]
<1>0. /\ "lemma" \in Kind /\ "proof" \in Kind /\ "qed" \in Kind /\ "admitted" \in Kind
      /\ "lemma" # "wrap" /\ "proof" # "wrap" /\ "qed" # "wrap" /\ "admitted" # "wrap" /\ None \in Path /\ "" \in Wording
  BY SourceAssumption, EmptySeq DEF Kind, None, Path
<1>1. l \in Line /\ l.k = "lemma" /\ p \in Line /\ p.k = "proof" /\ c \in Line /\ c.k \in {"qed", "admitted"}
  <2>1. Plainly(l, "lemma", name, t) /\ Plainly(p, "proof", None, "")
    BY <1>0, Sentences
  <2>2. Plainly(S("qed", None, ""), "qed", None, "") /\ Plainly(S("admitted", None, ""), "admitted", None, "")
    BY <1>0, Sentences
  <2> QED BY <2>1, <2>2 DEF Plainly, Closing
<1> HIDE DEF l, p, c
<1>2. Render(spec) = <<l, p>> \o (IF body = NoBody THEN <<c>> ELSE body \o <<c>>)
  BY DEF Render, l, p, c, Closing
<1> HIDE DEF spec
<1>3. /\ <<l>> \in Seq(Line) /\ <<p>> \in Seq(Line) /\ <<c>> \in Seq(Line) /\ <<l, p>> \in Seq(Line)
      /\ <<l, p>> = <<l>> \o <<p>> /\ <<>> \in Seq(Line)
  BY <1>1, OneLine, Zenon
<1> DEFINE F == {l, p, c}
<1>4. F \in SUBSET Line /\ \A s \in F : s.k \notin {"open", "comment"}
  BY <1>1
<1>5. <<l, p>> \in Seq(F) /\ <<c>> \in Seq(F)
  OBVIOUS
<1> HIDE DEF F
<1>6. Lex(<<l, p>>) = <<l, p>> /\ Ended(<<l, p>>) /\ Lex(<<c>>) = <<c>> /\ Ended(<<c>>)
  BY <1>4, <1>5, LexFlat
<1> DEFINE b == IF body = NoBody THEN <<>> ELSE Lex(body)
           rest == IF body = NoBody THEN <<c>> ELSE body \o <<c>>
<1>7. rest \in Seq(Line) /\ Lex(rest) = b \o <<c>> /\ b \in Seq(Line)
  <2>1. CASE body = NoBody
    <3>1. <<>> \o <<c>> = <<c>>
      BY <1>3, ConcatEmptySeq
    <3> QED BY <1>3, <1>6, <2>1, <3>1
  <2>2. CASE body # NoBody
    <3>1. Ended(Lex(body)) /\ Lex(body) \in Seq(Line)
      BY <2>2, FineBody, LexType
    <3>2. Lex(body \o <<c>>) = Lex(body) \o Lex(<<c>>) /\ body \o <<c>> \in Seq(Line)
      BY <1>3, <3>1, LexJoined
    <3> QED BY <1>6, <2>2, <3>1, <3>2
  <2> QED BY <2>1, <2>2
<1>8. Render(spec) = <<l, p>> \o rest
  BY <1>2
<1>9. Inside(body) = <<p>> \o b
  BY DEF Inside, p
<1> HIDE DEF rest, b
<1>10. Lex(Render(spec)) = <<l, p>> \o (b \o <<c>>) /\ Render(spec) \in Seq(Line)
  <2>1. Lex(<<l, p>> \o rest) = Lex(<<l, p>>) \o Lex(rest) /\ <<l, p>> \o rest \in Seq(Line)
    BY <1>3, <1>6, <1>7, LexJoined
  <2> QED BY <1>6, <1>7, <1>8, <2>1
<1>11. <<l, p>> \o (b \o <<c>>) = Append(<<l>> \o (<<p>> \o b), c) /\ <<l>> \o (<<p>> \o b) \in Seq(Line)
  <2>1. <<l, p>> \o (b \o <<c>>) = (<<l, p>> \o b) \o <<c>>
    BY <1>3, <1>7, ConcatAssociative
  <2>2. <<l, p>> \o b = <<l>> \o (<<p>> \o b)
    <3>1. (<<l>> \o <<p>>) \o b = <<l>> \o (<<p>> \o b)
      <4>1. <<l>> \in Seq(Line) /\ <<p>> \in Seq(Line) /\ b \in Seq(Line)
        BY <1>3, <1>7
      <4> QED BY <4>1, ConcatAssociative
    <3> QED BY <1>3, <3>1, Zenon
  <2>3. <<l, p>> \o b \in Seq(Line)
    BY <1>3, <1>7, ConcatProperties
  <2>4. Append(<<l, p>> \o b, c) = (<<l, p>> \o b) \o <<c>>
    BY <1>1, <2>3, Appending
  <2> QED BY <2>1, <2>2, <2>3, <2>4
<1>12. Lex(Render(spec)) = Rendered(name, t, body)
  BY <1>9, <1>10, <1>11 DEF Rendered, l, c
<1>13. Ended(Lex(Render(spec)))
  <2>1. Last(Append(<<l>> \o (<<p>> \o b), c)) = c
    BY <1>1, <1>11, LinesAppended
  <2>2. Last(Lex(Render(spec))) = c
    BY <1>10, <1>11, <2>1
  <2> QED BY <1>1, <2>2 DEF Ended
<1>14. Render(spec) \in Seq(Line) /\ Lex(Render(spec)) = Rendered(name, t, body) /\ Ended(Lex(Render(spec)))
  BY <1>10, <1>12, <1>13
<1> QED BY <1>14 DEF spec

\* A lemma has been added at the end, as an axiom or with a proof.
Adds(st, d, name, t, how) ==
    /\ StateOK(d) /\ ~d.err /\ d.proofs = <<>>
    /\ Outline(d) = Record(Append(Stated(st.env), <<st.mods \o name, t>>), <<>>, st.mods, st.nested, st.ambient)
    /\ \E e \in Constant : /\ d.env = Append(st.env, e) /\ e.name = st.mods \o name /\ e.how = how
                           /\ name # None => \A i \in DOMAIN st.env : st.env[i].name # e.name

\* Nothing open, and one proof open.
LEMMA NoLabels == /\ Labels(<<>>) = <<>>
                  /\ \A ps \in Seq(OpenProof) : Labels(ps) = <<>> => ps = <<>>
<1>1. Labels(<<>>) = <<>>
  <2>1. <<>> \in Seq(OpenProof) /\ Len(<<>>) = 0
    BY EmptySeq
  <2>2. Labels(<<>>) \in Seq(Label) /\ Len(Labels(<<>>)) = 0
    BY <2>1, LabelsIs
  <2> QED BY <2>2, EmptySeq
<1>2. ASSUME NEW ps \in Seq(OpenProof), Labels(ps) = <<>> PROVE ps = <<>>
  <2>1. Len(ps) = 0
    BY <1>2, LabelsIs, EmptySeq
  <2> QED BY <2>1, EmptySeq
<1> QED BY <1>1, <1>2

\* A rendered obligation adds its lemma, whatever the checks let by in its proof.
LEMMA BlockGoes ==
    ASSUME NEW st, StateOK(st), st.proofs = <<>>, NEW name \in Path, NEW t \in Wording, NEW body \in Seq(Line),
           body # NoBody => Violations(body) = {}, ~Compile(st, Rendered(name, t, body)).err
    PROVE  Adds(st, Compile(st, Rendered(name, t, body)), name, t, IF body = NoBody THEN "axiom" ELSE "proof")
<1> DEFINE l == S("lemma", name, t)
           w == Inside(body)
           c == Closing(body)
           u == <<l>> \o w
           one == Compile(st, <<l>>)
           m == Compile(st, u)
           d == Compile(st, Append(u, c))
           how == IF body = NoBody THEN "axiom" ELSE "proof"
           x == <<name, t>>
<1>1. /\ l \in Line /\ l.k = "lemma" /\ l.n = name /\ l.t = t /\ Ran(l) = l
      /\ c \in Line /\ c.k = (IF body = NoBody THEN "admitted" ELSE "qed") /\ Ran(c) = c
  <2>1. /\ "lemma" \in Kind /\ "qed" \in Kind /\ "admitted" \in Kind
        /\ "lemma" # "wrap" /\ "qed" # "wrap" /\ "admitted" # "wrap" /\ None \in Path /\ "" \in Wording
    BY SourceAssumption, EmptySeq DEF Kind, None, Path
  <2>2. Plainly(l, "lemma", name, t)
    BY <2>1, Sentences
  <2>3. Plainly(S("qed", None, ""), "qed", None, "") /\ Plainly(S("admitted", None, ""), "admitted", None, "")
    BY <2>1, Sentences
  <2> QED BY <2>2, <2>3 DEF Plainly, Closing
<1>2. w \in Seq(Fine) /\ w \in Seq(Line)
  BY InsideIs
<1>3. Rendered(name, t, body) = Append(u, c)
  BY DEF Rendered
<1> HIDE DEF l, w, c
<1>4. <<l>> \in Seq(Line) /\ u \in Seq(Line) /\ <<l>> = Append(<<>>, l) /\ <<>> \in Seq(Line)
  <2>1. <<l>> \in Seq(Line) /\ <<>> \in Seq(Line) /\ <<l>> = Append(<<>>, l)
    BY <1>1
  <2> QED BY <1>2, <2>1, ConcatProperties
<1>5. m = Compile(one, w)
  BY <1>2, <1>4, CompileJoined
<1> HIDE DEF u
<1>6. StateOK(m) /\ ~m.err /\ d = Sentence(m, c) /\ Goes(m, d, c)
  <2>1. ~d.err
    BY <1>3
  <2>2. StateOK(m) /\ ~m.err /\ d = Sentence(m, Ran(c)) /\ Goes(m, Sentence(m, Ran(c)), Ran(c))
    BY <1>1, <1>4, <2>1, NoErrorBefore
  <2> QED BY <1>1, <2>2
<1>7. ~one.err
  BY <1>2, <1>5, <1>6, ErrorsStay
<1>8. StateOK(one) /\ ~st.err /\ one = Sentence(st, l) /\ Goes(st, one, l)
  <2>1. Compile(st, <<>>) = st
    BY CompileMore
  <2>2. ~Compile(st, Append(<<>>, l)).err
    BY <1>4, <1>7
  <2>3. /\ StateOK(st) /\ ~st.err /\ Compile(st, Append(<<>>, l)) = Sentence(st, Ran(l))
        /\ Goes(st, Sentence(st, Ran(l)), Ran(l))
    <3>1. /\ StateOK(Compile(st, <<>>)) /\ ~Compile(st, <<>>).err
          /\ Compile(st, Append(<<>>, l)) = Sentence(Compile(st, <<>>), Ran(l))
          /\ Goes(Compile(st, <<>>), Sentence(Compile(st, <<>>), Ran(l)), Ran(l))
      BY <1>1, <1>4, <2>2, NoErrorBefore
    <3> QED BY <2>1, <3>1
  <2>4. StateOK(one)
    BY <1>4, CompileOK
  <2> QED BY <1>1, <1>4, <2>3, <2>4
<1> HIDE DEF one, m, d, how, x
<1>9. l \in Plain /\ c \in Plain
  BY <1>1, RanIs
<1>10. one.env = st.env /\ Outline(one) = Record(Stated(st.env), Append(<<>>, x), st.mods, st.nested, st.ambient)
  <2>1. one.env = st.env
    BY <1>1, <1>7, <1>8, <1>9, OpensGoes
  <2>2. Outline(one) = Drawn(Outline(st), l)
    BY <1>7, <1>8 DEF Goes
  <2>3. Outline(st).open = <<>>
    BY OutlineFields, NoLabels
  <2>4. Drawn(Outline(st), l) = Record(Stated(st.env), Append(<<>>, x), st.mods, st.nested, st.ambient)
    BY <1>1, <2>3, OutlineFields DEF Drawn, x
  <2> QED BY <2>1, <2>2, <2>4
<1>11. m.env = st.env /\ Outline(m) = Outline(one)
  <2>1. Fine \in SUBSET Line /\ \A s \in Fine : Ran(s).k \in Silent
    BY DEF Fine
  <2>2. ~Compile(one, w).err
    BY <1>5, <1>6
  <2>3. Outline(Compile(one, w)) = Outline(one) /\ Compile(one, w).env = one.env
    BY <1>2, <1>8, <2>1, <2>2, SilentText
  <2> QED BY <1>5, <1>10, <2>3
<1>12. ~d.err /\ StateOK(d)
  BY <1>3, <1>6 DEF d, Goes
<1>13. Proving(m) /\ EndsProof(m, d, how)
  <2>1. CASE body = NoBody
    BY <1>1, <1>6, <1>9, <1>12, <2>1, EndersGo DEF how
  <2>2. CASE body # NoBody
    BY <1>1, <1>6, <1>9, <1>12, <2>2, EndersGo DEF how
  <2> QED BY <2>1, <2>2
<1>14. m.mods = st.mods /\ m.nested = st.nested /\ m.ambient = st.ambient /\ Labels(m.proofs) = Append(<<>>, x)
  <2>1. Outline(m) = Record(Stated(st.env), Append(<<>>, x), st.mods, st.nested, st.ambient)
    BY <1>10, <1>11
  <2> QED BY <2>1, OutlineWas
<1>15. x \in Label /\ x[1] = name /\ x[2] = t /\ <<>> \in Seq(Label)
  BY DEF x, Label
<1> HIDE DEF x
<1>16. Last(Append(<<>>, x)) = x /\ Front(Append(<<>>, x)) = <<>>
  <2>1. x \in Label /\ <<>> \in Seq(Label)
    BY <1>15
  <2> QED BY <2>1, AppendLast
<1>17. Proof(m).name = name
  <2>1. PICK v \in Seq(OpenProof), q \in OpenProof : Behind(m, v, q)
    BY <1>6, <1>13, UnderWay
  <2>2. Proof(m) = q /\ Last(Labels(m.proofs)) = <<q.name, q.t>>
    BY <2>1, Zenon DEF Behind
  <2>3. <<q.name, q.t>> = x
    BY <1>14, <1>16, <2>2
  <2> QED BY <1>15, <2>2, <2>3
<1>18. Outline(d) = Record(Append(Stated(st.env), <<st.mods \o name, t>>), <<>>, st.mods, st.nested, st.ambient)
  <2>1. Outline(d) = Drawn(Outline(m), c)
    BY <1>6, <1>12 DEF Goes
  <2>2. Outline(m) = Record(Stated(st.env), Append(<<>>, x), st.mods, st.nested, st.ambient)
    BY <1>10, <1>11
  <2> DEFINE o == Outline(m)
  <2>3. /\ o.stated = Stated(st.env) /\ o.open = Append(<<>>, x) /\ o.mods = st.mods /\ o.nested = st.nested
        /\ o.ambient = st.ambient
    BY <2>2 DEF Record
  <2> HIDE DEF o
  <2>4. Drawn(o, c) = Record(Append(o.stated, <<o.mods \o Last(o.open)[1], Last(o.open)[2]>>), Front(o.open), o.mods, o.nested, o.ambient)
    BY <1>1 DEF Drawn
  <2>5. Last(o.open)[1] = name /\ Last(o.open)[2] = t /\ Front(o.open) = <<>>
    BY <1>15, <1>16, <2>3
  <2> QED BY <2>1, <2>3, <2>4, <2>5 DEF o
<1>19. d.proofs = <<>>
  <2>1. Labels(d.proofs) = <<>>
    BY <1>18, OutlineWas
  <2>2. d.proofs \in Seq(OpenProof)
    BY <1>12 DEF StateOK
  <2> QED BY <2>1, <2>2, NoLabels
<1>20. \E e \in Constant : /\ d.env = Append(st.env, e) /\ e.name = st.mods \o name /\ e.how = how
                           /\ name # None => \A i \in DOMAIN st.env : st.env[i].name # e.name
  BY <1>11, <1>13, <1>14, <1>17 DEF EndsProof
<1>21. Adds(st, d, name, t, how)
  BY <1>12, <1>18, <1>19, <1>20 DEF Adds
<1> QED BY <1>3, <1>21 DEF d, how

-----------------------------------------------------------------------------
(* The obligations of the plan, one after the other *)

RenderAll(bodies) == [n \in DOMAIN bodies |-> Render([name |-> n, t |-> "", body |-> bodies[n]])]
Listing(m, u) == [i \in DOMAIN u |-> <<m \o u[i], "">>]

\* Every obligation is declared, and proved if there is a body for it.
Shown(env, m, u, bodies) ==
    \A n \in ToSet(u) : /\ \E i \in 1..Len(env) : env[i].name = m \o n
                        /\ bodies[n] # NoBody => \A i \in 1..Len(env) : env[i].name = m \o n => env[i].how = "proof"

\* The elements of a sequence with one more.
LEMMA ToSetMore ==
    ASSUME NEW T
    PROVE  ToSet(<<>>) = {} /\ \A u \in Seq(T), x \in T : ToSet(Append(u, x)) = ToSet(u) \cup {x} /\ ToSet(u) \subseteq T
<1>1. ToSet(<<>>) = {}
  BY DEF ToSet
<1>2. ASSUME NEW u \in Seq(T), NEW x \in T PROVE ToSet(Append(u, x)) = ToSet(u) \cup {x} /\ ToSet(u) \subseteq T
  <2> DEFINE b == Append(u, x)
  <2>1. Len(u) \in Nat /\ DOMAIN u = 1..Len(u) /\ \A i \in 1..Len(u) : u[i] \in T
    BY LenProperties, ElementOfSeq
  <2>2. b \in Seq(T) /\ Len(b) = Len(u) + 1 /\ (\A i \in 1..Len(u) : b[i] = u[i]) /\ b[Len(u) + 1] = x
    BY Appending
  <2>3. DOMAIN b = 1..(Len(u) + 1)
    BY <2>2, LenProperties
  <2> HIDE DEF b
  <2>4. \A y : y \in ToSet(b) <=> \E i \in 1..(Len(u) + 1) : b[i] = y
    BY <2>3 DEF ToSet
  <2>5. \A y : y \in ToSet(u) <=> \E i \in 1..Len(u) : u[i] = y
    BY <2>1 DEF ToSet
  <2>6. \A i : i \in 1..(Len(u) + 1) <=> i \in 1..Len(u) \/ i = Len(u) + 1
    BY <2>1
  <2>7. ToSet(b) = ToSet(u) \cup {x}
    BY <2>2, <2>4, <2>5, <2>6
  <2> QED BY <2>1, <2>5, <2>7 DEF b
<1> QED BY <1>1, <1>2

\* The statements of the plan with one obligation more.
LEMMA ListingMore ==
    ASSUME NEW m \in Path
    PROVE  /\ Listing(m, <<>>) = <<>>
           /\ \A u \in Seq(Path), n \in Path : /\ Listing(m, u) \in Seq(Label) /\ Len(Listing(m, u)) = Len(u)
                                               /\ Listing(m, Append(u, n)) = Append(Listing(m, u), <<m \o n, "">>)
<1>0. \A n \in Path : m \o n \in Path /\ <<m \o n, "">> \in Label
  <2>1. \A n \in Path : m \o n \in Path
    BY ConcatProperties DEF Path
  <2> QED BY <2>1, SourceAssumption DEF Label
<1>1. Listing(m, <<>>) = <<>>
  BY DEF Listing
<1>2. ASSUME NEW u \in Seq(Path)
      PROVE  /\ Listing(m, u) \in Seq(Label) /\ Len(Listing(m, u)) = Len(u) /\ Len(u) \in Nat
             /\ \A i \in 1..Len(u) : Listing(m, u)[i] = <<m \o u[i], "">>
  <2>1. Len(u) \in Nat /\ DOMAIN u = 1..Len(u) /\ \A i \in 1..Len(u) : u[i] \in Path
    BY LenProperties, ElementOfSeq
  <2>2. Listing(m, u) = [i \in 1..Len(u) |-> <<m \o u[i], "">>]
    BY <2>1 DEF Listing
  <2>3. \A i \in 1..Len(u) : <<m \o u[i], "">> \in Label
    BY <1>0, <2>1
  <2> DEFINE f == Listing(m, u)
  <2>4. f = [i \in 1..Len(u) |-> f[i]] /\ DOMAIN f = 1..Len(u) /\ \A i \in 1..Len(u) : f[i] = <<m \o u[i], "">>
    BY <2>2
  <2> HIDE DEF f
  <2>5. f \in Seq(Label) /\ Len(f) = Len(u)
    <3>1. \A i \in 1..Len(u) : f[i] \in Label
      BY <2>3, <2>4
    <3>2. f = [i \in 1..Len(u) |-> f[i]] /\ DOMAIN f = 1..Len(u) /\ Len(u) \in Nat
      BY <2>1, <2>4
    <3>3. f \in Seq(Label)
      BY <3>1, <3>2, IsASeq
    <3> QED BY <3>2, <3>3, LenProperties
  <2> QED BY <2>1, <2>4, <2>5 DEF f
<1>3. ASSUME NEW u \in Seq(Path), NEW n \in Path PROVE Listing(m, Append(u, n)) = Append(Listing(m, u), <<m \o n, "">>)
  <2> DEFINE b == Append(u, n)
             x == <<m \o n, "">>
             a == Append(Listing(m, u), x)
  <2>1. b \in Seq(Path) /\ Len(b) = Len(u) + 1 /\ (\A i \in 1..Len(u) : b[i] = u[i]) /\ b[Len(u) + 1] = n
    BY Appending
  <2>2. /\ Listing(m, u) \in Seq(Label) /\ Len(Listing(m, u)) = Len(u) /\ Len(u) \in Nat
        /\ \A i \in 1..Len(u) : Listing(m, u)[i] = <<m \o u[i], "">>
    BY <1>2
  <2>3. x \in Label
    BY <1>0
  <2>4. /\ a \in Seq(Label) /\ Len(a) = Len(u) + 1 /\ (\A i \in 1..Len(u) : a[i] = Listing(m, u)[i]) /\ a[Len(u) + 1] = x
    <3> HIDE DEF x
    <3>1. Listing(m, u) \in Seq(Label) /\ Len(Listing(m, u)) = Len(u)
      BY <2>2
    <3> QED BY <2>3, <3>1, Appending
  <2>5. /\ Listing(m, b) \in Seq(Label) /\ Len(Listing(m, b)) = Len(b)
        /\ \A i \in 1..Len(b) : Listing(m, b)[i] = <<m \o b[i], "">>
    <3> HIDE DEF b
    <3> QED BY <1>2, <2>1
  <2> HIDE DEF a, b
  <2>6. ASSUME NEW i \in 1..(Len(u) + 1) PROVE Listing(m, b)[i] = a[i]
    <3>1. i \in 1..Len(b) /\ Listing(m, b)[i] = <<m \o b[i], "">>
      BY <2>1, <2>5
    <3>2. CASE i = Len(u) + 1
      BY <2>1, <2>4, <3>1, <3>2
    <3>3. CASE i # Len(u) + 1
      <4>1. i \in 1..Len(u)
        <5>1. Len(u) \in Nat
          BY <2>2
        <5> QED BY <3>3, <5>1
      <4>2. b[i] = u[i] /\ a[i] = Listing(m, u)[i] /\ Listing(m, u)[i] = <<m \o u[i], "">>
        BY <2>1, <2>2, <2>4, <4>1
      <4> QED BY <3>1, <4>2
    <3> QED BY <3>2, <3>3
  <2>7. Listing(m, b) = a
    BY <2>1, <2>2, <2>4, <2>5, <2>6, SeqEqual
  <2> QED BY <2>7 DEF a, b
<1> QED BY <1>1, <1>2, <1>3

\* A name that was free is declared once.
LEMMA ShownMore ==
    ASSUME NEW I \in SUBSET Path, NEW bodies, NEW u \in Seq(I), NEW n \in I, NEW m \in Path,
           NEW env \in Seq(Constant), NEW e \in Constant, Shown(env, m, u, bodies),
           e.name = m \o n, \A i \in DOMAIN env : env[i].name # e.name, bodies[n] # NoBody => e.how = "proof"
    PROVE  Shown(Append(env, e), m, Append(u, n), bodies)
<1> DEFINE b == Append(env, e)
<1>1. Len(env) \in Nat /\ DOMAIN env = 1..Len(env)
  BY LenProperties
<1>2. Len(b) = Len(env) + 1 /\ (\A i \in 1..Len(env) : b[i] = env[i]) /\ b[Len(env) + 1] = e
  BY Appending
<1> HIDE DEF b
<1>3. ToSet(Append(u, n)) = ToSet(u) \cup {n}
  BY ToSetMore
<1>4. \A i : i \in 1..Len(b) <=> i \in 1..Len(env) \/ i = Len(env) + 1
  BY <1>1, <1>2
<1>5. ASSUME NEW x \in ToSet(u)
      PROVE /\ \E i \in 1..Len(b) : b[i].name = m \o x
            /\ bodies[x] # NoBody => \A i \in 1..Len(b) : b[i].name = m \o x => b[i].how = "proof"
  <2>1. PICK j \in 1..Len(env) : env[j].name = m \o x
    BY DEF Shown
  <2>2. e.name # m \o x
    BY <1>1, <2>1
  <2>3. j \in 1..Len(b) /\ b[j].name = m \o x
    BY <1>2, <1>4, <2>1
  <2>4. ASSUME bodies[x] # NoBody, NEW i \in 1..Len(b), b[i].name = m \o x PROVE b[i].how = "proof"
    <3>1. i # Len(env) + 1
      BY <1>2, <2>2, <2>4
    <3>2. i \in 1..Len(env) /\ b[i] = env[i]
      BY <1>2, <1>4, <3>1
    <3> QED BY <2>4, <3>2 DEF Shown
  <2> QED BY <2>3, <2>4
<1>6. /\ \E i \in 1..Len(b) : b[i].name = m \o n
      /\ bodies[n] # NoBody => \A i \in 1..Len(b) : b[i].name = m \o n => b[i].how = "proof"
  <2>1. Len(env) + 1 \in 1..Len(b) /\ b[Len(env) + 1].name = m \o n
    BY <1>2, <1>4
  <2>2. ASSUME bodies[n] # NoBody, NEW i \in 1..Len(b), b[i].name = m \o n PROVE b[i].how = "proof"
    <3>1. i \notin 1..Len(env)
      BY <1>1, <1>2, <2>2
    <3>2. b[i] = e
      BY <1>2, <1>4, <3>1
    <3> QED BY <2>2, <3>2
  <2> QED BY <2>1, <2>2
<1>7. Shown(b, m, Append(u, n), bodies)
  BY <1>3, <1>5, <1>6 DEF Shown
<1> QED BY <1>7 DEF b

\* The obligations follow what was stated, in the order of the plan.
Follows(st, d, u, bodies) ==
    /\ StateOK(d) /\ d.proofs = <<>> /\ Shown(d.env, st.mods, u, bodies)
    /\ Outline(d) = Record(Stated(st.env) \o Listing(st.mods, u), <<>>, st.mods, st.nested, st.ambient)

\* Every plan: by induction on its length, one obligation at a time.
LEMMA NodesGo ==
    ASSUME NEW I \in SUBSET (Path \ {None}), NEW bodies \in [I -> Seq(Line)],
           \A n \in I : bodies[n] # NoBody => Violations(bodies[n]) = {}, NEW st, StateOK(st), st.proofs = <<>>
    PROVE  \A u \in Seq(I) : LET x == Each(RenderAll(bodies), u)
                             IN  /\ x \in Seq(Line) /\ Ended(Lex(x))
                                 /\ ~Compile(st, Lex(x)).err => Follows(st, Compile(st, Lex(x)), u, bodies)
<1> DEFINE part == RenderAll(bodies)
           Good(u) == /\ Each(part, u) \in Seq(Line) /\ Ended(Lex(Each(part, u)))
                      /\ ~Compile(st, Lex(Each(part, u))).err => Follows(st, Compile(st, Lex(Each(part, u))), u, bodies)
           U == {u \in Seq(I) : Good(u)}
<1>0. /\ part \in [I -> Seq(Line)]
      /\ \A n \in I : Lex(part[n]) = Rendered(n, "", bodies[n]) /\ Ended(Lex(part[n]))
  <2>1. ASSUME NEW n \in I
        PROVE  part[n] \in Seq(Line) /\ Lex(part[n]) = Rendered(n, "", bodies[n]) /\ Ended(Lex(part[n]))
    <3>1. n \in Path /\ "" \in Wording /\ bodies[n] \in Seq(Line)
      BY SourceAssumption
    <3>2. part[n] = Render([name |-> n, t |-> "", body |-> bodies[n]])
      BY DEF RenderAll
    <3> HIDE DEF part
    <3> QED BY <3>1, <3>2, RenderLexed
  <2>2. part = [n \in I |-> part[n]]
    BY DEF RenderAll
  <2> HIDE DEF part
  <2> QED BY <2>1, <2>2
<1> HIDE DEF part
<1>1. st.env \in Seq(Constant) /\ st.mods \in Path /\ Stated(st.env) \in Seq(Label)
  BY StatedIs DEF StateOK
<1>2. <<>> \in U
  <2>1. Each(part, <<>>) = <<>> /\ Lex(<<>>) = <<>> /\ Compile(st, <<>>) = st /\ <<>> \in Seq(Line) /\ Ended(<<>>)
    BY <1>0, EachMore, LexMore, CompileMore, EmptySeq DEF Ended, EachIs
  <2>2. Stated(st.env) \o Listing(st.mods, <<>>) = Stated(st.env)
    BY <1>1, ListingMore, ConcatEmptySeq
  <2>3. Shown(st.env, st.mods, <<>>, bodies)
    BY ToSetMore DEF Shown
  <2>4. Outline(st) = Record(Stated(st.env), <<>>, st.mods, st.nested, st.ambient)
    BY NoLabels DEF Outline
  <2>5. Follows(st, st, <<>>, bodies)
    BY <2>2, <2>3, <2>4 DEF Follows
  <2> QED BY <2>1, <2>5, EmptySeq
<1>3. ASSUME NEW u \in Seq(I), NEW n \in I, u \in U PROVE Append(u, n) \in U
  <2> DEFINE x == Each(part, u)
             y == part[n]
             m == Compile(st, Lex(x))
             d == Compile(st, Lex(x \o y))
             how == IF bodies[n] = NoBody THEN "axiom" ELSE "proof"
             z == <<st.mods \o n, "">>
  <2>1. Each(part, Append(u, n)) = x \o y
    <3>1. \A v \in Seq(I), k \in I : Each(part, Append(v, k)) = Each(part, v) \o part[k]
      <4>1. part \in [I -> Seq(Line)]
        BY <1>0
      <4>2. EachIs(I, Line, part)
        BY <4>1, EachMore
      <4> QED BY <4>2, Zenon DEF EachIs
    <3> QED BY <3>1, Zenon
  <2>2. /\ x \in Seq(Line) /\ Ended(Lex(x)) /\ (~m.err => Follows(st, m, u, bodies)) /\ y \in Seq(Line) /\ Ended(Lex(y))
        /\ Lex(y) = Rendered(n, "", bodies[n])
    BY <1>0, <1>3
  <2> HIDE DEF x, y
  <2>3. Lex(x \o y) = Lex(x) \o Lex(y) /\ x \o y \in Seq(Line) /\ Lex(x) \in Seq(Line) /\ Lex(y) \in Seq(Line)
    BY <2>2, LexJoined, LexType
  <2>4. Ended(Lex(x \o y))
    BY <2>2, <2>3, EndedJoined
  <2>5. d = Compile(m, Lex(y)) /\ StateOK(m)
    BY <2>3, CompileJoined, CompileOK
  <2> HIDE DEF m
  <2>6. ASSUME ~d.err PROVE Follows(st, d, Append(u, n), bodies)
    <3>1. ~m.err
      BY <2>3, <2>5, <2>6, ErrorsStay
    <3>2. Follows(st, m, u, bodies)
      BY <2>2, <3>1
    <3>3. m.proofs = <<>> /\ n \in Path /\ n # None /\ "" \in Wording /\ bodies[n] \in Seq(Line)
      BY <3>2, SourceAssumption DEF Follows
    <3>4. d = Compile(m, Rendered(n, "", bodies[n]))
      BY <2>2, <2>5
    <3> HIDE DEF d
    <3>5. Adds(m, d, n, "", how)
      <4>1. ~Compile(m, Rendered(n, "", bodies[n])).err
        BY <2>6, <3>4
      <4>2. bodies[n] # NoBody => Violations(bodies[n]) = {}
        OBVIOUS
      <4>3. Adds(m, Compile(m, Rendered(n, "", bodies[n])), n, "", IF bodies[n] = NoBody THEN "axiom" ELSE "proof")
        BY <2>5, <3>3, <4>1, <4>2, BlockGoes
      <4> QED BY <3>4, <4>3
    <3> HIDE DEF how
    <3>6. /\ Stated(m.env) = Stated(st.env) \o Listing(st.mods, u) /\ m.mods = st.mods /\ m.nested = st.nested
          /\ m.ambient = st.ambient
      <4> DEFINE s == Stated(st.env) \o Listing(st.mods, u)
      <4>1. Outline(m) = Record(s, <<>>, st.mods, st.nested, st.ambient)
        BY <3>2 DEF Follows
      <4> HIDE DEF s
      <4>2. Stated(m.env) = s /\ m.mods = st.mods /\ m.nested = st.nested /\ m.ambient = st.ambient
        BY <4>1, OutlineWas
      <4> QED BY <4>2 DEF s
    <3>7. u \in Seq(Path)
      OBVIOUS
    <3>8. Append(Stated(m.env), z) = Stated(st.env) \o Listing(st.mods, Append(u, n))
      <4>1. Listing(st.mods, u) \in Seq(Label) /\ Listing(st.mods, Append(u, n)) = Append(Listing(st.mods, u), z)
        BY <1>1, <3>3, <3>7, ListingMore
      <4>2. z \in Label
        <5>1. st.mods \o n \in Path
          BY <1>1, <3>3, ConcatProperties DEF Path
        <5> QED BY <3>3, <5>1 DEF Label
      <4> HIDE DEF z
      <4>3. Stated(st.env) \o Append(Listing(st.mods, u), z) = Append(Stated(st.env) \o Listing(st.mods, u), z)
        BY <1>1, <4>1, <4>2, AppendJoined
      <4> QED BY <3>6, <4>1, <4>3
    <3>9. Outline(d) = Record(Stated(st.env) \o Listing(st.mods, Append(u, n)), <<>>, st.mods, st.nested, st.ambient)
      BY <3>5, <3>6, <3>8 DEF Adds
    <3>10. Shown(d.env, st.mods, Append(u, n), bodies)
      <4>1. PICK e \in Constant : /\ d.env = Append(m.env, e) /\ e.name = m.mods \o n /\ e.how = how
                                  /\ \A i \in DOMAIN m.env : m.env[i].name # e.name
        BY <3>3, <3>5 DEF Adds
      <4>2. m.env \in Seq(Constant) /\ I \in SUBSET Path
        BY <2>5 DEF StateOK
      <4>3. Shown(m.env, st.mods, u, bodies) /\ e.name = st.mods \o n /\ (bodies[n] # NoBody => e.how = "proof")
        BY <3>2, <3>6, <4>1 DEF Follows, how
      <4>4. Shown(Append(m.env, e), st.mods, Append(u, n), bodies)
        BY <1>1, <4>1, <4>2, <4>3, ShownMore
      <4> QED BY <4>1, <4>4
    <3> QED BY <3>5, <3>9, <3>10 DEF Follows, Adds
  <2>7. Good(Append(u, n))
    BY <2>1, <2>3, <2>4, <2>6
  <2> QED BY <2>7, Appending
<1> HIDE DEF U
<1>4. Seq(I) \subseteq U
  BY <1>2, <1>3, FromEmpty
<1> QED BY <1>4 DEF U, part

-----------------------------------------------------------------------------
(* What the assembly puts before the obligations *)

\* Sentences that have ended.
Flat == {s \in Line : s.k \notin {"open", "comment"}}

\* A part of a sequence is one.
LEMMA PartOf ==
    ASSUME NEW T, NEW s \in Seq(T), NEW a \in 1..(Len(s) + 1), NEW b \in 0..Len(s)
    PROVE  SubSeq(s, a, b) \in Seq(T)
<1>1. Len(s) \in Nat /\ a \in Int /\ b \in Int /\ \A i \in a..b : i \in 1..Len(s)
  BY LenProperties
<1>2. \A i \in a..b : s[i] \in T
  BY <1>1, ElementOfSeq
<1> QED BY <1>1, <1>2, SubSeqProperties

\* The first place of a kind, or the place after the last.
LEMMA FirstPlace ==
    ASSUME NEW h \in Nat, NEW Q
    PROVE  \E j \in 1..(h + 1) : (j = h + 1 \/ j \in Q) /\ \A k \in 1..(j - 1) : k \notin Q
<1> DEFINE V == {n \in Nat : (\E j \in 1..n : j \in Q /\ \A k \in 1..(j - 1) : k \notin Q) \/ \A k \in 1..n : k \notin Q}
<1>1. 0 \in V
  OBVIOUS
<1>2. ASSUME NEW n \in Nat, n \in V PROVE n + 1 \in V
  <2>1. CASE \E j \in 1..n : j \in Q /\ \A k \in 1..(j - 1) : k \notin Q
    BY <2>1
  <2>2. CASE \A k \in 1..n : k \notin Q
    <3>1. CASE n + 1 \in Q
      <4>1. n + 1 \in 1..(n + 1) /\ \A k \in 1..((n + 1) - 1) : k \notin Q
        BY <2>2
      <4> QED BY <3>1, <4>1
    <3>2. CASE n + 1 \notin Q
      <4>1. \A k \in 1..(n + 1) : k \notin Q
        BY <2>2, <3>2
      <4> QED BY <4>1
    <3> QED BY <3>1, <3>2
  <2> QED BY <1>2, <2>1, <2>2
<1> HIDE DEF V
<1>3. h \in V
  BY <1>1, <1>2, FromZero
<1>4. CASE \E j \in 1..h : j \in Q /\ \A k \in 1..(j - 1) : k \notin Q
  BY <1>4
<1>5. CASE \A k \in 1..h : k \notin Q
  <2>1. h + 1 \in 1..(h + 1) /\ \A k \in 1..((h + 1) - 1) : k \notin Q
    BY <1>5
  <2> QED BY <2>1
<1> QED BY <1>3, <1>4, <1>5 DEF V

\* The directive goes in between two sentences.
LEMMA InsertedIs ==
    ASSUME NEW s \in Seq(Line), NEW x
    PROVE  \E last \in 0..Len(s) : InsertPreamble(s, x) = SubSeq(s, 1, last) \o <<x>> \o SubSeq(s, last + 1, Len(s))
<1> DEFINE Q == {i \in 1..Len(s) : s[i].k = "module"}
           stop == CHOOSE j \in 1..(Len(s) + 1) : (j = Len(s) + 1 \/ s[j].k = "module") /\ \A k \in 1..(j - 1) : ~(s[k].k = "module")
           reqs == {i \in 1..(stop - 1) : s[i].k = "require"}
           last == IF reqs = {} THEN 0 ELSE CHOOSE i \in reqs : \A j \in reqs : j <= i
<1>1. Len(s) \in Nat
  BY LenProperties
<1>2. stop \in 1..(Len(s) + 1)
  <2>1. \E j \in 1..(Len(s) + 1) : (j = Len(s) + 1 \/ j \in Q) /\ \A k \in 1..(j - 1) : k \notin Q
    <3> HIDE DEF Q
    <3> QED BY <1>1, FirstPlace
  <2>2. \E j \in 1..(Len(s) + 1) : (j = Len(s) + 1 \/ s[j].k = "module") /\ \A k \in 1..(j - 1) : ~(s[k].k = "module")
    BY <1>1, <2>1
  <2> QED BY <2>2
<1>4. InsertPreamble(s, x) = SubSeq(s, 1, last) \o <<x>> \o SubSeq(s, last + 1, Len(s))
  BY DEF InsertPreamble, Least
<1> HIDE DEF stop
<1>5. reqs \in SUBSET (1..Len(s))
  BY <1>1, <1>2
<1> HIDE DEF reqs
<1>6. last \in 0..Len(s)
  <2>1. CASE reqs = {}
    BY <1>1, <2>1
  <2>2. CASE reqs # {}
    <3>1. \E i \in reqs : \A j \in reqs : j <= i
      BY <1>1, <1>5, <2>2, LastPlace
    <3>2. last \in reqs
      BY <2>2, <3>1
    <3> HIDE DEF last
    <3>3. last \in 1..Len(s)
      BY <1>5, <3>2
    <3> QED BY <1>1, <3>3
  <2> QED BY <2>1, <2>2
<1> HIDE DEF last
<1> QED BY <1>4, <1>6

\* And changes nothing.
LEMMA DirectiveGoes ==
    ASSUME NEW s \in Seq(Flat)
    PROVE  WithDirective(s) \in Seq(Flat) /\ \A st : Compile(st, WithDirective(s)) = Compile(st, s)
<1> DEFINE x == S("directive", None, "")
           d == InsertPreamble(s, x)
<1>1. x \in Line /\ x.k = "directive" /\ Ran(x) = x /\ x \in Flat
  <2>1. "directive" \in Kind /\ "directive" # "wrap" /\ None \in Path /\ "" \in Wording
    BY SourceAssumption, EmptySeq DEF Kind, None, Path
  <2>2. Plainly(x, "directive", None, "")
    BY <2>1, Sentences
  <2> QED BY <2>2 DEF Plainly, Flat
<1>2. WithDirective(s) = s \/ WithDirective(s) = d
  BY DEF WithDirective
<1>3. s \in Seq(Line) /\ Len(s) \in Nat
  BY LenProperties DEF Flat
<1>4. PICK last \in 0..Len(s) : d = SubSeq(s, 1, last) \o <<x>> \o SubSeq(s, last + 1, Len(s))
  BY <1>3, InsertedIs
<1> DEFINE a == SubSeq(s, 1, last)
           b == SubSeq(s, last + 1, Len(s))
<1>5. a \in Seq(Flat) /\ b \in Seq(Flat) /\ a \o b = s
  <2>1. 1 \in 1..(Len(s) + 1) /\ last \in 0..Len(s) /\ last + 1 \in 1..(Len(s) + 1) /\ Len(s) \in 0..Len(s)
    BY <1>3
  <2>2. a \in Seq(Flat) /\ b \in Seq(Flat)
    BY <2>1, PartOf
  <2>3. last \in (1 - 1)..Len(s) /\ Len(s) \in last..Len(s)
    BY <1>3
  <2>4. SubSeq(s, 1, last) \o SubSeq(s, last + 1, Len(s)) = SubSeq(s, 1, Len(s))
    BY <1>3, <2>1, <2>3, ConcatAdjacentSubSeq
  <2>5. SubSeq(s, 1, Len(s)) = s
    BY <1>3, SubSeqFull
  <2> QED BY <2>2, <2>4, <2>5
<1> HIDE DEF x, d
<1>6. d = (a \o <<x>>) \o b
  BY <1>4
<1> HIDE DEF a, b
<1>7. <<x>> \in Seq(Flat) /\ a \o <<x>> \in Seq(Flat) /\ (a \o <<x>>) \o b \in Seq(Flat)
  <2>1. <<x>> \in Seq(Flat)
    BY <1>1
  <2>2. a \o <<x>> \in Seq(Flat)
    BY <1>5, <2>1, ConcatProperties
  <2> QED BY <1>5, <2>1, <2>2, ConcatProperties
<1>8. Seq(Flat) \subseteq Seq(Line)
  BY DEF Flat
<1>9. ASSUME NEW st PROVE Compile(st, d) = Compile(st, s)
  <2>1. Compile(st, (a \o <<x>>) \o b) = Compile(Compile(st, a \o <<x>>), b)
    BY <1>5, <1>7, <1>8, CompileJoined
  <2>2. Compile(st, a \o <<x>>) = Step(Compile(st, a), x)
    <3>1. Append(a, x) = a \o <<x>>
      BY <1>1, <1>5, <1>8, Appending
    <3>2. Compile(st, Append(a, x)) = Step(Compile(st, a), x)
      BY <1>1, <1>5, <1>8, CompileMore
    <3> QED BY <3>1, <3>2
  <2>3. Step(Compile(st, a), x) = Compile(st, a)
    <3>1. \A c : Sentence(c, x) = c
      BY <1>1 DEF Sentence
    <3> QED BY <1>1, <3>1 DEF Step, Ran
  <2>4. Compile(st, a \o b) = Compile(Compile(st, a), b)
    BY <1>5, <1>8, CompileJoined
  <2> QED BY <1>5, <1>6, <2>1, <2>2, <2>3, <2>4
<1> QED BY <1>2, <1>6, <1>7, <1>9 DEF d

\* A text whose proofs are stubbed is made of its own sentences.
LEMMA StubbedIs == ASSUME NEW s \in Seq(Flat) PROVE StubProofBodies(s) \in Seq(Flat)
<1> DEFINE bs == StubbedBlocks(s)
           a == S("admitted", None, "")
           f == StubSentences(s, bs)
<1>1. a \in Flat
  <2>1. "admitted" \in Kind /\ "admitted" # "wrap" /\ None \in Path /\ "" \in Wording
    BY SourceAssumption, EmptySeq DEF Kind, None, Path
  <2>2. Plainly(a, "admitted", None, "")
    BY <2>1, Sentences
  <2> QED BY <2>2 DEF Plainly, Flat
<1> HIDE DEF bs
<1>2. Len(s) \in Nat /\ DOMAIN s = 1..Len(s) /\ \A i \in 1..Len(s) : s[i] \in Flat
  BY LenProperties, ElementOfSeq
<1>3. f = [i \in 1..Len(s) |->
              CASE \E b \in bs : i \in b.from..(b.end - 2) -> <<>>
                [] \E b \in bs : i = b.end - 1 -> <<a>>
                [] OTHER -> <<s[i]>>]
  BY <1>2 DEF StubSentences
<1> HIDE DEF a, f
<1>4. \A i \in 1..Len(s) : f[i] \in Seq(Flat)
  <2>1. <<>> \in Seq(Flat) /\ <<a>> \in Seq(Flat) /\ \A i \in 1..Len(s) : <<s[i]>> \in Seq(Flat)
    BY <1>1, <1>2, OneLine
  <2> DEFINE P(i) == \E b \in bs : i \in b.from..(b.end - 2)
             R(i) == \E b \in bs : i = b.end - 1
  <2>2. \A i \in 1..Len(s) : f[i] = CASE P(i) -> <<>> [] R(i) -> <<a>> [] OTHER -> <<s[i]>>
    BY <1>3
  <2> HIDE DEF P, R
  <2> QED BY <2>1, <2>2
<1>5. f = [i \in 1..Len(s) |-> f[i]]
  BY <1>3
<1>6. f \in Seq(Seq(Flat))
  BY <1>2, <1>4, <1>5, IsASeq
<1>7. FlattenSeq(f) \in Seq(Flat)
  BY <1>6, FlattenType
<1> QED BY <1>7 DEF StubProofBodies, f, bs

-----------------------------------------------------------------------------
(* The parts of an assembly *)

\* The frozen file and its parts are of sentences that have ended.
LEMMA SourceParts == Kept \in Seq(Flat) /\ After \in Seq(Flat) /\ Source \in Seq(Flat) /\ SubSeq(Source, 1, AnchorBlock.end - 1) \in Seq(Flat)
<1>1. Source \in Seq(Line) /\ Len(Source) \in Nat /\ DOMAIN Source = 1..Len(Source)
  BY SourceAssumption, LenProperties
<1>2. \A i \in 1..Len(Source) : Source[i] \in Flat
  BY <1>1, FrozenAssumption, ElementOfSeq DEF Flat
<1>3. Source \in Seq(Flat)
  <2>1. [i \in 1..Len(Source) |-> Source[i]] \in Seq(Flat)
    BY <1>1, <1>2, IsASeq
  <2>2. Source = [i \in 1..Len(Source) |-> Source[i]]
    BY <1>1, LenProperties
  <2> QED BY <2>1, <2>2
<1> DEFINE a == AnchorBlock.at
           e == AnchorBlock.end
<1>4. a \in 1..Len(Source) /\ e \in (a + 1)..(Len(Source) + 1)
  BY FrozenAssumption
<1> HIDE DEF a, e
<1>5. /\ 1 \in 1..(Len(Source) + 1) /\ a - 1 \in 0..Len(Source) /\ e \in 1..(Len(Source) + 1) /\ e - 1 \in 0..Len(Source)
      /\ Len(Source) \in 0..Len(Source)
  BY <1>1, <1>4
<1>6. SubSeq(Source, 1, a - 1) \in Seq(Flat) /\ SubSeq(Source, e, Len(Source)) \in Seq(Flat) /\ SubSeq(Source, 1, e - 1) \in Seq(Flat)
  BY <1>3, <1>5, PartOf
<1> QED BY <1>3, <1>6 DEF Kept, After, a, e

\* Such texts are lexed as they are.
LEMMA FlatText == \A s \in Seq(Flat) : s \in Seq(Line) /\ Lex(s) = s /\ Ended(s)
<1>1. Flat \in SUBSET Line /\ \A s \in Flat : s.k \notin {"open", "comment"}
  BY DEF Flat
<1> QED BY <1>1, LexFlat

\* What Rocq reads is what the lexer makes of a text; what it cannot finish leaves what it declared.
LEMMA RocqIs ==
    ASSUME NEW text
    PROVE  /\ Rocq(text).env = Compile(Begun, Lex(text)).env /\ Rocq(text).ambient = Compile(Begun, Lex(text)).ambient
           /\ Rocq(text).nested = Compile(Begun, Lex(text)).nested
           /\ Compile(Begun, Lex(text)).err => Rocq(text).err
<1> DEFINE c == Compile(Begun, Lex(text))
<1>1. Rocq(text) = IF Proving(c) \/ c.mods # <<>> THEN Rejected(c) ELSE c
  BY DEF Rocq
<1> HIDE DEF c
<1>2. Rejected(c).env = c.env /\ Rejected(c).ambient = c.ambient /\ Rejected(c).nested = c.nested /\ (c.err => Rejected(c).err)
  BY DEF Rejected
<1>3. /\ Rocq(text).env = c.env /\ Rocq(text).ambient = c.ambient /\ Rocq(text).nested = c.nested
      /\ c.err => Rocq(text).err
  BY <1>1, <1>2
<1> QED BY <1>3 DEF c

\* The state before the first sentence.
LEMMA BegunOK == StateOK(Begun) /\ Begun.proofs = <<>>
<1>1. <<>> \in Seq(Constant) /\ <<>> \in Seq(OpenProof) /\ <<>> \in Path
  BY EmptySeq DEF Path
<1> QED BY <1>1 DEF Begun, StateOK

\* What the obligations are put after: the file up to the anchor, stubbed or not.
Base(b) == Compile(Begun, Preamble[b])

\* It states what the frozen file states before the anchor, whether it is stubbed or not.
LEMMA BaseIs ==
    ASSUME NEW b \in BOOLEAN
    PROVE  /\ Preamble[b] \in Seq(Flat) /\ StateOK(Base(b)) /\ Base(b).proofs = <<>> /\ Base(b).mods = AnchorBlock.modules
           /\ Stated(Base(b).env) = Stated(Before) /\ Base(b).nested = Rocq(Kept).nested /\ Base(b).ambient = Rocq(Kept).ambient
<1> DEFINE s == IF b THEN StubbedKept ELSE Kept
<1>1. s \in Seq(Flat)
  BY SourceParts, StubbedIs DEF StubbedKept
<1>2. Preamble[b] = WithDirective(s)
  BY DEF Preamble
<1>3. Settled(Compile(Begun, s), Stated(Before))
  BY FrozenAssumption
<1> HIDE DEF s
<1>4. Preamble[b] \in Seq(Flat) /\ Base(b) = Compile(Begun, s)
  BY <1>1, <1>2, DirectiveGoes DEF Base
<1>5. StateOK(Base(b))
  BY <1>4, BegunOK, FlatText, CompileOK DEF Base
<1> QED BY <1>3, <1>4, <1>5 DEF Settled

\* The modules open at the anchor are ended by End sentences.
LEMMA EndsAre ==
    AnchorBlock.modules \in Path
        => LET E == {s \in Flat : s.k = "end"} IN Ends \in Seq(E)
<1> SUFFICES ASSUME AnchorBlock.modules \in Path PROVE Ends \in Seq({s \in Flat : s.k = "end"})
  OBVIOUS
<1> DEFINE m == AnchorBlock.modules
           E == {s \in Flat : s.k = "end"}
           f == Ends
<1>1. Len(m) \in Nat /\ DOMAIN m = 1..Len(m) /\ \A i \in 1..Len(m) : m[i] \in Ident
  BY LenProperties, ElementOfSeq DEF Path
<1>2. Ends = [i \in 1..Len(m) |-> S("end", <<m[Len(m) + 1 - i]>>, "")]
  BY <1>1 DEF Ends
<1> HIDE DEF m
<1>3. ASSUME NEW i \in 1..Len(m) PROVE S("end", <<m[Len(m) + 1 - i]>>, "") \in E
  <2>1. Len(m) + 1 - i \in 1..Len(m)
    BY <1>1
  <2>2. m[Len(m) + 1 - i] \in Ident
    BY <1>1, <2>1
  <2>3. <<m[Len(m) + 1 - i]>> \in Path
    <3>1. \A x \in Ident : <<x>> \in Seq(Ident)
      BY OneLine
    <3> QED BY <2>2, <3>1 DEF Path
  <2>4. "end" \in Kind /\ "end" # "wrap" /\ "" \in Wording
    BY SourceAssumption DEF Kind
  <2> DEFINE n == <<m[Len(m) + 1 - i]>>
  <2> HIDE DEF n
  <2>5. Plainly(S("end", n, ""), "end", n, "")
    <3>1. n \in Path
      BY <2>3 DEF n
    <3> QED BY <2>4, <3>1, Sentences
  <2>6. S("end", n, "") \in E
    BY <2>5 DEF Plainly, Flat
  <2> QED BY <2>6 DEF n
<1> HIDE DEF E, f
<1>4. \A i \in 1..Len(m) : f[i] \in E
  BY <1>2, <1>3 DEF f
<1>5. f = [i \in 1..Len(m) |-> f[i]]
  BY <1>2 DEF f
<1>6. f \in Seq(E)
  BY <1>1, <1>4, <1>5, IsASeq
<1> QED BY <1>6 DEF E, f

\* The trailer is of sentences that have ended.
LEMMA TrailerIs == ASSUME NEW names \in Seq(Path) PROVE Trailer(names) \in Seq(Flat)
<1> DEFINE f == [i \in DOMAIN names |-> <<S("locate", names[i], ""), S("print", names[i], "")>>]
<1>1. Len(names) \in Nat /\ DOMAIN names = 1..Len(names) /\ \A i \in 1..Len(names) : names[i] \in Path
  BY LenProperties, ElementOfSeq
<1>2. ASSUME NEW n \in Path PROVE <<S("locate", n, ""), S("print", n, "")>> \in Seq(Flat)
  <2>1. "locate" \in Kind /\ "print" \in Kind /\ "locate" # "wrap" /\ "print" # "wrap" /\ "" \in Wording
    BY SourceAssumption DEF Kind
  <2>2. Plainly(S("locate", n, ""), "locate", n, "") /\ Plainly(S("print", n, ""), "print", n, "")
    BY <2>1, Sentences
  <2>3. S("locate", n, "") \in Flat /\ S("print", n, "") \in Flat
    BY <2>2 DEF Plainly, Flat
  <2> QED BY <2>3, OneLine
<1>3. f = [i \in 1..Len(names) |-> f[i]] /\ \A i \in 1..Len(names) : f[i] \in Seq(Flat)
  BY <1>1, <1>2
<1> HIDE DEF f
<1>4. f \in Seq(Seq(Flat))
  BY <1>1, <1>3, IsASeq
<1>5. FlattenSeq(f) \in Seq(Flat)
  BY <1>4, FlattenType
<1> QED BY <1>5 DEF Trailer, f

\* Sentences that end modules declare nothing.
LEMMA EndsText ==
    ASSUME NEW st, StateOK(st), NEW T \in SUBSET Line, \A s \in T : s.k = "end",
           NEW text \in Seq(T), ~Compile(st, text).err
    PROVE  Stated(Compile(st, text).env) = Stated(st.env) /\ Compile(st, text).ambient = st.ambient
<1> DEFINE U == {s \in Seq(T) : /\ s \in Seq(Line)
                                /\ ~Compile(st, s).err => /\ Stated(Compile(st, s).env) = Stated(st.env)
                                                          /\ Compile(st, s).ambient = st.ambient}
<1>1. <<>> \in U
  BY CompileMore, EmptySeq
<1>2. ASSUME NEW s \in Seq(T), NEW e \in T, s \in U, ~Compile(st, Append(s, e)).err
      PROVE  Stated(Compile(st, Append(s, e)).env) = Stated(st.env) /\ Compile(st, Append(s, e)).ambient = st.ambient
  <2> DEFINE m == Compile(st, s)
             d == Compile(st, Append(s, e))
  <2>1. s \in Seq(Line) /\ e \in Line /\ e.k = "end" /\ Ran(e) = e
    BY <1>2 DEF Ran
  <2>2. StateOK(m) /\ ~m.err /\ d = Sentence(m, e) /\ Goes(m, Sentence(m, e), e)
    BY <1>2, <2>1, NoErrorBefore
  <2>3. Stated(m.env) = Stated(st.env) /\ m.ambient = st.ambient
    BY <1>2, <2>2
  <2>4. Outline(d) = Drawn(Outline(m), e)
    BY <1>2, <2>2 DEF Goes
  <2> HIDE DEF m, d
  <2>5. Drawn(Outline(m), e) = Record(Stated(m.env), Labels(m.proofs), Front(m.mods), m.nested, m.ambient)
    BY <2>1, OutlineFields DEF Drawn
  <2>6. Stated(d.env) = Stated(m.env) /\ d.ambient = m.ambient
    BY <2>4, <2>5, OutlineWas
  <2> QED BY <2>3, <2>6 DEF d
<1>3. ASSUME NEW s \in Seq(T), NEW e \in T, s \in U PROVE Append(s, e) \in U
  <2>1. Append(s, e) \in Seq(T)
    BY Appending
  <2>2. s \in Seq(Line) /\ e \in Line
    BY <1>3
  <2>3. Append(s, e) \in Seq(Line)
    BY <2>2, LinesAppended
  <2> QED BY <1>2, <1>3, <2>1, <2>3
<1> HIDE DEF U
<1>4. Seq(T) \subseteq U
  BY <1>1, <1>3, FromEmpty
<1> QED BY <1>4 DEF U

-----------------------------------------------------------------------------
(* An assembly, read and compiled *)

\* The obligations' names, the root among them.
Goals == ToSet(Obligations)

\* The plan and the root, as the names the bodies are kept by.
LEMMA ObligationsAre ==
    Goals \in SUBSET (Path \ {None}) /\ Plan \in Seq(Goals) /\ Anchor \in Goals /\ Obligations = Append(Plan, Anchor) /\ Obligations \in Seq(Goals)
<1> DEFINE P == Path \ {None}
<1>1. Plan \in Seq(P) /\ Anchor \in P
  BY SourceAssumption, PlanAssumption
<1> HIDE DEF P
<1>2. ToSet(Append(Plan, Anchor)) = ToSet(Plan) \cup {Anchor} /\ ToSet(Plan) \subseteq P
  BY <1>1, ToSetMore
<1>3. Goals = ToSet(Plan) \cup {Anchor} /\ Goals \in SUBSET P /\ Anchor \in Goals
  BY <1>1, <1>2 DEF Goals, Obligations
<1>4. Plan \in Seq(Goals)
  <2>1. Len(Plan) \in Nat /\ DOMAIN Plan = 1..Len(Plan) /\ Plan = [i \in 1..Len(Plan) |-> Plan[i]]
    BY <1>1, LenProperties
  <2>2. \A i \in 1..Len(Plan) : Plan[i] \in Goals
    BY <1>3, <2>1 DEF ToSet
  <2>3. [i \in 1..Len(Plan) |-> Plan[i]] \in Seq(Goals)
    BY <2>1, <2>2, IsASeq
  <2> QED BY <2>1, <2>3
<1>5. Append(Plan, Anchor) \in Seq(Goals)
  BY <1>3, <1>4, Appending
<1> QED BY <1>3, <1>4, <1>5 DEF Obligations, P

\* The obligations of an assembly, rendered, and what comes after them.
Listed(bodies) == Each(RenderAll(bodies), Obligations)
Rest(truncate) == IF truncate THEN Ends ELSE After

\* Every obligation is rendered as sentences.
LEMMA RenderAllIs ==
    ASSUME NEW bodies \in [Goals -> Seq(Line)]
    PROVE  RenderAll(bodies) \in [Goals -> Seq(Line)]
<1>1. ASSUME NEW n \in Goals PROVE Render([name |-> n, t |-> "", body |-> bodies[n]]) \in Seq(Line)
  <2>1. n \in Path /\ bodies[n] \in Seq(Line) /\ "" \in Wording
    BY ObligationsAre, SourceAssumption
  <2>2. /\ "lemma" \in Kind /\ "proof" \in Kind /\ "qed" \in Kind /\ "admitted" \in Kind
        /\ "lemma" # "wrap" /\ "proof" # "wrap" /\ "qed" # "wrap" /\ "admitted" # "wrap" /\ None \in Path
    BY EmptySeq DEF Kind, None, Path
  <2> DEFINE l == S("lemma", n, "")
             p == S("proof", None, "")
             a == S("admitted", None, "")
             q == S("qed", None, "")
             spec == [name |-> n, t |-> "", body |-> bodies[n]]
  <2>3. l \in Line /\ p \in Line /\ a \in Line /\ q \in Line
    <3>1. Plainly(l, "lemma", n, "") /\ Plainly(p, "proof", None, "") /\ Plainly(a, "admitted", None, "") /\ Plainly(q, "qed", None, "")
      BY <2>1, <2>2, Sentences
    <3> QED BY <3>1 DEF Plainly
  <2>4. Render(spec) = <<l, p>> \o (IF bodies[n] = NoBody THEN <<a>> ELSE bodies[n] \o <<q>>)
    BY DEF Render
  <2> HIDE DEF l, p, a, q, spec
  <2>5. <<l, p>> \in Seq(Line) /\ <<a>> \in Seq(Line) /\ <<q>> \in Seq(Line)
    BY <2>3, OneLine
  <2>6. bodies[n] \o <<q>> \in Seq(Line)
    BY <2>1, <2>5, ConcatProperties
  <2>7. (IF bodies[n] = NoBody THEN <<a>> ELSE bodies[n] \o <<q>>) \in Seq(Line)
    BY <2>5, <2>6
  <2>8. <<l, p>> \o (IF bodies[n] = NoBody THEN <<a>> ELSE bodies[n] \o <<q>>) \in Seq(Line)
    <3> DEFINE r == IF bodies[n] = NoBody THEN <<a>> ELSE bodies[n] \o <<q>>
    <3>1. r \in Seq(Line)
      BY <2>7
    <3> HIDE DEF r
    <3>2. <<l, p>> \o r \in Seq(Line)
      BY <2>5, <3>1, ConcatProperties
    <3> QED BY <3>2 DEF r
  <2> QED BY <2>4, <2>8 DEF spec
<1> QED BY <1>1 DEF RenderAll

\* The nodes and the root are rendered alike.
LEMMA AssembledIs ==
    ASSUME NEW bodies \in [Goals -> Seq(Line)], NEW truncate \in BOOLEAN, NEW names
    PROVE  Assembled(bodies, truncate, names) = ((Preamble[truncate] \o Listed(bodies)) \o Rest(truncate)) \o Trailer(names)
<1> DEFINE part == RenderAll(bodies)
           specs == Specs(bodies, Plan)
           root == [name |-> Anchor, t |-> AnchorBlock.statement.t, body |-> bodies[Anchor]]
           f == FlattenSeq([i \in DOMAIN specs |-> Render(specs[i])])
           p == Preamble[truncate]
           r == Render(root)
<1>1. part \in [Goals -> Seq(Line)] /\ Plan \in Seq(Goals) /\ Anchor \in Goals
  BY RenderAllIs, ObligationsAre
<1>2. f = Each(part, Plan)
  <2>1. DOMAIN specs = DOMAIN Plan
    BY DEF Specs
  <2>2. ASSUME NEW i \in DOMAIN Plan PROVE Render(specs[i]) = part[Plan[i]]
    <3>1. specs[i] = [name |-> Plan[i], t |-> "", body |-> bodies[Plan[i]]]
      BY DEF Specs
    <3>2. Plan[i] \in Goals
      BY <1>1, ElementOfSeq, LenProperties
    <3> QED BY <3>1, <3>2 DEF RenderAll
  <2> HIDE DEF specs, part
  <2>3. [i \in DOMAIN specs |-> Render(specs[i])] = [i \in DOMAIN Plan |-> part[Plan[i]]]
    BY <2>1, <2>2
  <2> QED BY <2>3 DEF Each
<1>3. r = part[Anchor]
  BY <1>1, FrozenAssumption DEF RenderAll
<1>4. Assembled(bodies, truncate, names) = (((p \o f) \o r) \o Rest(truncate)) \o Trailer(names)
  BY DEF Assembled, Assemble, Rest
<1> HIDE DEF part, specs, root, f, p, r
<1>5. Each(part, Append(Plan, Anchor)) = Each(part, Plan) \o part[Anchor] /\ Each(part, Plan) \in Seq(Line)
  <2>1. EachIs(Goals, Line, part)
    BY <1>1, EachMore
  <2> QED BY <1>1, <2>1, Zenon DEF EachIs
<1>6. p \in Seq(Line) /\ part[Anchor] \in Seq(Line)
  BY <1>1, BaseIs, FlatText DEF p
<1>7. (p \o f) \o r = p \o Each(part, Append(Plan, Anchor))
  <2>1. f \in Seq(Line) /\ r \in Seq(Line) /\ p \in Seq(Line)
    BY <1>2, <1>3, <1>5, <1>6
  <2>2. (p \o f) \o r = p \o (f \o r)
    BY <2>1, ConcatAssociative
  <2> QED BY <1>2, <1>3, <1>5, <2>2
<1> QED BY <1>4, <1>7, ObligationsAre DEF Listed, part, p

\* The static checks, of every body there is.
Checked(bodies) == \A n \in Goals : bodies[n] # NoBody => Violations(bodies[n]) = {}

\* An assembly compiles the prefix, the obligations, what follows the root and the trailer in turn.
Nodewise(bodies, truncate) == Compile(Base(truncate), Lex(Listed(bodies)))

\* It is those four parts, compiled one after the other, and the plan is followed.
LEMMA AssemblyCompiles ==
    ASSUME NEW bodies \in [Goals -> Seq(Line)], Checked(bodies), NEW truncate \in BOOLEAN, NEW names \in Seq(Path)
    PROVE  /\ Compile(Begun, Lex(Assembled(bodies, truncate, names))) =
                  Compile(Compile(Nodewise(bodies, truncate), Rest(truncate)), Trailer(names))
           /\ ~Nodewise(bodies, truncate).err => Follows(Base(truncate), Nodewise(bodies, truncate), Obligations, bodies)
           /\ Rest(truncate) \in Seq(Line) /\ Trailer(names) \in Seq(Line) /\ StateOK(Nodewise(bodies, truncate))
<1> DEFINE p == Preamble[truncate]
           x == Listed(bodies)
           r == Rest(truncate)
           t == Trailer(names)
           b == Base(truncate)
<1>1. p \in Seq(Flat) /\ StateOK(b) /\ b.proofs = <<>> /\ b.mods = AnchorBlock.modules
  BY BaseIs
<1>2. r \in Seq(Flat)
  <2>1. AnchorBlock.modules \in Path
    BY <1>1 DEF StateOK
  <2>2. Ends \in Seq(Flat)
    <3>1. Ends \in Seq({s \in Flat : s.k = "end"})
      BY <2>1, EndsAre
    <3> QED BY <3>1
  <2> QED BY <2>2, SourceParts DEF Rest
<1>3. t \in Seq(Flat)
  BY TrailerIs
<1>4. /\ x \in Seq(Line) /\ Ended(Lex(x))
      /\ ~Compile(b, Lex(x)).err => Follows(b, Compile(b, Lex(x)), Obligations, bodies)
  <2> HIDE DEF b
  <2>1. \A n \in Goals : bodies[n] # NoBody => Violations(bodies[n]) = {}
    BY DEF Checked
  <2>2. \A u \in Seq(Goals) : LET y == Each(RenderAll(bodies), u)
                              IN  /\ y \in Seq(Line) /\ Ended(Lex(y))
                                  /\ ~Compile(b, Lex(y)).err => Follows(b, Compile(b, Lex(y)), u, bodies)
    BY <1>1, <2>1, ObligationsAre, NodesGo
  <2> QED BY <2>2, ObligationsAre DEF Listed
<1>5. Assembled(bodies, truncate, names) = ((p \o x) \o r) \o t
  BY AssembledIs
<1>6. b = Compile(Begun, p)
  BY DEF Base
<1>7. Nodewise(bodies, truncate) = Compile(b, Lex(x))
  BY DEF Nodewise
<1> HIDE DEF p, x, r, t, b
<1>8. /\ p \in Seq(Line) /\ Lex(p) = p /\ Ended(p) /\ r \in Seq(Line) /\ Lex(r) = r /\ Ended(r)
      /\ t \in Seq(Line) /\ Lex(t) = t /\ Ended(t) /\ Lex(x) \in Seq(Line)
  BY <1>1, <1>2, <1>3, <1>4, FlatText, LexType
<1>9. Lex(p \o x) = p \o Lex(x) /\ p \o x \in Seq(Line) /\ Ended(Lex(p \o x))
  <2>1. Lex(p \o x) = Lex(p) \o Lex(x) /\ p \o x \in Seq(Line)
    BY <1>4, <1>8, LexJoined
  <2>2. Ended(p \o Lex(x))
    BY <1>4, <1>8, EndedJoined
  <2> QED BY <1>8, <2>1, <2>2
<1>10. Lex((p \o x) \o r) = (p \o Lex(x)) \o r /\ (p \o x) \o r \in Seq(Line) /\ Ended(Lex((p \o x) \o r)) /\ p \o Lex(x) \in Seq(Line)
  <2>1. Lex((p \o x) \o r) = Lex(p \o x) \o Lex(r) /\ (p \o x) \o r \in Seq(Line)
    BY <1>8, <1>9, LexJoined
  <2>2. p \o Lex(x) \in Seq(Line)
    BY <1>8, ConcatProperties
  <2>3. Ended((p \o Lex(x)) \o r)
    BY <1>8, <1>9, <2>2, EndedJoined
  <2> QED BY <1>8, <1>9, <2>1, <2>2, <2>3
<1>11. Lex(((p \o x) \o r) \o t) = ((p \o Lex(x)) \o r) \o t /\ (p \o Lex(x)) \o r \in Seq(Line)
  <2>1. Lex(((p \o x) \o r) \o t) = Lex((p \o x) \o r) \o Lex(t)
    BY <1>8, <1>10, LexJoined
  <2>2. (p \o Lex(x)) \o r \in Seq(Line)
    BY <1>8, <1>10, ConcatProperties
  <2> QED BY <1>8, <1>10, <2>1, <2>2
<1>12. Compile(Begun, ((p \o Lex(x)) \o r) \o t) = Compile(Compile(Compile(b, Lex(x)), r), t)
  <2>1. Compile(Begun, ((p \o Lex(x)) \o r) \o t) = Compile(Compile(Begun, (p \o Lex(x)) \o r), t)
    BY <1>8, <1>11, CompileJoined
  <2>2. Compile(Begun, (p \o Lex(x)) \o r) = Compile(Compile(Begun, p \o Lex(x)), r)
    BY <1>8, <1>10, CompileJoined
  <2>3. Compile(Begun, p \o Lex(x)) = Compile(Compile(Begun, p), Lex(x))
    BY <1>8, CompileJoined
  <2> QED BY <1>6, <2>1, <2>2, <2>3
<1>13. StateOK(Compile(b, Lex(x)))
  BY <1>1, <1>8, CompileOK
<1>14. Compile(Begun, Lex(Assembled(bodies, truncate, names))) = Compile(Compile(Nodewise(bodies, truncate), r), t)
  BY <1>5, <1>7, <1>11, <1>12
<1>15. ~Nodewise(bodies, truncate).err => Follows(b, Nodewise(bodies, truncate), Obligations, bodies)
  BY <1>4, <1>7
<1> QED BY <1>7, <1>8, <1>13, <1>14, <1>15 DEF r, t, b

-----------------------------------------------------------------------------
(* What a text that passed declares *)

\* What is shown of the obligations stays so when declarations of other names are added.
LEMMA ShownLater ==
    ASSUME NEW env \in Seq(Constant), NEW env2 \in Seq(Constant), NEW m, NEW u, NEW bodies, Shown(env, m, u, bodies),
           Len(env) <= Len(env2), \A i \in 1..Len(env) : env2[i] = env[i],
           \A i \in 1..Len(env2), n \in ToSet(u) : i > Len(env) => env2[i].name # m \o n
    PROVE  Shown(env2, m, u, bodies)
<1>1. Len(env) \in Nat /\ Len(env2) \in Nat
  BY LenProperties
<1>2. ASSUME NEW n \in ToSet(u)
      PROVE  /\ \E i \in 1..Len(env2) : env2[i].name = m \o n
             /\ bodies[n] # NoBody => \A i \in 1..Len(env2) : env2[i].name = m \o n => env2[i].how = "proof"
  <2>1. PICK j \in 1..Len(env) : env[j].name = m \o n
    BY DEF Shown
  <2>2. j \in 1..Len(env2) /\ env2[j].name = m \o n
    <3>1. Len(env) <= Len(env2) /\ j \in 1..Len(env)
      BY <2>1
    <3>2. \A x, y \in Nat : x <= y => \A i \in 1..x : i \in 1..y
      OBVIOUS
    <3>3. j \in 1..Len(env2)
      BY <1>1, <3>1, <3>2
    <3>4. env2[j] = env[j]
      BY <3>1
    <3> QED BY <2>1, <3>3, <3>4
  <2>3. ASSUME bodies[n] # NoBody, NEW i \in 1..Len(env2), env2[i].name = m \o n PROVE env2[i].how = "proof"
    <3>1. ~(i > Len(env))
      BY <2>3
    <3>2. i \in 1..Len(env)
      BY <1>1, <3>1
    <3>3. env[i] = env2[i]
      BY <3>2
    <3> QED BY <2>3, <3>2, <3>3 DEF Shown
  <2> QED BY <2>2, <2>3
<1> QED BY <1>2 DEF Shown

\* A verdict's reading of the environment: the entry of that name is proved.
LEMMA ProvedAt ==
    ASSUME NEW env \in Seq(Constant), NEW m, NEW u, NEW bodies, Shown(env, m, u, bodies), NEW n \in ToSet(u), bodies[n] # NoBody
    PROVE  At(env, m \o n).how = "proof"
<1>1. DOMAIN env = 1..Len(env)
  BY LenProperties
<1> DEFINE q == m \o n
<1>2. \E i \in DOMAIN env : env[i].name = q
  BY <1>1 DEF Shown
<1>3. \A i \in DOMAIN env : env[i].name = q => env[i].how = "proof"
  BY <1>1 DEF Shown
<1> HIDE DEF q
<1>4. At(env, q).how = "proof"
  BY <1>2, <1>3 DEF At
<1> QED BY <1>4 DEF q

\* The modules open at the anchor.
Prefix == AnchorBlock.modules

\* What the frozen file states before the anchor.
LEMMA KeptIs ==
    /\ Prefix \in Path /\ Stated(Before) \in Seq(Label) /\ Rocq(Kept).nested \in BOOLEAN /\ Rocq(Kept).ambient \in Nat
    /\ Before \in Seq(Constant)
<1>1. StateOK(Compile(Begun, Kept)) /\ Lex(Kept) = Kept
  BY BegunOK, SourceParts, FlatText, CompileOK
<1>2. Settled(Compile(Begun, Kept), Stated(Before))
  BY FrozenAssumption
<1>3. Before = Compile(Begun, Kept).env
  BY <1>1, RocqIs DEF Before
<1> DEFINE c == Compile(Begun, Kept)
<1> HIDE DEF c
<1>4. StateOK(c) /\ c.mods = Prefix /\ Rocq(Kept).nested = c.nested /\ Rocq(Kept).ambient = c.ambient /\ Before = c.env
  BY <1>1, <1>2, <1>3 DEF c, Settled, Prefix
<1> QED BY <1>4, StatedIs DEF StateOK

\* The statements planned: those before the anchor, then the obligations in order.
LEMMA PlannedIs == Planned = Stated(Before) \o Listing(Prefix, Obligations) /\ Planned \in Seq(Label)
<1>1. Planned = Stated(Before) \o Listing(Prefix, Obligations)
  BY DEF Planned, Listing, Qualify, Prefix
<1>2. Listing(Prefix, Obligations) \in Seq(Label)
  <2>1. Obligations \in Seq(Path)
    BY ObligationsAre
  <2>2. None \in Path
    BY EmptySeq DEF None, Path
  <2> QED BY <2>1, <2>2, KeptIs, ListingMore
<1> QED BY <1>1, <1>2, KeptIs, ConcatProperties

\* Up to the root, the assembly states the prefix and the plan.
LEMMA NodewiseIs ==
    ASSUME NEW bodies \in [Goals -> Seq(Line)], Checked(bodies), NEW b \in BOOLEAN, ~Nodewise(bodies, b).err
    PROVE  LET c == Nodewise(bodies, b)
           IN  /\ StateOK(c) /\ Shown(c.env, Prefix, Obligations, bodies)
               /\ Outline(c) = Record(Planned, <<>>, Prefix, Rocq(Kept).nested, Rocq(Kept).ambient)
<1> DEFINE c == Nodewise(bodies, b)
           s == Base(b)
<1>1. Follows(s, c, Obligations, bodies)
  <2>1. <<>> \in Seq(Path)
    BY EmptySeq
  <2> QED BY <2>1, AssemblyCompiles
<1>2. s.mods = Prefix /\ Stated(s.env) = Stated(Before) /\ s.nested = Rocq(Kept).nested /\ s.ambient = Rocq(Kept).ambient
  BY BaseIs DEF Prefix
<1> HIDE DEF c, s
<1>3. /\ StateOK(c) /\ Shown(c.env, Prefix, Obligations, bodies)
      /\ Outline(c) = Record(Planned, <<>>, Prefix, Rocq(Kept).nested, Rocq(Kept).ambient)
  BY <1>1, <1>2, PlannedIs DEF Follows
<1> QED BY <1>3 DEF c

\* The anchor's own proof in the frozen file, and what comes after it.
Past == Compile(Begun, SubSeq(Source, 1, AnchorBlock.end - 1))

\* It states the anchor after the prefix, and the rest of the file goes on from it.
LEMMA PastIs ==
    /\ StateOK(Past) /\ Outline(Past) = Record(Append(Stated(Before), <<Qualify(Anchor), "">>), <<>>, Prefix, Rocq(Kept).nested, Rocq(Kept).ambient)
    /\ Compile(Past, After) = Compile(Begun, Lex(Source)) /\ ~Compile(Past, After).err
    /\ Append(Stated(Before), <<Qualify(Anchor), "">>) \in Seq(Label) /\ Len(Append(Stated(Before), <<Qualify(Anchor), "">>)) = Len(Before) + 1
<1> DEFINE e == AnchorBlock.end
           a == SubSeq(Source, 1, e - 1)
           q == Append(Stated(Before), <<Qualify(Anchor), "">>)
<1>1. a \in Seq(Flat) /\ After \in Seq(Flat) /\ Source \in Seq(Flat)
  BY SourceParts
<1>2. StateOK(Past)
  BY <1>1, BegunOK, FlatText, CompileOK DEF Past
<1>3. Settled(Past, q)
  BY FrozenAssumption DEF Past
<1>4. a \o After = Source
  <2>1. AnchorBlock.at \in 1..Len(Source) /\ e \in (AnchorBlock.at + 1)..(Len(Source) + 1)
    BY FrozenAssumption
  <2>2. Len(Source) \in Nat
    BY <1>1, LenProperties
  <2> HIDE DEF e
  <2>3. 1 \in 1..(Len(Source) + 1) /\ e - 1 \in (1 - 1)..Len(Source) /\ Len(Source) \in (e - 1)..Len(Source) /\ (e - 1) + 1 = e
    BY <2>1, <2>2
  <2>4. SubSeq(Source, 1, e - 1) \o SubSeq(Source, (e - 1) + 1, Len(Source)) = SubSeq(Source, 1, Len(Source))
    BY <1>1, <2>3, ConcatAdjacentSubSeq
  <2>5. SubSeq(Source, 1, Len(Source)) = Source
    BY <1>1, SubSeqFull
  <2> QED BY <2>3, <2>4, <2>5 DEF After, e
<1>5. Compile(Past, After) = Compile(Begun, Lex(Source))
  <2>1. Lex(Source) = Source /\ a \in Seq(Line) /\ After \in Seq(Line)
    BY <1>1, FlatText
  <2>2. Compile(Begun, a \o After) = Compile(Compile(Begun, a), After)
    BY <2>1, CompileJoined
  <2> QED BY <1>4, <2>1, <2>2 DEF Past
<1>6. ~Compile(Past, After).err
  BY <1>5, RocqIs, FrozenAssumption
<1>7. q \in Seq(Label) /\ Len(q) = Len(Before) + 1
  <2>1. Qualify(Anchor) \in Path
    <3>1. Anchor \in Path /\ Prefix \in Path
      BY SourceAssumption, KeptIs
    <3> QED BY <3>1, ConcatProperties DEF Qualify, Prefix, Path
  <2>2. <<Qualify(Anchor), "">> \in Label
    BY <2>1, SourceAssumption DEF Label
  <2>3. Stated(Before) \in Seq(Label) /\ Len(Stated(Before)) = Len(Before)
    BY KeptIs, StatedIs
  <2> DEFINE x == <<Qualify(Anchor), "">>
  <2> HIDE DEF x
  <2>4. x \in Label
    BY <2>2 DEF x
  <2>5. Append(Stated(Before), x) \in Seq(Label) /\ Len(Append(Stated(Before), x)) = Len(Before) + 1
    BY <2>3, <2>4, Appending
  <2> QED BY <2>5 DEF x
<1> HIDE DEF q
<1>8. Outline(Past) = Record(q, <<>>, Prefix, Rocq(Kept).nested, Rocq(Kept).ambient)
  BY <1>3, NoLabels DEF Settled, Outline, Prefix
<1> QED BY <1>2, <1>5, <1>6, <1>7, <1>8 DEF q

\* The rest of the file declares after the obligations what it declares after the anchor's own proof.
LEMMA WholeIs ==
    ASSUME NEW c, StateOK(c), Outline(c) = Record(Planned, <<>>, Prefix, Rocq(Kept).nested, Rocq(Kept).ambient), ~Compile(c, After).err
    PROVE  LET d == Compile(c, After)
           IN  /\ Stated(d.env) = Planned \o Stated(Afterwards) /\ Stated(Afterwards) \in Seq(Label)
               /\ d.ambient = Rocq(Source).ambient /\ Afterwards \in Seq(Constant)
<1> DEFINE d == Compile(c, After)
           f == Compile(Past, After)
           q == Append(Stated(Before), <<Qualify(Anchor), "">>)
           o == Record(<<>>, <<>>, Prefix, Rocq(Kept).nested, Rocq(Kept).ambient)
           all == Rocq(Source).env
           L == Len(Before)
<1>0. /\ StateOK(Past) /\ Outline(Past) = Record(q, <<>>, Prefix, Rocq(Kept).nested, Rocq(Kept).ambient)
      /\ f = Compile(Begun, Lex(Source)) /\ ~f.err /\ q \in Seq(Label) /\ Len(q) = L + 1
  BY PastIs
<1>1. After \in Seq(Line) /\ Planned \in Seq(Label) /\ StateOK(f)
  BY <1>0, SourceParts, FlatText, PlannedIs, CompileOK
<1> HIDE DEF q
<1>2. Alike(c, Past, Planned, q)
  <2>1. o \in OutlineType
    <3>1. <<>> \in Seq(Label)
      BY EmptySeq
    <3> QED BY <3>1, KeptIs, Fields
  <2>2. \A p \in Seq(Label) : Prefixed(p, o) = Record(p, <<>>, Prefix, Rocq(Kept).nested, Rocq(Kept).ambient)
    <3>1. \A p \in Seq(Label) : p \o <<>> = p
      BY ConcatEmptySeq
    <3>2. o.stated = <<>> /\ o.open = <<>> /\ o.mods = Prefix /\ o.nested = Rocq(Kept).nested /\ o.ambient = Rocq(Kept).ambient
      BY DEF Record
    <3> HIDE DEF o
    <3> QED BY <3>1, <3>2 DEF Prefixed
  <2> HIDE DEF o
  <2> QED BY <1>0, <1>1, <2>1, <2>2 DEF Alike
<1>3. Alike(d, f, Planned, q)
  BY <1>0, <1>1, <1>2, Lockstep
<1>4. PICK w \in OutlineType : Outline(d) = Prefixed(Planned, w) /\ Outline(f) = Prefixed(q, w)
  BY <1>3 DEF Alike
<1> HIDE DEF d, f, o
<1>5. /\ Stated(d.env) = Planned \o w.stated /\ d.ambient = w.ambient
      /\ Stated(f.env) = q \o w.stated /\ f.ambient = w.ambient /\ w.stated \in Seq(Label)
  <2> DEFINE s1 == Planned \o w.stated
             s2 == q \o w.stated
  <2>1. /\ Outline(d) = Record(s1, w.open, w.mods, w.nested, w.ambient)
        /\ Outline(f) = Record(s2, w.open, w.mods, w.nested, w.ambient)
    BY <1>4 DEF Prefixed
  <2> HIDE DEF s1, s2
  <2>2. Stated(d.env) = s1 /\ d.ambient = w.ambient
    BY <2>1, OutlineWas
  <2>3. Stated(f.env) = s2 /\ f.ambient = w.ambient
    BY <2>1, OutlineWas
  <2>4. w.stated \in Seq(Label)
    BY Fields
  <2> QED BY <2>2, <2>3, <2>4 DEF s1, s2
<1>6. all = f.env /\ Rocq(Source).ambient = f.ambient
  BY <1>0, RocqIs
<1> HIDE DEF all
<1>7. all \in Seq(Constant) /\ L \in Nat /\ Len(all) \in Nat
  BY <1>1, <1>6, KeptIs, LenProperties DEF StateOK
<1>8. Len(w.stated) \in Nat /\ Len(all) = (L + 1) + Len(w.stated) /\ \A j \in 1..Len(w.stated) : (q \o w.stated)[(L + 1) + j] = w.stated[j]
  <2>1. Len(w.stated) \in Nat /\ Len(q \o w.stated) = Len(q) + Len(w.stated)
    BY <1>0, <1>5, ConcatProperties, LenProperties
  <2>2. Len(Stated(all)) = Len(all)
    BY <1>7, StatedIs
  <2>3. Len(all) = (L + 1) + Len(w.stated)
    BY <1>0, <1>5, <1>6, <2>1, <2>2
  <2>4. ASSUME NEW j \in 1..Len(w.stated) PROVE (q \o w.stated)[(L + 1) + j] = w.stated[j]
    <3>1. /\ (L + 1) + j \in 1..(Len(q) + Len(w.stated)) /\ ~((L + 1) + j <= Len(q)) /\ ((L + 1) + j) - Len(q) = j
      BY <1>0, <1>7, <2>1
    <3>2. \A i \in 1..(Len(q) + Len(w.stated)) : (q \o w.stated)[i] = IF i <= Len(q) THEN q[i] ELSE w.stated[i - Len(q)]
      BY <1>0, <1>5, ConcatProperties
    <3> QED BY <3>1, <3>2
  <2> QED BY <2>1, <2>3, <2>4
<1> DEFINE aft == SubSeq(all, L + 2, Len(all))
<1>9. aft = Afterwards
  BY DEF Afterwards, all
<1>10. /\ aft \in Seq(Constant) /\ Len(aft) = Len(w.stated) /\ \A j \in 1..Len(w.stated) : aft[j] = all[(L + 1) + j]
  <2>1. \A i \in (L + 2)..Len(all) : all[i] \in Constant
    <3>1. \A i \in (L + 2)..Len(all) : i \in 1..Len(all)
      BY <1>7
    <3> QED BY <1>7, <3>1, ElementOfSeq
  <2>2. L + 2 \in Int /\ Len(all) \in Int
    BY <1>7
  <2>3. /\ aft \in Seq(Constant) /\ Len(aft) = IF L + 2 <= Len(all) THEN Len(all) - (L + 2) + 1 ELSE 0
        /\ \A i \in 1..(Len(all) - (L + 2) + 1) : aft[i] = all[(L + 2) + i - 1]
    BY <2>1, <2>2, SubSeqProperties
  <2> HIDE DEF aft
  <2>3a. /\ aft \in Seq(Constant)
         /\ Len(aft) = IF L + 2 <= Len(all) THEN Len(all) - (L + 2) + 1 ELSE 0
    BY <2>3
  <2>3b. \A x, y, z \in Nat : z = (x + 1) + y =>
             /\ (IF x + 2 <= z THEN z - (x + 2) + 1 ELSE 0) = y
             /\ \A j \in 1..y : j \in 1..(z - (x + 2) + 1) /\ (x + 2) + j - 1 = (x + 1) + j
    OBVIOUS
  <2>3c. L \in Nat /\ Len(w.stated) \in Nat /\ Len(all) \in Nat /\ Len(all) = (L + 1) + Len(w.stated)
    BY <1>7, <1>8
  <2>3d. /\ (IF L + 2 <= Len(all) THEN Len(all) - (L + 2) + 1 ELSE 0) = Len(w.stated)
         /\ \A j \in 1..Len(w.stated) : j \in 1..(Len(all) - (L + 2) + 1) /\ (L + 2) + j - 1 = (L + 1) + j
    BY <2>3b, <2>3c, Zenon
  <2>4. Len(aft) = Len(w.stated)
    <3> DEFINE v == IF L + 2 <= Len(all) THEN Len(all) - (L + 2) + 1 ELSE 0
    <3>1. Len(aft) = v /\ v = Len(w.stated)
      BY <2>3a, <2>3d
    <3> HIDE DEF v
    <3> QED BY <3>1
  <2>5. ASSUME NEW j \in 1..Len(w.stated) PROVE aft[j] = all[(L + 1) + j]
    <3>1. j \in 1..(Len(all) - (L + 2) + 1) /\ (L + 2) + j - 1 = (L + 1) + j
      BY <2>3d, Zenon
    <3>2. aft[j] = all[(L + 2) + j - 1]
      BY <2>3, <3>1, Zenon
    <3> QED BY <3>1, <3>2, Zenon
  <2> QED BY <2>3, <2>4, <2>5
<1> HIDE DEF aft
<1>11. Stated(aft) = w.stated
  <2>1. Stated(aft) \in Seq(Label) /\ Len(Stated(aft)) = Len(w.stated)
    BY <1>10, StatedIs
  <2>2. ASSUME NEW j \in 1..Len(w.stated) PROVE Stated(aft)[j] = w.stated[j]
    <3>1. Stated(aft)[j] = <<aft[j].name, aft[j].t>>
      BY <1>10, StatedIs
    <3>2. (L + 1) + j \in 1..Len(all)
      <4>1. L \in Nat /\ Len(w.stated) \in Nat /\ Len(all) = (L + 1) + Len(w.stated)
        BY <1>7, <1>8
      <4>2. \A x, y \in Nat : \A i \in 1..y : (x + 1) + i \in 1..((x + 1) + y)
        OBVIOUS
      <4>3. \A i \in 1..Len(w.stated) : (L + 1) + i \in 1..((L + 1) + Len(w.stated))
        BY <4>1, <4>2, Zenon
      <4>4. (L + 1) + j \in 1..((L + 1) + Len(w.stated))
        BY <4>3, Zenon
      <4> QED BY <4>1, <4>4, Zenon
    <3>3. Stated(all)[(L + 1) + j] = <<all[(L + 1) + j].name, all[(L + 1) + j].t>>
      BY <1>7, <3>2, StatedIs
    <3>4. Stated(all)[(L + 1) + j] = w.stated[j]
      BY <1>5, <1>6, <1>8
    <3>5. aft[j] = all[(L + 1) + j]
      BY <1>10
    <3> QED BY <3>1, <3>3, <3>4, <3>5
  <2> QED BY <1>5, <2>1, <2>2, SeqEqual
<1>12. /\ Stated(d.env) = Planned \o Stated(Afterwards) /\ Stated(Afterwards) \in Seq(Label)
       /\ d.ambient = Rocq(Source).ambient /\ Afterwards \in Seq(Constant)
  BY <1>5, <1>6, <1>9, <1>10, <1>11
<1> QED BY <1>12 DEF d

-----------------------------------------------------------------------------
(* A gated text, node by node and whole *)

\* What a gated text comes to: the statements expected, and a proof for every body.
Holds(d, whole, bodies) ==
    /\ d.env \in Seq(Constant) /\ Stated(d.env) = Expected(whole) /\ Shown(d.env, Prefix, Obligations, bodies)
    /\ d.ambient = Rocq(IF whole THEN Source ELSE Kept).ambient

\* Cut after the root, the text declares the prefix and the plan.
LEMMA CutIs ==
    ASSUME NEW bodies \in [Goals -> Seq(Line)], Checked(bodies), ~Compile(Nodewise(bodies, TRUE), Ends).err
    PROVE  Holds(Compile(Nodewise(bodies, TRUE), Ends), FALSE, bodies)
<1> DEFINE c == Nodewise(bodies, TRUE)
           d == Compile(c, Ends)
           E == {s \in Flat : s.k = "end"}
<1>1. Ends \in Seq(E) /\ Ends \in Seq(Line)
  <2>1. Ends \in Seq(E)
    BY KeptIs, EndsAre DEF Prefix
  <2>2. \A s \in Seq(E) : s \in Seq(Flat)
    OBVIOUS
  <2> QED BY <2>1, <2>2, FlatText
<1>2. StateOK(c)
  <2>1. <<>> \in Seq(Path)
    BY EmptySeq
  <2> QED BY <2>1, AssemblyCompiles
<1>3. ~c.err
  BY <1>1, ErrorsStay
<1>4. Shown(c.env, Prefix, Obligations, bodies) /\ Stated(c.env) = Planned /\ c.ambient = Rocq(Kept).ambient
  <2>1. Shown(c.env, Prefix, Obligations, bodies) /\ Outline(c) = Record(Planned, <<>>, Prefix, Rocq(Kept).nested, Rocq(Kept).ambient)
    BY <1>3, NodewiseIs
  <2> HIDE DEF c
  <2> QED BY <2>1, OutlineWas
<1> HIDE DEF c
<1>5. StateOK(d) /\ Stated(d.env) = Stated(c.env) /\ d.ambient = c.ambient
  <2>1. E \in SUBSET Line /\ \A s \in E : s.k = "end"
    BY DEF Flat
  <2>2. ~Compile(c, Ends).err
    BY DEF c
  <2> HIDE DEF E
  <2>3. Stated(d.env) = Stated(c.env) /\ d.ambient = c.ambient
    BY <1>1, <1>2, <2>1, <2>2, EndsText
  <2> QED BY <1>1, <1>2, <2>3, CompileOK
<1>6. Keeps(c, d)
  BY <1>1, <1>2, TextKeeps DEF c
<1> HIDE DEF d
<1>7. c.env \in Seq(Constant) /\ d.env \in Seq(Constant)
  BY <1>2, <1>5 DEF StateOK
<1>8. Len(d.env) = Len(c.env) /\ Len(d.env) \in Nat
  BY <1>5, <1>7, StatedIs
<1>9. Shown(d.env, Prefix, Obligations, bodies)
  <2>1. \A i \in 1..Len(d.env) : ~(i > Len(c.env))
    BY <1>8
  <2>2. Len(c.env) <= Len(d.env) /\ \A i \in 1..Len(c.env) : d.env[i] = c.env[i]
    BY <1>6 DEF Keeps
  <2> QED BY <1>4, <1>7, <2>1, <2>2, ShownLater
<1>10. Expected(FALSE) = Planned
  BY PlannedIs, ConcatEmptySeq DEF Expected
<1>11. Holds(d, FALSE, bodies)
  BY <1>4, <1>5, <1>7, <1>9, <1>10 DEF Holds
<1> QED BY <1>11 DEF d, c

\* Whole, it declares the rest of the file as well.
LEMMA WholeText ==
    ASSUME NEW bodies \in [Goals -> Seq(Line)], Checked(bodies), ~Compile(Nodewise(bodies, FALSE), After).err
    PROVE  Holds(Compile(Nodewise(bodies, FALSE), After), TRUE, bodies)
<1> DEFINE c == Nodewise(bodies, FALSE)
           d == Compile(c, After)
           r == Stated(Afterwards)
<1>1. After \in Seq(Line)
  BY SourceParts, FlatText
<1>2. StateOK(c)
  <2>1. <<>> \in Seq(Path)
    BY EmptySeq
  <2> QED BY <2>1, AssemblyCompiles
<1>3. ~c.err
  BY <1>1, ErrorsStay
<1>4. Shown(c.env, Prefix, Obligations, bodies) /\ Outline(c) = Record(Planned, <<>>, Prefix, Rocq(Kept).nested, Rocq(Kept).ambient)
  BY <1>3, NodewiseIs
<1> HIDE DEF c
<1>5. ~Compile(c, After).err
  BY DEF c
<1>6. /\ Stated(d.env) = Planned \o r /\ r \in Seq(Label) /\ d.ambient = Rocq(Source).ambient /\ Afterwards \in Seq(Constant)
  BY <1>2, <1>4, <1>5, WholeIs
<1>7. StateOK(d) /\ Keeps(c, d)
  BY <1>1, <1>2, <1>5, TextKeeps, CompileOK
<1> HIDE DEF d
<1>8. c.env \in Seq(Constant) /\ d.env \in Seq(Constant)
  BY <1>2, <1>7 DEF StateOK
<1>9. Stated(c.env) = Planned
  BY <1>4, OutlineWas
<1>10. /\ Len(c.env) \in Nat /\ Len(c.env) = Len(Planned) /\ Len(d.env) = Len(Stated(d.env))
       /\ Len(r) = Len(Afterwards) /\ Len(Afterwards) \in Nat
  BY <1>6, <1>8, <1>9, StatedIs
<1>11. ASSUME NEW i \in 1..Len(d.env), NEW n \in ToSet(Obligations), i > Len(c.env)
       PROVE  d.env[i].name # Prefix \o n
  <2> DEFINE j == i - Len(c.env)
  <2>1. Len(d.env) = Len(c.env) + Len(r)
    <3>1. Len(Planned \o r) = Len(Planned) + Len(r)
      BY <1>6, PlannedIs, ConcatProperties
    <3> QED BY <1>6, <1>10, <3>1
  <2>2. j \in 1..Len(Afterwards) /\ i \in 1..(Len(Planned) + Len(r)) /\ ~(i <= Len(Planned)) /\ j = i - Len(Planned)
    <3>1. \A a, b \in Nat : \A k \in 1..(a + b) : k > a => k - a \in 1..b /\ ~(k <= a)
      OBVIOUS
    <3>2. Len(c.env) \in Nat /\ Len(Afterwards) \in Nat /\ Len(d.env) = Len(c.env) + Len(Afterwards) /\ i \in 1..Len(d.env)
      BY <1>10, <2>1
    <3>3. j \in 1..Len(Afterwards) /\ ~(i <= Len(c.env))
      BY <1>11, <3>1, <3>2
    <3> QED BY <1>10, <2>1, <3>2, <3>3
  <2>3. (Planned \o r)[i] = r[j]
    <3>1. \A k \in 1..(Len(Planned) + Len(r)) : (Planned \o r)[k] = IF k <= Len(Planned) THEN Planned[k] ELSE r[k - Len(Planned)]
      BY <1>6, PlannedIs, ConcatProperties
    <3> HIDE DEF j, r
    <3> QED BY <2>2, <3>1
  <2> HIDE DEF j
  <2>4. Stated(d.env)[i] = <<d.env[i].name, d.env[i].t>>
    BY <1>8, StatedIs
  <2>5. r[j] = <<Afterwards[j].name, Afterwards[j].t>>
    BY <1>6, <2>2, StatedIs
  <2>6. d.env[i].name = Afterwards[j].name
    <3>1. Stated(d.env)[i] = r[j]
      BY <1>6, <2>3, Zenon
    <3>2. <<d.env[i].name, d.env[i].t>> = <<Afterwards[j].name, Afterwards[j].t>>
      BY <2>4, <2>5, <3>1, Zenon
    <3> QED BY <3>2
  <2>7. Afterwards[j] \in ToSet(Afterwards)
    BY <1>6, <2>2, LenProperties DEF ToSet
  <2>8. Afterwards[j].name # Qualify(n)
    BY <2>7, FrozenAssumption
  <2> QED BY <2>6, <2>8 DEF Qualify, Prefix
<1>12. Shown(d.env, Prefix, Obligations, bodies)
  <2>1. Len(c.env) <= Len(d.env) /\ \A i \in 1..Len(c.env) : d.env[i] = c.env[i]
    BY <1>7 DEF Keeps
  <2> QED BY <1>4, <1>8, <1>11, <2>1, ShownLater
<1>13. Expected(TRUE) = Planned \o r
  BY DEF Expected
<1> HIDE DEF r
<1>14. Holds(d, TRUE, bodies)
  BY <1>6, <1>8, <1>12, <1>13 DEF Holds
<1> QED BY <1>14 DEF d, c

\* The trailer the gate adds to a text is all that it does not return.
LEMMA GateText ==
    ASSUME NEW bodies \in [Goals -> Seq(Line)], Checked(bodies), NEW truncate \in BOOLEAN, NEW names \in Seq(Path),
           ~Rocq(Assembled(bodies, truncate, names)).err
    PROVE  Holds(Rocq(Assembled(bodies, truncate, <<>>)), ~truncate, bodies)
<1> DEFINE d == Compile(Nodewise(bodies, truncate), Rest(truncate))
<1>1. <<>> \in Seq(Path)
  BY EmptySeq
<1>2. /\ Compile(Begun, Lex(Assembled(bodies, truncate, names))) = Compile(d, Trailer(names)) /\ Trailer(names) \in Seq(Line)
  BY AssemblyCompiles
<1>3. Compile(Begun, Lex(Assembled(bodies, truncate, <<>>))) = Compile(d, Trailer(<<>>))
  BY <1>1, AssemblyCompiles
<1>4. Trailer(<<>>) = <<>>
  <2>1. FlattenSeq(<<>>) = <<>>
    BY FlattenMore
  <2> QED BY <2>1 DEF Trailer
<1>5. Compile(d, Trailer(<<>>)) = d
  BY <1>4, CompileMore
<1>6. ~d.err
  <2>1. ~Compile(d, Trailer(names)).err
    BY <1>2, RocqIs
  <2> HIDE DEF d
  <2> QED BY <1>2, <2>1, ErrorsStay
<1>7. Holds(d, ~truncate, bodies)
  <2>1. CASE truncate = TRUE
    <3>1. Rest(truncate) = Ends
      BY <2>1 DEF Rest
    <3> QED BY <1>6, <2>1, <3>1, CutIs
  <2>2. CASE truncate = FALSE
    <3>1. Rest(truncate) = After
      BY <2>2 DEF Rest
    <3> QED BY <1>6, <2>2, <3>1, WholeText
  <2> QED BY <2>1, <2>2
<1> HIDE DEF d
<1>8. /\ Rocq(Assembled(bodies, truncate, <<>>)).env = d.env
      /\ Rocq(Assembled(bodies, truncate, <<>>)).ambient = d.ambient
  BY <1>3, <1>5, RocqIs
<1> QED BY <1>7, <1>8 DEF Holds

\* The obligations an assembly proves are those it has a body for.
LEMMA ProvedInIs ==
    ASSUME NEW bodies \in [Goals -> Seq(Line)]
    PROVE  ProvedIn(bodies) \in Seq(Goals) /\ ToSet(ProvedIn(bodies)) \subseteq {n \in Goals : bodies[n] # NoBody}
<1> DEFINE has == {n \in Goals : bodies[n] # NoBody}
           part == [n \in Goals |-> IF bodies[n] = NoBody THEN <<>> ELSE <<n>>]
<1>1. ASSUME NEW n \in Goals PROVE (IF bodies[n] = NoBody THEN <<>> ELSE <<n>>) \in Seq(has)
  <2>1. <<>> \in Seq(has)
    BY EmptySeq
  <2>2. ASSUME bodies[n] # NoBody PROVE <<n>> \in Seq(has)
    <3>1. n \in has
      BY <2>2
    <3> HIDE DEF has
    <3> QED BY <3>1, OneLine
  <2> QED BY <2>1, <2>2
<1>2. part \in [Goals -> Seq(has)]
  BY <1>1
<1>3. ProvedIn(bodies) = Each(part, Obligations)
  <2>1. \A i \in DOMAIN Obligations : Obligations[i] \in Goals
    BY DEF Goals, ToSet
  <2> QED BY <2>1 DEF ProvedIn, Each
<1> HIDE DEF part
<1>4. Each(part, Obligations) \in Seq(has)
  <2>1. EachIs(Goals, has, part)
    BY <1>2, EachMore
  <2> QED BY <2>1, ObligationsAre DEF EachIs
<1>5. \A s \in Seq(has) : s \in Seq(Goals) /\ ToSet(s) \subseteq has
  <2>1. ASSUME NEW s \in Seq(has) PROVE s \in Seq(Goals) /\ ToSet(s) \subseteq has
    BY LenProperties, ElementOfSeq DEF ToSet
  <2> QED BY <2>1
<1> QED BY <1>3, <1>4, <1>5

\* And each obligation with a body is among them.
LEMMA ProvedInAll ==
    ASSUME NEW bodies \in [Goals -> Seq(Line)], NEW n \in Goals, bodies[n] # NoBody
    PROVE  n \in ToSet(ProvedIn(bodies))
<1> DEFINE part == [m \in Goals |-> IF bodies[m] = NoBody THEN <<>> ELSE <<m>>]
           U == {u \in Seq(Goals) : n \in ToSet(u) => n \in ToSet(Each(part, u))}
<1>1. part[n] = <<n>>
  OBVIOUS
<1>2. part \in [Goals -> Seq(Goals)]
  <2>1. ASSUME NEW m \in Goals PROVE (IF bodies[m] = NoBody THEN <<>> ELSE <<m>>) \in Seq(Goals)
    BY OneLine, EmptySeq
  <2> QED BY <2>1
<1>3. ProvedIn(bodies) = Each(part, Obligations)
  <2>1. \A i \in DOMAIN Obligations : Obligations[i] \in Goals
    BY DEF Goals, ToSet
  <2> QED BY <2>1 DEF ProvedIn, Each
<1> HIDE DEF part
<1>4. EachIs(Goals, Goals, part)
  BY <1>2, EachMore
<1>5. <<>> \in U
  BY EmptySeq, ToSetMore
<1>6. ASSUME NEW u \in Seq(Goals), NEW m \in Goals, u \in U PROVE Append(u, m) \in U
  <2>1. Append(u, m) \in Seq(Goals)
    BY Appending
  <2>2. Each(part, Append(u, m)) = Each(part, u) \o part[m] /\ Each(part, u) \in Seq(Goals) /\ part[m] \in Seq(Goals)
    BY <1>2, <1>4 DEF EachIs
  <2>3. ASSUME NEW a \in Seq(Goals), NEW b \in Seq(Goals)
        PROVE  ToSet(a) \subseteq ToSet(a \o b) /\ ToSet(b) \subseteq ToSet(a \o b)
    <3>1. /\ Len(a) \in Nat /\ Len(b) \in Nat /\ Len(a \o b) = Len(a) + Len(b) /\ DOMAIN (a \o b) = 1..(Len(a) + Len(b))
          /\ DOMAIN a = 1..Len(a) /\ DOMAIN b = 1..Len(b)
      BY ConcatProperties, LenProperties
    <3>2. \A i \in 1..(Len(a) + Len(b)) : (a \o b)[i] = IF i <= Len(a) THEN a[i] ELSE b[i - Len(a)]
      BY ConcatProperties
    <3>3. ASSUME NEW i \in DOMAIN a PROVE a[i] \in ToSet(a \o b)
      <4>1. i \in 1..(Len(a) + Len(b)) /\ i <= Len(a)
        BY <3>1
      <4>2. (a \o b)[i] = a[i]
        BY <3>2, <4>1
      <4> QED BY <3>1, <4>1, <4>2 DEF ToSet
    <3>4. ASSUME NEW i \in DOMAIN b PROVE b[i] \in ToSet(a \o b)
      <4>1. Len(a) + i \in 1..(Len(a) + Len(b)) /\ ~(Len(a) + i <= Len(a)) /\ (Len(a) + i) - Len(a) = i
        BY <3>1
      <4>2. (a \o b)[Len(a) + i] = b[i]
        BY <3>2, <4>1
      <4> QED BY <3>1, <4>1, <4>2 DEF ToSet
    <3> QED BY <3>3, <3>4 DEF ToSet
  <2>4. ToSet(Append(u, m)) = ToSet(u) \cup {m}
    BY ToSetMore
  <2>5. CASE n \in ToSet(u)
    <3>1. n \in ToSet(Each(part, u))
      BY <1>6, <2>5
    <3>2. ToSet(Each(part, u)) \subseteq ToSet(Each(part, u) \o part[m])
      BY <2>2, <2>3
    <3>3. n \in ToSet(Each(part, Append(u, m)))
      BY <2>2, <3>1, <3>2
    <3> QED BY <2>1, <3>3
  <2>6. CASE m = n
    <3>1. n \in ToSet(<<n>>)
      <4>1. 1 \in DOMAIN <<n>> /\ <<n>>[1] = n
        OBVIOUS
      <4> QED BY <4>1 DEF ToSet
    <3>2. ToSet(part[m]) \subseteq ToSet(Each(part, u) \o part[m])
      BY <2>2, <2>3
    <3>3. n \in ToSet(Each(part, Append(u, m)))
      BY <1>1, <2>2, <2>6, <3>1, <3>2
    <3> QED BY <2>1, <3>3
  <2> QED BY <2>1, <2>4, <2>5, <2>6
<1>7. Seq(Goals) \subseteq U
  <2> HIDE DEF U
  <2> QED BY <1>5, <1>6, FromEmpty
<1>8. n \in ToSet(Obligations) /\ Obligations \in U
  BY <1>7, ObligationsAre DEF Goals
<1> QED BY <1>3, <1>8

-----------------------------------------------------------------------------
(* The gate *)

\* A verdict that passed is one of Gate.run on bodies written with `Words`, and what
\* it calls proved has a body among them.
Backed ==
    verdict.ok /\ verdict.kind \in {"node", "integration"} =>
        \E bodies \in [Goals -> Seq(Words)], name \in Goals :
            /\ Passes(bodies, name, verdict.kind = "node") /\ verdict.text = Assembled(bodies, verdict.kind = "node", <<>>)
            /\ ToSet(verdict.proved) \subseteq {n \in Goals : bodies[n] # NoBody}
Bodied == accepted \in [Goals -> Seq(Words)] /\ draft \in Seq(Words) /\ target \in Goals \cup {None}
GateInvariant == Bodied /\ Backed

\* Bodies written with the words are texts.
LEMMA WordsAre == ASSUME NEW f \in [Goals -> Seq(Words)] PROVE f \in [Goals -> Seq(Line)]
<1>1. Words \subseteq Line
  BY PlanAssumption
<1>2. \A s \in Seq(Words) : s \in Seq(Line)
  BY <1>1
<1> QED BY <1>2

\* No verdict, no body.
LEMMA GateStarts == GateInit => GateInvariant
<1> SUFFICES ASSUME GateInit PROVE GateInvariant
  OBVIOUS
<1>1. Bodied
  <2>1. NoBody \in Seq(Words)
    BY EmptySeq DEF NoBody
  <2> QED BY <2>1, EmptySeq DEF GateInit, Bodied, Goals
<1>2. Backed
  BY DEF GateInit, NoVerdict, Backed
<1> QED BY <1>1, <1>2 DEF GateInvariant

\* Every action keeps the invariant: only the two gates make a verdict that passes.
LEMMA GateGoes == GateInvariant /\ [GateNext]_gateVars => GateInvariant'
<1> SUFFICES ASSUME GateInvariant, [GateNext]_gateVars PROVE GateInvariant'
  OBVIOUS
<1> USE DEF GateInvariant
<1>1. ASSUME NEW n \in ToSet(Obligations), Take(n) PROVE GateInvariant'
  <2>1. Bodied'
    BY <1>1, EmptySeq DEF Take, Bodied, Goals
  <2>2. Backed'
    BY <1>1 DEF Take, Backed, NoVerdict
  <2> QED BY <2>1, <2>2
<1>2. ASSUME NEW w \in Words, Write(w) PROVE GateInvariant'
  <2>1. Bodied'
    <3>1. Append(draft, w) \in Seq(Words)
      BY Appending DEF Bodied
    <3> QED BY <1>2, <3>1 DEF Write, Bodied
  <2>2. Backed'
    BY <1>2 DEF Write, Backed
  <2> QED BY <2>1, <2>2
<1>3. ASSUME Submit PROVE GateInvariant'
  <2>1. PICK bodies \in {WithBody(IF target = Anchor THEN accepted ELSE WithBody(accepted, Anchor, NoBody), target, draft)},
             ok \in BOOLEAN :
          /\ ok = Passes(bodies, target, TRUE)
          /\ verdict' = IF ok THEN [kind |-> "node", ok |-> TRUE, text |-> Assembled(bodies, TRUE, <<>>), proved |-> ProvedIn(bodies)]
                        ELSE [NoVerdict EXCEPT !.kind = "node"]
          /\ accepted' = IF ok THEN WithBody(accepted, target, draft) ELSE accepted
    BY <1>3 DEF Submit
  <2>2. target \in Goals /\ target' = None /\ draft' = <<>>
    BY <1>3 DEF Submit, Bodied
  <2>3. ASSUME NEW f \in [Goals -> Seq(Words)], NEW m, NEW s \in Seq(Words) PROVE WithBody(f, m, s) \in [Goals -> Seq(Words)]
    BY DEF WithBody
  <2>4. NoBody \in Seq(Words) /\ accepted \in [Goals -> Seq(Words)] /\ draft \in Seq(Words)
    BY EmptySeq DEF Bodied, NoBody
  <2>5. bodies \in [Goals -> Seq(Words)]
    <3>1. WithBody(accepted, Anchor, NoBody) \in [Goals -> Seq(Words)]
      BY <2>3, <2>4
    <3>2. (IF target = Anchor THEN accepted ELSE WithBody(accepted, Anchor, NoBody)) \in [Goals -> Seq(Words)]
      BY <2>4, <3>1
    <3>3. WithBody(IF target = Anchor THEN accepted ELSE WithBody(accepted, Anchor, NoBody), target, draft) \in [Goals -> Seq(Words)]
      BY <2>3, <2>4, <3>2
    <3> QED BY <3>3
  <2>6. Bodied'
    BY <2>1, <2>2, <2>3, <2>4, EmptySeq DEF Bodied
  <2>7. Backed'
    <3>1. CASE ok
      <4>1. /\ verdict'.kind = "node" /\ verdict'.text = Assembled(bodies, TRUE, <<>>) /\ verdict'.proved = ProvedIn(bodies)
            /\ Passes(bodies, target, TRUE)
        BY <2>1, <3>1
      <4>2. ToSet(ProvedIn(bodies)) \subseteq {n \in Goals : bodies[n] # NoBody}
        <5>1. bodies \in [Goals -> Seq(Line)]
          BY <2>5, WordsAre
        <5> QED BY <5>1, ProvedInIs
      <4>3. (verdict'.kind = "node") = TRUE
        BY <4>1
      <4>4. /\ Passes(bodies, target, verdict'.kind = "node") /\ verdict'.text = Assembled(bodies, verdict'.kind = "node", <<>>)
            /\ ToSet(verdict'.proved) \subseteq {n \in Goals : bodies[n] # NoBody}
        BY <4>1, <4>2, <4>3
      <4> QED BY <2>2, <2>5, <4>4 DEF Backed
    <3>2. CASE ~ok
      BY <2>1, <3>2 DEF Backed, NoVerdict
    <3> QED BY <3>1, <3>2
  <2> QED BY <2>6, <2>7
<1>4. ASSUME Integrate PROVE GateInvariant'
  <2>1. Bodied'
    BY <1>4 DEF Integrate, Bodied
  <2>2. Backed'
    <3>1. verdict' = [kind |-> "integration", ok |-> Passes(accepted, Anchor, FALSE),
                      text |-> Assembled(accepted, FALSE, <<>>), proved |-> Obligations]
      BY <1>4 DEF Integrate
    <3>2. (verdict'.kind = "node") = FALSE
      BY <3>1
    <3>3. Anchor \in Goals /\ accepted \in [Goals -> Seq(Words)]
      BY ObligationsAre DEF Bodied
    <3>4. ToSet(Obligations) \subseteq {n \in Goals : accepted[n] # NoBody}
      BY <1>4, <3>3 DEF Integrate, Goals
    <3>5. ASSUME verdict'.ok
          PROVE  /\ Passes(accepted, Anchor, verdict'.kind = "node") /\ verdict'.text = Assembled(accepted, verdict'.kind = "node", <<>>)
                 /\ ToSet(verdict'.proved) \subseteq {n \in Goals : accepted[n] # NoBody}
      BY <3>1, <3>2, <3>4, <3>5
    <3> QED BY <3>3, <3>5 DEF Backed
  <2> QED BY <2>1, <2>2
<1>5. ASSUME Edit PROVE GateInvariant'
  BY <1>5 DEF Edit, Bodied, Backed
<1>6. ASSUME SubmitDesign PROVE GateInvariant'
  <2>1. Bodied'
    BY <1>6 DEF SubmitDesign, Bodied
  <2>2. verdict'.kind = "design"
    BY <1>6 DEF SubmitDesign
  <2> QED BY <2>1, <2>2 DEF Backed
<1>7. ASSUME UNCHANGED gateVars PROVE GateInvariant'
  BY <1>7 DEF gateVars, Bodied, Backed
<1> QED BY <1>1, <1>2, <1>3, <1>4, <1>5, <1>6, <1>7 DEF GateNext

\* What Gate.run passed is what its text declares and proves.
LEMMA GateMeans == GateInvariant => GatedMeansProved
<1> SUFFICES ASSUME Backed, verdict.ok, verdict.kind \in {"node", "integration"} PROVE GatedMeansProved
  BY DEF GateInvariant, GatedMeansProved
<1> DEFINE cut == verdict.kind = "node"
<1>1. PICK bodies \in [Goals -> Seq(Words)] : \E name \in Goals :
          /\ Passes(bodies, name, cut) /\ verdict.text = Assembled(bodies, cut, <<>>)
          /\ ToSet(verdict.proved) \subseteq {n \in Goals : bodies[n] # NoBody}
  BY DEF Backed
<1>2. PICK name \in Goals : Passes(bodies, name, cut)
  BY <1>1
<1>3. bodies \in [Goals -> Seq(Line)] /\ cut \in BOOLEAN
  BY WordsAre
<1> HIDE DEF cut
<1>4. Checked(bodies)
  <2>1. StaticChecks({bodies[n] : n \in ToSet(ProvedIn(bodies))})
    BY <1>2 DEF Passes
  <2> QED BY <1>3, <2>1, ProvedInAll DEF StaticChecks, Checked
<1> DEFINE names == QualifiedAll(ProvedIn(bodies))
<1>5. names \in Seq(Path)
  <2>1. ProvedIn(bodies) \in Seq(Goals)
    BY <1>3, ProvedInIs
  <2>2. \A n \in Goals : Qualify(n) \in Path
    <3>1. ASSUME NEW n \in Goals PROVE Qualify(n) \in Path
      <4>1. Prefix \in Seq(Ident) /\ n \in Seq(Ident)
        BY KeptIs, ObligationsAre DEF Path
      <4>2. Prefix \o n \in Seq(Ident)
        BY <4>1, ConcatProperties
      <4> QED BY <4>2 DEF Qualify, Prefix, Path
    <3> QED BY <3>1
  <2> DEFINE p == ProvedIn(bodies)
  <2>3. DOMAIN p = 1..Len(p) /\ Len(p) \in Nat /\ \A i \in 1..Len(p) : p[i] \in Goals
    BY <2>1, LenProperties, ElementOfSeq
  <2> HIDE DEF p
  <2>4. [i \in 1..Len(p) |-> Qualify(p[i])] \in Seq(Path)
    BY <2>2, <2>3, IsASeq
  <2> QED BY <2>3, <2>4 DEF QualifiedAll, p
<1>6. ~Rocq(Assembled(bodies, cut, names)).err
  BY <1>2 DEF Passes, AssumptionsClean
<1> HIDE DEF names
<1>7. Holds(Rocq(Assembled(bodies, cut, <<>>)), ~cut, bodies)
  BY <1>3, <1>4, <1>5, <1>6, GateText
<1> DEFINE r == Rocq(verdict.text)
<1>8. Holds(r, ~cut, bodies)
  BY <1>1, <1>7
<1>9. (verdict.kind = "integration") = ~cut
  BY DEF cut
<1>10. ASSUME NEW n \in ToSet(verdict.proved) PROVE At(r.env, Qualify(n)).how = "proof"
  <2>1. n \in ToSet(Obligations) /\ bodies[n] # NoBody
    BY <1>1 DEF Goals
  <2>2. r.env \in Seq(Constant) /\ Shown(r.env, Prefix, Obligations, bodies)
    BY <1>8 DEF Holds
  <2> HIDE DEF r
  <2>3. At(r.env, Prefix \o n).how = "proof"
    BY <2>1, <2>2, ProvedAt
  <2> QED BY <2>3 DEF Qualify, Prefix
<1>11. /\ Stated(r.env) = Expected(verdict.kind = "integration")
       /\ r.ambient = Rocq(IF verdict.kind = "integration" THEN Source ELSE Kept).ambient
  BY <1>8, <1>9 DEF Holds
<1> QED BY <1>10, <1>11 DEF GatedMeansProved

\* At every moment, a verdict that passed comes from checks of bodies the workers wrote.
LEMMA GateInvariantHolds == GateSpec => []GateInvariant
<1> QED BY GateStarts, GateGoes, PTL DEF GateSpec

\* A text that passed the gate declares, in this order, what the frozen file and the
\* plan state and nothing else, changes nothing outside its proofs, and proves every
\* obligation it holds a body for (gate.py, checks 1-4).
THEOREM GateTheorem == GateSpec => []GatedMeansProved
<1> QED BY GateInvariantHolds, GateMeans, PTL
=============================================================================
