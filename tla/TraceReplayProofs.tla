-------------------------- MODULE TraceReplayProofs --------------------------
(***************************************************************************)
(* TraceReplay answers as a replay from scratch would, for every text,      *)
(* script and caller, and every pattern of restarts, edits, cancellations   *)
(* and reuse.  The inductive invariant says of each replay how far it has   *)
(* run and on what (JobOK), of the cache that its states are of the text    *)
(* they are kept under, and of each caller whose answer it waits for.       *)
(***************************************************************************)
EXTENDS TraceReplay, Integers, SequenceTheorems, FiniteSetTheorems, TLAPS

\* A replay, as the thread and its callers see it.
Replay ==
    [st : {"none", "new", "opened", "running", "ending", "done"},
     key : Text \cup {NoText}, script : Seq(STRING), cancel : BOOLEAN, incremental : BOOLEAN,
     own : Text \cup {NoText}, proc : Proc \cup {NoText}, made : Nat,
     root : Text \cup {NoText}, ran : Seq(STRING), reused : BOOLEAN,
     end : {"none", "failed", "killed", "stopped", "whole", "lost"}]

\* What a session has run are the first sentences of its script, and they pass on the text
\* whose key its thread has read.
RanSoFar(r) ==
    /\ r.st \in {"opened", "running", "ending", "done"} => r.own \in Text /\ Passes(r.own, r.ran)
    /\ r.st \in {"none", "new", "opened"} => r.ran = << >>
    /\ Len(r.ran) <= Len(r.script) /\ r.ran = SubSeq(r.script, 1, Len(r.ran))

\* A session is opened on the twin of the text, and its states are of the text it was opened on.
OfItsText(r, txt, twn) ==
    /\ r.st = "opened" => r.own = txt /\ twn = txt
    /\ r.st \in {"opened", "running"} => r.proc \in Proc
    /\ r.st \in {"running", "ending"} => r.root = r.own

\* A replay ends for a reason.
EndsAsItRan(r) ==
    /\ r.end = "none" <=> r.st \in {"none", "new", "opened", "running"}
    /\ r.end = "whole" => r.ran = r.script
    /\ r.end = "failed" => <<r.own, Append(r.ran, r.script[Len(r.ran) + 1])>> \in Wrong
    /\ r.end = "stopped" => r.cancel

JobOK(r, txt, twn) == r \in Replay /\ RanSoFar(r) /\ OfItsText(r, txt, twn) /\ EndsAsItRan(r)

\* What is kept under a key are states of its text, past sentences that pass there.
CacheIsOfItsText ==
    \A t \in Text : cache[t].proc \in Proc => cache[t].root = t /\ Passes(t, cache[t].tactics)

\* A caller looks under a text's key, and waits for a replay of its own script.
CallersWaitForTheirs ==
    \A c \in Caller :
        /\ caller[c].pc \in {"looking", "stopping", "creating"} => caller[c].key \in Text
        /\ caller[c].pc \in {"looking", "stopping", "creating"} => caller[c].script \in Script
        /\ caller[c].pc \in {"stopping", "waiting"} =>
              caller[c].job \in Job /\ job[caller[c].job].st # "none"
        /\ caller[c].pc = "waiting" => job[caller[c].job].script = caller[c].script

TInv ==
    /\ TypeOK
    /\ \A j \in Job : JobOK(job[j], text, twin)
    /\ CacheIsOfItsText
    /\ CallersWaitForTheirs

-----------------------------------------------------------------------------
(* Scripts *)

\* The first n sentences of a script.
LEMMA FirstSentences ==
    ASSUME NEW s \in Seq(STRING), NEW n \in Nat, n <= Len(s)
    PROVE  /\ SubSeq(s, 1, n) \in Seq(STRING) /\ Len(SubSeq(s, 1, n)) = n
           /\ \A i \in 1..n : SubSeq(s, 1, n)[i] = s[i]
<1>1. Len(s) \in Nat /\ \A i \in 1..n : s[i] \in STRING
  BY LenProperties, ElementOfSeq
<1>2. /\ SubSeq(s, 1, n) \in Seq(STRING)
      /\ Len(SubSeq(s, 1, n)) = IF 1 <= n THEN n - 1 + 1 ELSE 0
      /\ \A i \in 1..(n - 1 + 1) : SubSeq(s, 1, n)[i] = s[1 + i - 1]
  <2>1. 1 \in Int /\ n \in Int
    OBVIOUS
  <2> QED
    BY <1>1, <2>1, SubSeqProperties
<1> QED
  BY <1>2

\* Scripts that agree have the same first sentences.
LEMMA AgreeingScripts ==
    ASSUME NEW s \in Seq(STRING), NEW t \in Seq(STRING), NEW k \in Nat, Agree(s, t, k)
    PROVE  SubSeq(s, 1, k) = SubSeq(t, 1, k)
<1>1. /\ SubSeq(s, 1, k) \in Seq(STRING) /\ Len(SubSeq(s, 1, k)) = k
      /\ SubSeq(t, 1, k) \in Seq(STRING) /\ Len(SubSeq(t, 1, k)) = k
      /\ \A i \in 1..k : SubSeq(s, 1, k)[i] = SubSeq(t, 1, k)[i]
  BY FirstSentences DEF Agree
<1> QED
  BY <1>1, SeqEqual

\* The first sentences of the first sentences.
LEMMA FirstOfFirst ==
    ASSUME NEW s \in Seq(STRING), NEW n \in Nat, n <= Len(s), NEW i \in Nat, i <= n
    PROVE  SubSeq(SubSeq(s, 1, n), 1, i) = SubSeq(s, 1, i)
<1>1. /\ SubSeq(s, 1, n) \in Seq(STRING) /\ Len(SubSeq(s, 1, n)) = n
      /\ \A m \in 1..n : SubSeq(s, 1, n)[m] = s[m]
  BY FirstSentences
<1>2. Agree(SubSeq(s, 1, n), s, i)
  <2>1. Len(s) \in Nat
    BY LenProperties
  <2> QED
    BY <1>1, <2>1 DEF Agree
<1> QED
  BY <1>1, <1>2, AgreeingScripts

\* One sentence more.
LEMMA OneMore ==
    ASSUME NEW s \in Seq(STRING), NEW n \in Nat, n < Len(s)
    PROVE  Append(SubSeq(s, 1, n), s[n + 1]) = SubSeq(s, 1, n + 1)
<1>1. Len(s) \in Nat /\ s[n + 1] \in STRING
  BY LenProperties, ElementOfSeq
<1>2. /\ SubSeq(s, 1, n) \in Seq(STRING) /\ Len(SubSeq(s, 1, n)) = n
      /\ \A i \in 1..n : SubSeq(s, 1, n)[i] = s[i]
  BY <1>1, FirstSentences
<1>3. /\ SubSeq(s, 1, n + 1) \in Seq(STRING) /\ Len(SubSeq(s, 1, n + 1)) = n + 1
      /\ \A i \in 1..(n + 1) : SubSeq(s, 1, n + 1)[i] = s[i]
  BY <1>1, FirstSentences
<1> DEFINE r == SubSeq(s, 1, n)
           a == Append(r, s[n + 1])
<1>4. /\ a \in Seq(STRING) /\ Len(a) = n + 1 /\ a[n + 1] = s[n + 1]
      /\ \A i \in 1..n : a[i] = r[i]
  <2> HIDE DEF r
  <2> QED
    BY <1>1, <1>2, AppendProperties DEF r
<1>5. \A i \in 1..(n + 1) : a[i] = SubSeq(s, 1, n + 1)[i]
  BY <1>2, <1>3, <1>4
<1> HIDE DEF a
<1>6. a = SubSeq(s, 1, n + 1)
  BY <1>3, <1>4, <1>5, SeqEqual
<1> QED
  BY <1>6 DEF a

\* The scripts agree on their common prefix: the sentences they agree on are the first so
\* many, and there are not more of them than sentences.
LEMMA CommonPrefixAgrees ==
    ASSUME NEW s \in Seq(STRING), NEW t \in Seq(STRING)
    PROVE  CommonPrefix(s, t) \in 0..Len(t) /\ Agree(s, t, CommonPrefix(s, t))
<1> DEFINE A == {k \in 1..Len(t) : Agree(s, t, k)}
<1>1. Len(s) \in Nat /\ Len(t) \in Nat
  BY LenProperties
<1>2. \A k \in Nat : Agree(s, t, k) => k <= Len(t) /\ \A i \in 0..k : Agree(s, t, i)
  BY <1>1 DEF Agree
<1>3. Agree(s, t, 0)
  BY <1>1 DEF Agree
<1>4. A \in SUBSET (1..Len(t)) /\ \A k \in 1..Len(t) : k \in A <=> Agree(s, t, k)
  OBVIOUS
<1> HIDE DEF A
<1>5. IsFiniteSet(A)
  <2>1. IsFiniteSet(1..Len(t))
    BY <1>1, FS_Interval
  <2> QED
    BY <1>4, <2>1, FS_Subset
<1>6. PICK n \in Nat : n = Cardinality(A)
  BY <1>5, FS_CardinalityType
<1>7. Agree(s, t, n)
  <2> SUFFICES ASSUME ~Agree(s, t, n) PROVE FALSE
    OBVIOUS
  <2>1. n # 0
    BY <1>3
  <2>2. \A k \in A : k \in 1..(n - 1)
    <3> SUFFICES ASSUME NEW k \in A, n <= k PROVE FALSE
      BY <1>1, <1>4
    <3>1. Agree(s, t, k) /\ k \in Nat
      BY <1>1, <1>4
    <3>2. n \in 0..k
      BY <3>1
    <3> QED
      BY <1>2, <3>1, <3>2
  <2>3. n - 1 \in Int /\ 1 \in Int
    OBVIOUS
  <2>4. IsFiniteSet(1..(n - 1)) /\ Cardinality(1..(n - 1)) = n - 1
    BY <2>1, <2>3, FS_Interval
  <2>5. A \in SUBSET (1..(n - 1))
    BY <2>2
  <2>6. Cardinality(A) <= Cardinality(1..(n - 1))
    BY <2>4, <2>5, FS_Subset
  <2> QED
    BY <1>6, <2>4, <2>6
<1>8. ~Agree(s, t, n + 1)
  <2> SUFFICES ASSUME Agree(s, t, n + 1) PROVE FALSE
    OBVIOUS
  <2>1. n + 1 \in Nat
    OBVIOUS
  <2>2. n + 1 <= Len(t) /\ \A i \in 0..(n + 1) : Agree(s, t, i)
    BY <1>2, <2>1
  <2>3. 1..(n + 1) \in SUBSET A
    BY <1>1, <1>4, <2>2
  <2>4. Cardinality(1..(n + 1)) = n + 1
    BY <2>1, FS_Interval
  <2>5. Cardinality(1..(n + 1)) <= Cardinality(A)
    BY <1>5, <2>3, FS_Subset
  <2> QED
    BY <1>6, <2>4, <2>5
<1>9. n \in 0..Len(t)
  BY <1>1, <1>2, <1>7
<1> QED
  BY <1>7, <1>8, <1>9 DEF CommonPrefix

\* What passes passes as far as it goes.
LEMMA PassesPrefix ==
    ASSUME NEW t, NEW s \in Seq(STRING), Passes(t, s), NEW n \in Nat, n <= Len(s)
    PROVE  Passes(t, SubSeq(s, 1, n))
<1>1. Len(s) \in Nat /\ Len(SubSeq(s, 1, n)) = n
  BY LenProperties, FirstSentences
<1> SUFFICES ASSUME NEW i \in 1..n PROVE <<t, SubSeq(SubSeq(s, 1, n), 1, i)>> \notin Wrong
  BY <1>1 DEF Passes
<1>2. SubSeq(SubSeq(s, 1, n), 1, i) = SubSeq(s, 1, i)
  BY FirstOfFirst
<1>3. i \in 1..Len(s)
  BY <1>1
<1> QED
  BY <1>2, <1>3 DEF Passes

\* One sentence more that does not fail.
LEMMA PassesOneMore ==
    ASSUME NEW t, NEW s \in Seq(STRING), NEW n \in Nat, n < Len(s),
           Passes(t, SubSeq(s, 1, n)), <<t, SubSeq(s, 1, n + 1)>> \notin Wrong
    PROVE  Passes(t, SubSeq(s, 1, n + 1))
<1>1. Len(s) \in Nat /\ Len(SubSeq(s, 1, n + 1)) = n + 1 /\ Len(SubSeq(s, 1, n)) = n
  <2>1. Len(s) \in Nat
    BY LenProperties
  <2> QED
    BY <2>1, FirstSentences
<1> SUFFICES ASSUME NEW i \in 1..(n + 1)
             PROVE  <<t, SubSeq(SubSeq(s, 1, n + 1), 1, i)>> \notin Wrong
  BY <1>1 DEF Passes
<1>2. SubSeq(SubSeq(s, 1, n + 1), 1, i) = SubSeq(s, 1, i)
  BY <1>1, FirstOfFirst
<1>3. CASE i = n + 1
  BY <1>2, <1>3
<1>4. CASE i # n + 1
  <2>1. i \in 1..n /\ i \in Nat /\ i <= n
    BY <1>4
  <2>2. SubSeq(SubSeq(s, 1, n), 1, i) = SubSeq(s, 1, i)
    BY <1>1, <2>1, FirstOfFirst
  <2> QED
    BY <1>1, <1>2, <2>1, <2>2 DEF Passes
<1> QED
  BY <1>3, <1>4

\* No sentence passes everywhere.
LEMMA NonePasses ==
    ASSUME NEW t
    PROVE  Passes(t, << >>) /\ << >> \in Seq(STRING) /\ Len(<< >>) = 0
BY EmptySeq DEF Passes

-----------------------------------------------------------------------------
(* The invariant, step by step *)

\* The conditions on one caller, and the types of all that is neither caller nor replay.
CallerOK(c) ==
    /\ caller[c].pc \in {"looking", "stopping", "creating"} =>
          caller[c].key \in Text /\ caller[c].script \in Script
    /\ caller[c].pc \in {"stopping", "waiting"} =>
          caller[c].job \in Job /\ job[caller[c].job].st # "none"
    /\ caller[c].pc = "waiting" => job[caller[c].job].script = caller[c].script

WorldOK ==
    /\ text \in Text /\ twin \in Text \cup {NoText}
    /\ gen \in [Proc -> Nat]
    /\ cache \in [Text -> [proc : Proc \cup {NoText}, gen : Nat,
                           root : Text \cup {NoText}, tactics : Seq(STRING)]]
    /\ calls \in 0..MaxCalls /\ restarts \in 0..MaxRestarts /\ edits \in 0..MaxEdits

CallRecord == [pc : {"idle", "looking", "stopping", "creating", "waiting"},
               script : Script \cup {<<>>}, key : Text \cup {NoText}, job : Job \cup {NoJob}]

\* A replay that has not begun is as it should be, whatever the text.
LEMMA FreshIsOK ==
    ASSUME NEW r \in Replay, r.st \in {"none", "new"}, r.ran = << >>, r.end = "none", NEW txt, NEW twn
    PROVE  JobOK(r, txt, twn)
<1>1. r.script \in Seq(STRING) /\ Len(r.script) \in Nat /\ Len(<< >>) = 0
  BY LenProperties, EmptySeq DEF Replay
<1>2. SubSeq(r.script, 1, 0) = << >>
  BY <1>1, SubSeqEmpty
<1>3. RanSoFar(r)
  BY <1>1, <1>2 DEF RanSoFar
<1>4. OfItsText(r, txt, twn) /\ EndsAsItRan(r)
  BY DEF OfItsText, EndsAsItRan
<1> QED
  BY <1>3, <1>4 DEF JobOK

\* A new replay.
LEMMA NewJobs ==
    ASSUME NEW key \in Text \cup {NoText}, NEW script \in Seq(STRING)
    PROVE  /\ NewJob(key, script) \in Replay
           /\ NewJob(key, script).st = "new" /\ NewJob(key, script).ran = << >>
           /\ NewJob(key, script).end = "none" /\ NewJob(key, script).script = script
BY EmptySeq DEF NewJob, Replay

\* The slot of a replay that is not there is as it should be.
LEMMA NoReplays ==
    ASSUME NEW txt, NEW twn
    PROVE  NoReplay \in Replay /\ NoReplay.st = "none" /\ JobOK(NoReplay, txt, twn)
<1>1. NewJob(NoText, << >>) \in Replay /\ NewJob(NoText, << >>).ran = << >> /\ NewJob(NoText, << >>).end = "none"
  <2>1. << >> \in Seq(STRING)
    BY EmptySeq
  <2> QED
    BY <2>1, NewJobs
<1>2. NoReplay \in Replay /\ NoReplay.st = "none" /\ NoReplay.ran = << >> /\ NoReplay.end = "none"
  BY <1>1 DEF NoReplay, Replay
<1> QED
  BY <1>2, FreshIsOK

\* What the invariant says of the jobs' types.
LEMMA Types ==
    ASSUME TInv
    PROVE  /\ job \in [Job -> Replay] /\ caller \in [Caller -> CallRecord] /\ replays \in [Text -> Job \cup {NoJob}]
           /\ WorldOK
           /\ \A t \in Text : replays[t] # NoJob => replays[t] \in Job /\ job[replays[t]].st # "none"
BY DEF TInv, TypeOK, Replay, CallRecord, WorldOK

\* Of the replays that have ended those go that nobody holds.
LEMMA KeptJobs ==
    ASSUME NEW jobs \in [Job -> Replay], job' = Kept(jobs)
    PROVE  /\ job' \in [Job -> Replay]
           /\ \A j \in Job : job'[j] \in {jobs[j], NoReplay}
           /\ \A j \in Job : j \in Held' => job'[j] = jobs[j]
<1>1. NoReplay \in Replay
  BY NoReplays
<1> DEFINE gone == [j \in Job |-> jobs[j].st = "done" /\ j \notin Held']
<1>2. job' = [j \in Job |-> IF gone[j] THEN NoReplay ELSE jobs[j]]
  BY DEF Kept
<1>3. \A j \in Job : j \in Held' => ~gone[j]
  OBVIOUS
<1> HIDE DEF gone
<1> QED
  BY <1>1, <1>2, <1>3

\* A step keeps the invariant if each replay, each entry of the table and each caller is
\* left alone or left as it should be, and no replay changes that somebody waits for.
LEMMA StepKeeps ==
    ASSUME TInv, job' \in [Job -> Replay], caller' \in [Caller -> CallRecord],
           replays' \in [Text -> Job \cup {NoJob}], WorldOK', CacheIsOfItsText',
           \A j \in Job : job'[j] = job[j] \/ JobOK(job'[j], text', twin'),
           \A j \in Job : job[j].st = "opened" => text' = text /\ twin' = twin,
           \A j \in Job : job[j].st # "none" /\ j \in Held' =>
                             job'[j].st # "none" /\ job'[j].script = job[j].script,
           \A t \in Text : replays'[t] \in {replays[t], NoJob} \/ job'[replays'[t]].st # "none",
           \A c \in Caller : caller'[c] \in {caller[c], NoCall} \/ CallerOK(c)'
    PROVE  TInv'
<1>1. \A j \in Job : JobOK(job'[j], text', twin')
  <2> SUFFICES ASSUME NEW j \in Job, job'[j] = job[j] PROVE JobOK(job'[j], text', twin')
    OBVIOUS
  <2>1. JobOK(job[j], text, twin)
    BY DEF TInv
  <2>2. JobOK(job[j], text', twin')
    BY <2>1 DEF JobOK, OfItsText
  <2> QED
    BY <2>2
<1>2. \A t \in Text : replays'[t] # NoJob => job'[replays'[t]].st # "none"
  <2> SUFFICES ASSUME NEW t \in Text, replays'[t] = replays[t], replays'[t] # NoJob
               PROVE  job'[replays'[t]].st # "none"
    OBVIOUS
  <2>1. replays[t] \in Job /\ job[replays[t]].st # "none"
    BY Types
  <2>2. replays[t] \in Held'
    BY DEF Held
  <2> QED
    BY <2>1, <2>2
<1>3. \A c \in Caller : CallerOK(c)'
  <2> SUFFICES ASSUME NEW c \in Caller, caller'[c] \in {caller[c], NoCall} PROVE CallerOK(c)'
    OBVIOUS
  <2>1. CASE caller'[c] = NoCall
    BY <2>1 DEF CallerOK, NoCall
  <2>2. CASE caller'[c] = caller[c]
    <3>1. CallerOK(c)
      BY DEF TInv, CallersWaitForTheirs, CallerOK
    <3>2. caller[c].job \in Held'
      BY <2>2 DEF Held
    <3> QED
      BY <2>2, <3>1, <3>2 DEF CallerOK
  <2> QED
    BY <2>1, <2>2
<1>4. TypeOK'
  BY <1>2 DEF TypeOK, WorldOK, CallRecord, Replay
<1>5. CallersWaitForTheirs'
  BY <1>3 DEF CallersWaitForTheirs, CallerOK
<1> QED
  BY <1>1, <1>4, <1>5 DEF TInv

\* A step of one replay's thread, or a word to it.
LEMMA JobKeeps ==
    ASSUME TInv, NEW j \in Job, NEW r, JobOK(r, text', twin'), job[j].st # "none", r.st # "none",
           r.script = job[j].script,
           Becomes(j, r) \/ job' = Kept([job EXCEPT ![j] = r]),
           UNCHANGED <<replays, caller>>, WorldOK', CacheIsOfItsText',
           \A i \in Job : job[i].st = "opened" => text' = text /\ twin' = twin
    PROVE  TInv'
<1>1. /\ job \in [Job -> Replay] /\ r \in Replay
      /\ caller \in [Caller -> CallRecord] /\ replays \in [Text -> Job \cup {NoJob}]
  BY Types DEF JobOK
<1> DEFINE jobs == [job EXCEPT ![j] = r]
<1>2. /\ jobs \in [Job -> Replay] /\ jobs[j] = r
      /\ \A i \in Job \ {j} : jobs[i] = job[i]
  BY <1>1
<1>3. job' = jobs \/ job' = Kept(jobs)
  BY DEF Becomes
<1> HIDE DEF jobs
<1>4. /\ job' \in [Job -> Replay]
      /\ \A i \in Job : job'[i] \in {jobs[i], NoReplay}
      /\ \A i \in Job : i \in Held' => job'[i] = jobs[i]
  BY <1>2, <1>3, KeptJobs
<1>5. \A i \in Job : job'[i] = job[i] \/ JobOK(job'[i], text', twin')
  <2> SUFFICES ASSUME NEW i \in Job PROVE job'[i] = job[i] \/ JobOK(job'[i], text', twin')
    OBVIOUS
  <2>1. JobOK(NoReplay, text', twin')
    BY NoReplays
  <2> QED
    BY <1>2, <1>4, <2>1
<1>6. \A i \in Job : job[i].st # "none" /\ i \in Held' => job'[i].st # "none" /\ job'[i].script = job[i].script
  BY <1>2, <1>4
<1> QED
  BY <1>1, <1>4, <1>5, <1>6, StepKeeps

\* A call, what it does about the replay it finds, and its return.
LEMMA CallerKeeps ==
    ASSUME TInv, NEW c \in Caller, Call(c) \/ Waits(c) \/ WaitIsOver(c)
    PROVE  TInv'
<1>1. /\ job \in [Job -> Replay] /\ caller \in [Caller -> CallRecord] /\ replays \in [Text -> Job \cup {NoJob}]
      /\ WorldOK /\ CacheIsOfItsText
      /\ \A t \in Text : replays[t] # NoJob => replays[t] \in Job /\ job[replays[t]].st # "none"
  BY Types DEF TInv
<1>2. CallerOK(c) /\ caller[c] \in CallRecord
  BY <1>1 DEF TInv, CallersWaitForTheirs, CallerOK
<1>3. NoCall \in CallRecord
  BY DEF NoCall, CallRecord
<1>4. ASSUME calls' \in 0..MaxCalls, UNCHANGED <<twin, gen, cache, world>>
      PROVE  WorldOK' /\ CacheIsOfItsText' /\ \A j \in Job : job[j].st = "opened" => text' = text /\ twin' = twin
  BY <1>1, <1>4 DEF WorldOK, CacheIsOfItsText, world
<1>5. ASSUME job' = Kept(job)
      PROVE  /\ job' \in [Job -> Replay]
             /\ \A j \in Job : job'[j] = job[j] \/ JobOK(job'[j], text', twin')
             /\ \A j \in Job : j \in Held' => job'[j] = job[j]
  <2>1. /\ job' \in [Job -> Replay]
        /\ \A j \in Job : job'[j] \in {job[j], NoReplay}
        /\ \A j \in Job : j \in Held' => job'[j] = job[j]
    BY <1>1, <1>5, KeptJobs
  <2>2. JobOK(NoReplay, text', twin')
    BY NoReplays
  <2> QED
    BY <2>1, <2>2
<1>6. calls \in 0..MaxCalls /\ text \in Text
  BY <1>1 DEF WorldOK
<1>7. CASE Call(c)
  <2>1. PICK s \in Script :
          caller' = [caller EXCEPT ![c] = [pc |-> "looking", script |-> s, key |-> text, job |-> NoJob]]
    BY <1>7 DEF Call
  <2>2. caller' \in [Caller -> CallRecord] /\ \A d \in Caller \ {c} : caller'[d] = caller[d]
    BY <1>1, <1>6, <2>1 DEF CallRecord
  <2>3. CallerOK(c)'
    BY <1>1, <1>6, <2>1 DEF CallerOK
  <2>4. WorldOK' /\ CacheIsOfItsText' /\ \A j \in Job : job[j].st = "opened" => text' = text /\ twin' = twin
    <3>1. calls' \in 0..MaxCalls
      BY <1>6, <1>7, BoundAssumption DEF Call
    <3> QED
      BY <1>4, <1>7, <3>1 DEF Call
  <2>5. UNCHANGED <<job, replays>>
    BY <1>7 DEF Call
  <2> QED
    BY <1>1, <2>2, <2>3, <2>4, <2>5, StepKeeps
<1>8. CASE Look(c)
  <2> DEFINE i == replays[caller[c].key]
  <2>1. caller[c].pc = "looking" /\ caller[c].key \in Text /\ UNCHANGED <<twin, gen, cache, replays, calls, world>>
    BY <1>2, <1>8 DEF Look, CallerOK
  <2>2. WorldOK' /\ CacheIsOfItsText' /\ \A j \in Job : job[j].st = "opened" => text' = text /\ twin' = twin
    BY <1>4, <1>6, <2>1
  <2>3. i = NoJob \/ (i \in Job /\ job[i].st # "none")
    BY <1>1, <2>1
  <2>4. CASE i = NoJob
    <3>1. caller' = [caller EXCEPT ![c].pc = "creating"] /\ UNCHANGED job
      BY <1>8, <2>4 DEF Look
    <3>2. /\ caller' \in [Caller -> CallRecord] /\ \A d \in Caller \ {c} : caller'[d] = caller[d]
          /\ CallerOK(c)'
      BY <1>1, <1>2, <2>1, <3>1 DEF CallRecord, CallerOK
    <3> QED
      BY <1>1, <2>1, <2>2, <3>1, <3>2, StepKeeps
  <2>5. CASE i # NoJob /\ job[i].script = caller[c].script
    <3>1. caller' = [caller EXCEPT ![c] = Waiting(caller[c], i)] /\ UNCHANGED job
      BY <1>1, <1>8, <2>5 DEF Look
    <3>2. /\ caller' \in [Caller -> CallRecord] /\ \A d \in Caller \ {c} : caller'[d] = caller[d]
          /\ CallerOK(c)'
      BY <1>1, <1>2, <2>3, <2>5, <3>1 DEF CallRecord, CallerOK, Waiting
    <3> QED
      BY <1>1, <2>1, <2>2, <3>1, <3>2, StepKeeps
  <2>6. CASE i # NoJob /\ job[i].script # caller[c].script
    <3>1. /\ caller' = [caller EXCEPT ![c].pc = "stopping", ![c].job = i]
          /\ job' = [job EXCEPT ![i].cancel = TRUE]
      BY <1>8, <2>6 DEF Look
    <3> HIDE DEF i
    <3> DEFINE r == [job[i] EXCEPT !.cancel = TRUE]
    <3>2. JobOK(job[i], text, twin) /\ i \in Job
      BY <2>3, <2>6 DEF TInv
    <3>3. JobOK(r, text, twin) /\ r \in Replay /\ r.st # "none" /\ r.script = job[i].script
      <4>1. job[i] \in Replay /\ r \in Replay
        BY <3>2 DEF JobOK, Replay
      <4>2. r.st = job[i].st /\ r.script = job[i].script /\ r.ran = job[i].ran /\ r.own = job[i].own
            /\ r.root = job[i].root /\ r.end = job[i].end /\ r.proc = job[i].proc /\ r.cancel
        BY <4>1 DEF Replay
      <4> HIDE DEF r
      <4>3. RanSoFar(r)
        BY <3>2, <4>2 DEF JobOK, RanSoFar
      <4>4. OfItsText(r, text, twin)
        BY <3>2, <4>2 DEF JobOK, OfItsText
      <4>5. EndsAsItRan(r)
        BY <3>2, <4>2 DEF JobOK, EndsAsItRan
      <4> QED
        BY <2>3, <2>6, <4>1, <4>2, <4>3, <4>4, <4>5 DEF JobOK
    <3>4. job' = [job EXCEPT ![i] = r]
      BY <1>1, <3>1, <3>2
    <3> HIDE DEF r
    <3>5. /\ job' \in [Job -> Replay] /\ job'[i] = r /\ \A j \in Job \ {i} : job'[j] = job[j]
      BY <1>1, <3>2, <3>3, <3>4
    <3>6. /\ caller' \in [Caller -> CallRecord] /\ \A d \in Caller \ {c} : caller'[d] = caller[d]
          /\ caller'[c].pc = "stopping" /\ caller'[c].job = i /\ caller'[c].key = caller[c].key
          /\ caller'[c].script = caller[c].script
      BY <1>1, <1>2, <3>1, <3>2 DEF CallRecord
    <3>7. CallerOK(c)'
      BY <1>2, <2>1, <3>2, <3>3, <3>5, <3>6 DEF CallerOK
    <3>8. \A j \in Job : job'[j] = job[j] \/ JobOK(job'[j], text', twin')
      BY <2>1, <3>3, <3>5 DEF world
    <3>9. \A j \in Job : job[j].st # "none" => job'[j].st # "none" /\ job'[j].script = job[j].script
      BY <3>3, <3>5
    <3> QED
      BY <1>1, <2>1, <2>2, <3>5, <3>6, <3>7, <3>8, <3>9, StepKeeps
  <2> QED
    BY <2>4, <2>5, <2>6
<1>9. CASE OldStopped(c)
  <2>1. /\ caller[c].pc = "stopping" /\ job' = Kept(job) /\ UNCHANGED <<twin, gen, cache, replays, calls, world>>
        /\ caller' = [caller EXCEPT ![c].pc = "creating", ![c].job = NoJob]
    BY <1>9 DEF OldStopped
  <2>2. WorldOK' /\ CacheIsOfItsText' /\ \A j \in Job : job[j].st = "opened" => text' = text /\ twin' = twin
    BY <1>4, <1>6, <2>1
  <2>3. /\ caller' \in [Caller -> CallRecord] /\ \A d \in Caller \ {c} : caller'[d] = caller[d]
        /\ CallerOK(c)'
    BY <1>1, <1>2, <2>1 DEF CallRecord, CallerOK
  <2> QED
    BY <1>1, <1>5, <2>1, <2>2, <2>3, StepKeeps
<1>10. CASE Create(c)
  <2>1. PICK j \in Job :
          /\ job[j].st = "none"
          /\ replays' = [replays EXCEPT ![caller[c].key] = j]
          /\ caller' = [caller EXCEPT ![c] = Waiting(caller[c], j)]
          /\ job' = Kept([job EXCEPT ![j] = NewJob(caller[c].key, caller[c].script)])
    BY <1>1, <1>10 DEF Create
  <2>2. /\ caller[c].pc = "creating" /\ caller[c].key \in Text /\ caller[c].script \in Script
        /\ UNCHANGED <<twin, gen, cache, calls, world>>
    BY <1>2, <1>10 DEF Create, CallerOK
  <2>3. WorldOK' /\ CacheIsOfItsText' /\ \A i \in Job : job[i].st = "opened" => text' = text /\ twin' = twin
    BY <1>4, <1>6, <2>2
  <2> DEFINE r == NewJob(caller[c].key, caller[c].script)
             jobs == [job EXCEPT ![j] = r]
  <2>4. r \in Replay /\ r.st = "new" /\ r.script = caller[c].script /\ JobOK(r, text', twin')
    <3>1. caller[c].script \in Seq(STRING)
      BY <2>2, DataAssumption
    <3>2. r \in Replay /\ r.st = "new" /\ r.ran = << >> /\ r.end = "none" /\ r.script = caller[c].script
      BY <2>2, <3>1, NewJobs
    <3> HIDE DEF r
    <3> QED
      BY <3>2, FreshIsOK
  <2> HIDE DEF r
  <2>5. /\ jobs \in [Job -> Replay] /\ jobs[j] = r /\ \A i \in Job \ {j} : jobs[i] = job[i]
        /\ job' = Kept(jobs)
    BY <1>1, <2>1, <2>4 DEF r
  <2> HIDE DEF jobs
  <2>6. /\ job' \in [Job -> Replay]
        /\ \A i \in Job : job'[i] \in {jobs[i], NoReplay}
        /\ \A i \in Job : i \in Held' => job'[i] = jobs[i]
    BY <2>5, KeptJobs
  <2>7. /\ caller' \in [Caller -> CallRecord] /\ \A d \in Caller \ {c} : caller'[d] = caller[d]
        /\ caller'[c].pc = "waiting" /\ caller'[c].job = j /\ caller'[c].script = caller[c].script
    BY <1>1, <1>2, <2>1 DEF Waiting, CallRecord
  <2>8. j \in Held'
    BY <2>7 DEF Held
  <2>9. CallerOK(c)'
    BY <2>4, <2>5, <2>6, <2>7, <2>8 DEF CallerOK
  <2>10. /\ replays' \in [Text -> Job \cup {NoJob}]
         /\ \A t \in Text : replays'[t] = replays[t] \/ replays'[t] = j
    BY <1>1, <2>1, <2>2
  <2>11. job'[j].st # "none"
    BY <2>4, <2>5, <2>6, <2>8
  <2>12. \A i \in Job : job'[i] = job[i] \/ JobOK(job'[i], text', twin')
    <3>1. JobOK(NoReplay, text', twin')
      BY NoReplays
    <3> QED
      BY <2>4, <2>5, <2>6, <3>1
  <2>13. \A i \in Job : job[i].st # "none" /\ i \in Held' =>
                            job'[i].st # "none" /\ job'[i].script = job[i].script
    BY <2>1, <2>5, <2>6
  <2>14. \A t \in Text : replays'[t] \in {replays[t], NoJob} \/ job'[replays'[t]].st # "none"
    BY <2>10, <2>11
  <2>15. \A d \in Caller : caller'[d] \in {caller[d], NoCall} \/ CallerOK(d)'
    BY <2>7, <2>9
  <2> QED
    BY <2>3, <2>6, <2>7, <2>10, <2>12, <2>13, <2>14, <2>15, StepKeeps
<1>11. CASE Collect(c)
  <2> DEFINE j == caller[c].job
  <2>1. /\ replays' = [k \in Text |-> IF k = job[j].key /\ replays[k] = j THEN NoJob ELSE replays[k]]
        /\ caller' = [caller EXCEPT ![c] = NoCall] /\ job' = Kept(job)
        /\ UNCHANGED <<twin, gen, cache, calls, world>>
    BY <1>11 DEF Collect
  <2>2. WorldOK' /\ CacheIsOfItsText' /\ \A i \in Job : job[i].st = "opened" => text' = text /\ twin' = twin
    BY <1>4, <1>6, <2>1
  <2>3. /\ replays' \in [Text -> Job \cup {NoJob}] /\ \A t \in Text : replays'[t] \in {replays[t], NoJob}
        /\ caller' \in [Caller -> CallRecord] /\ \A d \in Caller : caller'[d] \in {caller[d], NoCall}
    BY <1>1, <1>3, <2>1
  <2> QED
    BY <1>5, <2>1, <2>2, <2>3, StepKeeps
<1>12. CASE WaitIsOver(c)
  <2>1. /\ caller' = [caller EXCEPT ![c] = NoCall] /\ UNCHANGED <<twin, gen, cache, replays, job, calls, world>>
    BY <1>12 DEF WaitIsOver
  <2>2. WorldOK' /\ CacheIsOfItsText' /\ \A i \in Job : job[i].st = "opened" => text' = text /\ twin' = twin
    BY <1>4, <1>6, <2>1
  <2>3. caller' \in [Caller -> CallRecord] /\ \A d \in Caller : caller'[d] \in {caller[d], NoCall}
    BY <1>1, <1>3, <2>1
  <2> QED
    BY <1>1, <2>1, <2>2, <2>3, StepKeeps
<1> QED
  BY <1>7, <1>8, <1>9, <1>10, <1>11, <1>12 DEF Waits

\* A replay's thread, and the word that closes its session.
LEMMA ThreadKeeps ==
    ASSUME TInv, NEW j \in Job, Thread(j) \/ CloseSession(j)
    PROVE  TInv'
<1> DEFINE o == job[j]
<1>1. /\ job \in [Job -> Replay] /\ o \in Replay /\ JobOK(o, text, twin)
      /\ WorldOK /\ CacheIsOfItsText
  BY Types DEF TInv
<1>2. /\ o.script \in Seq(STRING) /\ o.ran \in Seq(STRING) /\ Len(o.script) \in Nat /\ Len(o.ran) \in Nat
      /\ o.key \in Text \cup {NoText} /\ o.own \in Text \cup {NoText} /\ o.cancel \in BOOLEAN
  BY <1>1, LenProperties DEF Replay
<1>3. text \in Text /\ twin \in Text \cup {NoText}
      /\ cache \in [Text -> [proc : Proc \cup {NoText}, gen : Nat,
                             root : Text \cup {NoText}, tactics : Seq(STRING)]]
      /\ gen \in [Proc -> Nat]
  BY <1>1 DEF WorldOK
<1>4. ASSUME UNCHANGED <<twin, gen, cache, calls, world>>
      PROVE  WorldOK' /\ CacheIsOfItsText' /\ \A i \in Job : job[i].st = "opened" => text' = text /\ twin' = twin
  BY <1>1, <1>4 DEF WorldOK, CacheIsOfItsText, world
<1>5. NoEntry.proc \notin Proc
      /\ NoEntry \in [proc : Proc \cup {NoText}, gen : Nat, root : Text \cup {NoText}, tactics : Seq(STRING)]
  BY DataAssumption, EmptySeq DEF NoEntry
\* The answer of a replay that ends, however it ends.
<1>6. ASSUME NEW how \in {"failed", "killed", "stopped", "whole", "lost"}, job' = Ended(j, how), o.st # "none",
             o.own \in Text, Passes(o.own, o.ran), EndsAsItRan([o EXCEPT !.end = how, !.st = "done"]),
             UNCHANGED <<replays, caller>>, WorldOK', CacheIsOfItsText',
             \A i \in Job : job[i].st = "opened" => text' = text /\ twin' = twin
      PROVE  TInv'
  <2> DEFINE r == [NewJob(o.key, o.script) EXCEPT !.st = "done", !.end = how, !.cancel = o.cancel,
                     !.own = o.own, !.ran = o.ran]
  <2>1. job' = Kept([job EXCEPT ![j] = r])
    BY <1>1, <1>6 DEF Ended
  <2>2. NewJob(o.key, o.script) \in Replay /\ NewJob(o.key, o.script).script = o.script
    BY <1>2, NewJobs
  <2>3. /\ r \in Replay /\ r.st = "done" /\ r.end = how /\ r.cancel = o.cancel /\ r.own = o.own
        /\ r.ran = o.ran /\ r.script = o.script
    BY <1>2, <1>6, <2>2 DEF Replay
  <2> HIDE DEF r
  <2>4. RanSoFar(r)
    BY <1>1, <1>6, <2>3 DEF JobOK, RanSoFar
  <2>5. EndsAsItRan(r)
    <3> DEFINE q == [o EXCEPT !.end = how, !.st = "done"]
    <3>1. q.st = "done" /\ q.end = how /\ q.ran = o.ran /\ q.script = o.script /\ q.own = o.own /\ q.cancel = o.cancel
      BY <1>1 DEF Replay
    <3>2. EndsAsItRan(q)
      BY <1>6
    <3> HIDE DEF q
    <3> QED
      BY <2>3, <3>1, <3>2 DEF EndsAsItRan
  <2>6. JobOK(r, text', twin')
    BY <2>3, <2>4, <2>5 DEF JobOK, OfItsText
  <2> QED
    BY <1>6, <2>1, <2>3, <2>6, JobKeeps
<1>7. CASE Open(j)
  <2>1. PICK p \in Proc : Becomes(j, [o EXCEPT !.st = "opened", !.own = KeyOf(text), !.proc = p])
    BY <1>7 DEF Open
  <2>2. o.st = "new" /\ twin' = text /\ UNCHANGED <<gen, cache, replays, caller, calls, world>>
    BY <1>7 DEF Open
  <2> DEFINE r == [o EXCEPT !.st = "opened", !.own = text, !.proc = p]
  <2>3. r \in Replay /\ r.st = "opened" /\ r.own = text /\ r.proc = p /\ r.ran = o.ran /\ r.script = o.script
        /\ r.end = o.end
    BY <1>1, <1>3 DEF Replay
  <2>4. Becomes(j, r)
    BY <2>1 DEF KeyOf
  <2> HIDE DEF r
  <2>5. o.ran = << >> /\ o.end = "none" /\ Len(o.ran) <= Len(o.script) /\ o.ran = SubSeq(o.script, 1, Len(o.ran))
    BY <1>1, <2>2 DEF JobOK, RanSoFar, EndsAsItRan
  <2>6. JobOK(r, text', twin')
    <3>1. RanSoFar(r)
      BY <1>3, <2>3, <2>5, NonePasses DEF RanSoFar
    <3>2. OfItsText(r, text', twin')
      BY <2>2, <2>3 DEF OfItsText, world
    <3>3. EndsAsItRan(r)
      BY <2>3, <2>5 DEF EndsAsItRan
    <3> QED
      BY <2>3, <3>1, <3>2, <3>3 DEF JobOK
  <2>7. WorldOK' /\ CacheIsOfItsText'
    BY <1>1, <1>3, <2>2 DEF WorldOK, CacheIsOfItsText, world
  <2>8. \A i \in Job : job[i].st = "opened" => text' = text /\ twin' = twin
    <3> SUFFICES ASSUME NEW i \in Job, job[i].st = "opened" PROVE text' = text /\ twin' = twin
      OBVIOUS
    <3>1. JobOK(job[i], text, twin)
      BY DEF TInv
    <3> QED
      BY <2>2, <3>1 DEF JobOK, OfItsText, world
  <2> QED
    BY <2>2, <2>3, <2>4, <2>6, <2>7, <2>8, JobKeeps
<1>8. CASE Resume(j)
  <2> DEFINE entry == cache[o.own]
             k == CommonPrefix(entry.tactics, o.script)
             r == [o EXCEPT !.st = "running", !.reused = TRUE, !.made = entry.gen, !.root = entry.root,
                            !.ran = SubSeq(o.script, 1, k)]
  <2>1. o.st = "opened" /\ entry.proc = o.proc /\ Becomes(j, r)
        /\ UNCHANGED <<twin, gen, cache, replays, caller, calls, world>>
    BY <1>8 DEF Resume, Reusable
  <2>2. o.own \in Text /\ o.own = text /\ o.proc \in Proc
    BY <1>1, <1>3, <2>1 DEF JobOK, OfItsText
  <2>3. /\ entry.root = o.own /\ Passes(o.own, entry.tactics)
        /\ entry.tactics \in Seq(STRING) /\ entry.gen \in Nat
    BY <1>1, <1>3, <2>1, <2>2 DEF CacheIsOfItsText
  <2>4. k \in Nat /\ Agree(entry.tactics, o.script, k) /\ k <= Len(entry.tactics) /\ k <= Len(o.script)
    <3>1. k \in 0..Len(o.script) /\ Agree(entry.tactics, o.script, k)
      BY <1>2, <2>3, CommonPrefixAgrees
    <3> QED
      BY <1>2, <3>1 DEF Agree
  <2> HIDE DEF k, entry
  <2>5. SubSeq(entry.tactics, 1, k) = SubSeq(o.script, 1, k)
    BY <1>2, <2>3, <2>4, AgreeingScripts
  <2>6. Passes(o.own, SubSeq(o.script, 1, k))
    BY <2>3, <2>4, <2>5, PassesPrefix
  <2>7. SubSeq(o.script, 1, k) \in Seq(STRING) /\ Len(SubSeq(o.script, 1, k)) = k
    BY <1>2, <2>4, FirstSentences
  <2>8. /\ r \in Replay /\ r.st = "running" /\ r.own = o.own /\ r.root = o.own /\ r.ran = SubSeq(o.script, 1, k)
        /\ r.script = o.script /\ r.end = o.end /\ r.proc = o.proc
    BY <1>1, <1>2, <2>2, <2>3, <2>7 DEF Replay
  <2> HIDE DEF r
  <2>9. JobOK(r, text, twin)
    <3>1. RanSoFar(r)
      BY <2>2, <2>4, <2>6, <2>7, <2>8 DEF RanSoFar
    <3>2. OfItsText(r, text, twin)
      BY <2>2, <2>8 DEF OfItsText
    <3>3. EndsAsItRan(r)
      BY <1>1, <2>1, <2>8 DEF EndsAsItRan, JobOK
    <3> QED
      BY <2>8, <3>1, <3>2, <3>3 DEF JobOK
  <2> QED
    BY <1>4, <2>1, <2>8, <2>9, JobKeeps DEF world
<1>9. CASE Start(j)
  <2> DEFINE r == [o EXCEPT !.st = "running", !.made = gen[o.proc], !.root = twin]
  <2>1. o.st = "opened" /\ Becomes(j, r) /\ UNCHANGED <<twin, gen, cache, replays, caller, calls, world>>
    BY <1>9 DEF Start
  <2>2. o.own \in Text /\ o.own = twin /\ o.proc \in Proc
    BY <1>1, <1>3, <2>1 DEF JobOK, OfItsText
  <2>3. /\ r \in Replay /\ r.st = "running" /\ r.own = o.own /\ r.root = twin /\ r.ran = o.ran
        /\ r.script = o.script /\ r.end = o.end /\ r.proc = o.proc
    BY <1>1, <1>3, <2>2 DEF Replay
  <2> HIDE DEF r
  <2>4. JobOK(r, text, twin)
    <3>1. RanSoFar(r)
      BY <1>1, <2>1, <2>3 DEF JobOK, RanSoFar
    <3>2. OfItsText(r, text, twin)
      BY <2>2, <2>3 DEF OfItsText
    <3>3. EndsAsItRan(r)
      BY <1>1, <2>1, <2>3 DEF EndsAsItRan, JobOK
    <3> QED
      BY <2>3, <3>1, <3>2, <3>3 DEF JobOK
  <2> QED
    BY <1>4, <2>1, <2>3, <2>4, JobKeeps DEF world
<1>10. CASE StartFails(j)
  <2>1. o.st = "opened" /\ job' = Ended(j, "lost") /\ UNCHANGED <<twin, gen, cache, replays, caller, calls, world>>
    BY <1>10 DEF StartFails, ErrorOf
  <2>2. o.own \in Text /\ Passes(o.own, o.ran)
    BY <1>1, <2>1 DEF JobOK, RanSoFar
  <2>3. EndsAsItRan([o EXCEPT !.end = "lost", !.st = "done"])
    BY <1>1 DEF EndsAsItRan, Replay
  <2> QED
    BY <1>4, <1>6, <2>1, <2>2, <2>3
<1>11. CASE Sentence(j)
  <2> DEFINE n == Len(o.ran)
             next == Append(o.ran, o.script[n + 1])
  <2>1. o.st = "running" /\ n < Len(o.script) /\ UNCHANGED <<twin, gen, cache, replays, caller, calls, world>>
    BY <1>11 DEF Sentence, Runs, HasMore
  <2>2. /\ o.own \in Text /\ Passes(o.own, o.ran) /\ o.root = o.own /\ o.ran = SubSeq(o.script, 1, n)
        /\ o.end = "none" /\ o.proc \in Proc
    BY <1>1, <2>1 DEF JobOK, RanSoFar, OfItsText, EndsAsItRan
  <2>3. next = SubSeq(o.script, 1, n + 1) /\ next \in Seq(STRING) /\ Len(next) = n + 1
    <3>1. Append(SubSeq(o.script, 1, n), o.script[n + 1]) = SubSeq(o.script, 1, n + 1)
      BY <1>2, <2>1, OneMore
    <3>2. SubSeq(o.script, 1, n + 1) \in Seq(STRING) /\ Len(SubSeq(o.script, 1, n + 1)) = n + 1
      BY <1>2, <2>1, FirstSentences
    <3> QED
      BY <2>2, <3>1, <3>2
  <2>4. CASE <<o.root, next>> \notin Wrong /\ Becomes(j, [o EXCEPT !.ran = next])
    <3> DEFINE r == [o EXCEPT !.ran = next]
    <3>1. Passes(o.own, next)
      <4>1. Passes(o.own, SubSeq(o.script, 1, n)) /\ <<o.own, SubSeq(o.script, 1, n + 1)>> \notin Wrong
        BY <2>2, <2>3, <2>4
      <4> QED
        BY <1>2, <2>1, <2>3, <4>1, PassesOneMore
    <3>2. /\ r \in Replay /\ r.st = "running" /\ r.own = o.own /\ r.root = o.root /\ r.ran = next
          /\ r.script = o.script /\ r.end = o.end /\ r.proc = o.proc
      BY <1>1, <2>1, <2>3 DEF Replay
    <3>3. Becomes(j, r)
      BY <2>4
    <3> HIDE DEF r, next
    <3>4. JobOK(r, text, twin)
      <4>1. RanSoFar(r)
        BY <1>2, <2>1, <2>2, <2>3, <3>1, <3>2 DEF RanSoFar
      <4>2. OfItsText(r, text, twin)
        BY <2>2, <3>2 DEF OfItsText
      <4>3. EndsAsItRan(r)
        BY <2>2, <3>2 DEF EndsAsItRan
      <4> QED
        BY <3>2, <4>1, <4>2, <4>3 DEF JobOK
    <3> QED
      BY <1>4, <2>1, <3>2, <3>3, <3>4, JobKeeps DEF world
  <2>5. CASE <<o.root, next>> \in Wrong /\ Becomes(j, [o EXCEPT !.st = "ending", !.end = "failed"])
    <3> DEFINE r == [o EXCEPT !.st = "ending", !.end = "failed"]
    <3>1. /\ r \in Replay /\ r.st = "ending" /\ r.own = o.own /\ r.root = o.root /\ r.ran = o.ran
          /\ r.script = o.script /\ r.end = "failed"
      BY <1>1 DEF Replay
    <3>2. Becomes(j, r)
      BY <2>5
    <3> HIDE DEF r
    <3>3. JobOK(r, text, twin)
      <4>1. RanSoFar(r)
        BY <1>1, <2>1, <3>1 DEF JobOK, RanSoFar
      <4>2. OfItsText(r, text, twin)
        BY <2>2, <3>1 DEF OfItsText
      <4>3. EndsAsItRan(r)
        BY <2>2, <2>5, <3>1 DEF EndsAsItRan
      <4> QED
        BY <3>1, <4>1, <4>2, <4>3 DEF JobOK
    <3> QED
      BY <1>4, <2>1, <3>1, <3>2, <3>3, JobKeeps DEF world
  <2> QED
    BY <1>11, <2>4, <2>5 DEF Sentence, Next1
<1>12. CASE RunsAway(j)
  <2> DEFINE r == [o EXCEPT !.st = "ending", !.end = "killed"]
  <2>1. o.st = "running" /\ Becomes(j, r) /\ UNCHANGED <<twin, cache, replays, caller, calls, text, edits>>
        /\ gen' = [gen EXCEPT ![o.proc] = @ + 1] /\ restarts' = restarts + 1 /\ restarts < MaxRestarts
    BY <1>12 DEF RunsAway, Runs
  <2>2. /\ r \in Replay /\ r.st = "ending" /\ r.own = o.own /\ r.root = o.root /\ r.ran = o.ran
        /\ r.script = o.script /\ r.end = "killed"
    BY <1>1 DEF Replay
  <2> HIDE DEF r
  <2>3. JobOK(r, text, twin)
    <3>1. RanSoFar(r)
      BY <1>1, <2>1, <2>2 DEF JobOK, RanSoFar
    <3>2. OfItsText(r, text, twin)
      BY <1>1, <2>1, <2>2 DEF JobOK, OfItsText
    <3>3. EndsAsItRan(r)
      BY <2>2 DEF EndsAsItRan
    <3> QED
      BY <2>2, <3>1, <3>2, <3>3 DEF JobOK
  <2>4. gen' \in [Proc -> Nat]
    <3>1. o.proc \in Proc
      BY <1>1, <2>1 DEF JobOK, OfItsText
    <3> QED
      BY <1>3, <2>1, <3>1
  <2>5. restarts' \in 0..MaxRestarts
    BY <1>1, <2>1, BoundAssumption DEF WorldOK
  <2>6. WorldOK' /\ CacheIsOfItsText'
    BY <1>1, <2>1, <2>4, <2>5 DEF WorldOK, CacheIsOfItsText
  <2> QED
    BY <2>1, <2>2, <2>3, <2>6, JobKeeps
<1>13. CASE Lost(j)
  <2>1. o.st = "running" /\ UNCHANGED <<twin, gen, replays, caller, calls, world>>
    BY <1>13 DEF Lost, Runs
  <2>2. o.own \in Text /\ Passes(o.own, o.ran)
    BY <1>1, <2>1 DEF JobOK, RanSoFar
  <2>3. CASE cache' = [cache EXCEPT ![o.own] = NoEntry]
             /\ Becomes(j, [NewJob(o.key, o.script) EXCEPT !.incremental = FALSE])
    <3> DEFINE r == [NewJob(o.key, o.script) EXCEPT !.incremental = FALSE]
    <3>1. /\ NewJob(o.key, o.script) \in Replay /\ NewJob(o.key, o.script).st = "new"
          /\ NewJob(o.key, o.script).ran = << >> /\ NewJob(o.key, o.script).end = "none"
          /\ NewJob(o.key, o.script).script = o.script
      BY <1>2, NewJobs
    <3>2. r \in Replay /\ r.st = "new" /\ r.ran = << >> /\ r.end = "none" /\ r.script = o.script
      BY <3>1 DEF Replay
    <3>3. Becomes(j, r)
      BY <2>3
    <3> HIDE DEF r
    <3>4. JobOK(r, text', twin')
      BY <3>2, FreshIsOK
    <3>5. /\ cache' \in [Text -> [proc : Proc \cup {NoText}, gen : Nat,
                                  root : Text \cup {NoText}, tactics : Seq(STRING)]]
          /\ \A t \in Text : cache'[t] \in {cache[t], NoEntry}
      BY <1>3, <1>5, <2>3
    <3>6. WorldOK' /\ CacheIsOfItsText'
      <4>1. WorldOK'
        BY <1>1, <2>1, <3>5 DEF WorldOK, world
      <4>2. CacheIsOfItsText'
        BY <1>1, <1>5, <3>5 DEF CacheIsOfItsText
      <4> QED
        BY <4>1, <4>2
    <3> QED
      BY <2>1, <3>2, <3>3, <3>4, <3>6, JobKeeps DEF world
  <2>4. CASE job' = Ended(j, "lost") /\ UNCHANGED cache
    <3>1. EndsAsItRan([o EXCEPT !.end = "lost", !.st = "done"])
      BY <1>1 DEF EndsAsItRan, Replay
    <3> QED
      BY <1>4, <1>6, <2>1, <2>2, <2>4, <3>1
  <2> QED
    BY <1>13, <2>3, <2>4 DEF Lost, ErrorOf
<1>14. CASE Stop(j)
  <2> DEFINE how == IF Len(o.ran) < Len(o.script) THEN "stopped" ELSE "whole"
             r == [o EXCEPT !.st = "ending", !.end = how]
  <2>1. o.st = "running" /\ (o.cancel \/ ~(Len(o.ran) < Len(o.script))) /\ Becomes(j, r)
        /\ UNCHANGED <<twin, gen, cache, replays, caller, calls, world>>
    BY <1>14 DEF Stop, Runs, HasMore
  <2>2. /\ o.own \in Text /\ Passes(o.own, o.ran) /\ o.root = o.own
        /\ Len(o.ran) <= Len(o.script) /\ o.ran = SubSeq(o.script, 1, Len(o.ran))
    BY <1>1, <2>1 DEF JobOK, RanSoFar, OfItsText
  <2>3. (how = "stopped" /\ o.cancel) \/ (how = "whole" /\ o.ran = o.script)
    <3>1. CASE Len(o.ran) < Len(o.script)
      BY <2>1, <3>1
    <3>2. CASE ~(Len(o.ran) < Len(o.script))
      <4>1. Len(o.ran) = Len(o.script)
        BY <1>2, <2>2, <3>2
      <4>2. o.ran = o.script
        BY <1>2, <2>2, <4>1, SubSeqFull
      <4> QED
        BY <3>2, <4>2
    <3> QED
      BY <3>1, <3>2
  <2> HIDE DEF how
  <2>4. /\ r \in Replay /\ r.st = "ending" /\ r.own = o.own /\ r.root = o.root /\ r.ran = o.ran
        /\ r.script = o.script /\ r.end = how /\ r.cancel = o.cancel
    BY <1>1, <2>3 DEF Replay
  <2> HIDE DEF r
  <2>5. JobOK(r, text, twin)
    <3>1. RanSoFar(r)
      BY <2>2, <2>4 DEF RanSoFar
    <3>2. OfItsText(r, text, twin)
      BY <2>2, <2>4 DEF OfItsText
    <3>3. EndsAsItRan(r)
      BY <2>3, <2>4 DEF EndsAsItRan
    <3> QED
      BY <2>4, <3>1, <3>2, <3>3 DEF JobOK
  <2> QED
    BY <1>4, <2>1, <2>4, <2>5, JobKeeps DEF world
<1>15. CASE End(j)
  <2>1. o.st = "ending" /\ job' = Ended(j, o.end) /\ UNCHANGED <<twin, gen, replays, caller, calls, world>>
    BY <1>15 DEF End
  <2>2. o.own \in Text /\ Passes(o.own, o.ran) /\ o.root = o.own /\ EndsAsItRan(o)
    BY <1>1, <2>1 DEF JobOK, RanSoFar, OfItsText
  <2> DEFINE entry == [proc |-> o.proc, gen |-> o.made, root |-> o.root, tactics |-> o.ran]
  <2>3. cache' \in {cache, [cache EXCEPT ![o.own] = NoEntry], [cache EXCEPT ![o.own] = entry]}
    BY <1>15 DEF End
  <2>4. /\ entry \in [proc : Proc \cup {NoText}, gen : Nat, root : Text \cup {NoText}, tactics : Seq(STRING)]
        /\ entry.root = o.own /\ entry.tactics = o.ran
    BY <1>1, <2>2 DEF Replay
  <2> HIDE DEF entry
  <2>5. /\ cache' \in [Text -> [proc : Proc \cup {NoText}, gen : Nat,
                                root : Text \cup {NoText}, tactics : Seq(STRING)]]
        /\ \A t \in Text : cache'[t] \in {cache[t], NoEntry} \/ (t = o.own /\ cache'[t] = entry)
    BY <1>3, <1>5, <2>3, <2>4
  <2>6. WorldOK'
    BY <1>1, <2>1, <2>5 DEF WorldOK, world
  <2>7. CacheIsOfItsText'
    BY <1>1, <1>5, <2>2, <2>4, <2>5 DEF CacheIsOfItsText
  <2>8. o.end \in {"failed", "killed", "stopped", "whole", "lost"}
    BY <1>1, <2>1, <2>2 DEF Replay, EndsAsItRan
  <2>9. EndsAsItRan([o EXCEPT !.end = o.end, !.st = "done"])
    BY <1>1, <2>2, <2>8 DEF Replay, EndsAsItRan
  <2> QED
    BY <1>4, <1>6, <2>1, <2>2, <2>6, <2>7, <2>8, <2>9 DEF world
<1>16. CASE CloseSession(j)
  <2> DEFINE r == [o EXCEPT !.cancel = TRUE]
  <2>1. o.st = "running" /\ UNCHANGED <<twin, gen, cache, replays, caller, calls, world>>
        /\ job' = [job EXCEPT ![j] = r]
    BY <1>1, <1>16 DEF CloseSession
  <2>2. /\ r \in Replay /\ r.st = o.st /\ r.own = o.own /\ r.root = o.root /\ r.ran = o.ran
        /\ r.script = o.script /\ r.end = o.end /\ r.proc = o.proc
    BY <1>1 DEF Replay
  <2>3. Becomes(j, r)
    BY <2>1 DEF Becomes
  <2> HIDE DEF r
  <2>4. JobOK(r, text, twin)
    <3>1. RanSoFar(r)
      BY <1>1, <2>2 DEF JobOK, RanSoFar
    <3>2. OfItsText(r, text, twin)
      BY <1>1, <2>1, <2>2 DEF JobOK, OfItsText
    <3>3. EndsAsItRan(r)
      BY <1>1, <2>1, <2>2 DEF JobOK, EndsAsItRan
    <3> QED
      BY <2>2, <3>1, <3>2, <3>3 DEF JobOK
  <2> QED
    BY <1>4, <2>1, <2>2, <2>3, <2>4, JobKeeps DEF world
<1> QED
  BY <1>7, <1>8, <1>9, <1>10, <1>11, <1>12, <1>13, <1>14, <1>15, <1>16 DEF Thread

\* A process that restarts, and an edit of the text, which waits for the sessions being
\* opened.
LEMMA WorldKeeps ==
    ASSUME TInv, (\E p \in Proc : Restart(p)) \/ Edit
    PROVE  TInv'
<1>1. /\ job \in [Job -> Replay] /\ caller \in [Caller -> CallRecord] /\ replays \in [Text -> Job \cup {NoJob}]
      /\ WorldOK /\ CacheIsOfItsText
  BY Types DEF TInv
<1>2. CASE \E p \in Proc : Restart(p)
  <2>1. PICK p \in Proc : Restart(p)
    BY <1>2
  <2>2. gen' \in [Proc -> Nat] /\ restarts' \in 0..MaxRestarts
    BY <1>1, <2>1, BoundAssumption DEF Restart, WorldOK
  <2>3. WorldOK' /\ CacheIsOfItsText' /\ UNCHANGED <<job, caller, replays, text, twin>>
    BY <1>1, <2>1, <2>2 DEF Restart, WorldOK, CacheIsOfItsText
  <2> QED
    BY <1>1, <2>3, StepKeeps
<1>3. CASE Edit
  <2>1. text' \in Text /\ edits' \in 0..MaxEdits
    BY <1>1, <1>3, BoundAssumption DEF Edit, WorldOK
  <2>2. WorldOK' /\ CacheIsOfItsText' /\ UNCHANGED <<job, caller, replays>>
    BY <1>1, <1>3, <2>1 DEF Edit, WorldOK, CacheIsOfItsText
  <2>3. \A j \in Job : job[j].st # "opened"
    BY <1>3 DEF Edit
  <2> QED
    BY <1>1, <2>2, <2>3, StepKeeps
<1> QED
  BY <1>2, <1>3

\* Every step keeps the invariant.
LEMMA NextKeeps ==
    ASSUME TInv, [Next]_vars
    PROVE  TInv'
<1>1. CASE UNCHANGED vars
  <2>1. /\ job \in [Job -> Replay] /\ caller \in [Caller -> CallRecord] /\ replays \in [Text -> Job \cup {NoJob}]
        /\ WorldOK /\ CacheIsOfItsText
    BY Types DEF TInv
  <2>2. WorldOK' /\ CacheIsOfItsText' /\ UNCHANGED <<job, caller, replays, text, twin>>
    BY <1>1, <2>1 DEF vars, world, WorldOK, CacheIsOfItsText
  <2> QED
    BY <2>1, <2>2, StepKeeps
<1> QED
  BY <1>1, CallerKeeps, ThreadKeeps, WorldKeeps DEF Next

\* At the start there is nothing to replay.
LEMMA InitKeeps ==
    ASSUME Init
    PROVE  TInv
<1>1. NoReplay \in Replay /\ NoReplay.st = "none"
  BY NoReplays
<1>2. \A j \in Job : job[j] = NoReplay /\ JobOK(job[j], text, twin)
  BY NoReplays DEF Init
<1>3. job \in [Job -> Replay] /\ caller \in [Caller -> CallRecord] /\ replays \in [Text -> Job \cup {NoJob}]
  BY <1>1 DEF Init, CallRecord, NoCall
<1>4. NoEntry \in [proc : Proc \cup {NoText}, gen : Nat, root : Text \cup {NoText}, tactics : Seq(STRING)]
      /\ NoEntry.proc \notin Proc
  BY DataAssumption, EmptySeq DEF NoEntry
<1>5. WorldOK
  BY <1>4, BoundAssumption DEF Init, WorldOK
<1>6. CacheIsOfItsText
  BY <1>4 DEF Init, CacheIsOfItsText
<1>7. CallersWaitForTheirs
  <2>1. \A c \in Caller : caller[c].pc = "idle"
    BY DEF Init, NoCall
  <2> QED
    BY <2>1 DEF CallersWaitForTheirs
<1>8. \A t \in Text : replays[t] = NoJob
  BY DEF Init
<1>9. TypeOK
  BY <1>3, <1>5, <1>8 DEF TypeOK, WorldOK, Replay, CallRecord
<1> QED
  BY <1>2, <1>6, <1>7, <1>9 DEF TInv

-----------------------------------------------------------------------------
(* The theorems *)

\* The invariant holds throughout.
THEOREM Inductive == Spec => []TInv
<1>1. Init => TInv
  BY InitKeeps
<1>2. TInv /\ [Next]_vars => TInv'
  BY NextKeeps
<1> QED
  BY <1>1, <1>2, PTL DEF Spec

\* The tables of replays, the cache and the calls keep their types, and what is in the
\* table has been created.
THEOREM TypeCorrect == Spec => []TypeOK
<1>1. TInv => TypeOK
  BY DEF TInv
<1> QED
  BY <1>1, Inductive, PTL

\* Whatever was reused, and however many scripts, restarts, edits and cancellations came
\* between: an answer is what a replay of the caller's script from scratch would say on the
\* text the replay read.
THEOREM AnswersAreAsIfFresh == Spec => []AnswersAsIfFresh
<1>1. TInv => AnswersAsIfFresh
  <2> SUFFICES ASSUME TInv, NEW c \in Caller, caller[c].pc = "waiting", job[caller[c].job].st = "done",
                      NEW j, j = job[caller[c].job]
               PROVE  /\ j.script = caller[c].script
                      /\ Passes(j.own, j.ran) /\ j.ran = SubSeq(j.script, 1, Len(j.ran))
                      /\ j.end = "whole" => j.ran = j.script
                      /\ j.end = "failed" => <<j.own, Append(j.ran, j.script[Len(j.ran) + 1])>> \in Wrong
                      /\ j.end = "stopped" => j.cancel
    BY DEF AnswersAsIfFresh
  <2>1. caller[c].job \in Job /\ j.script = caller[c].script
    BY DEF TInv, CallersWaitForTheirs
  <2>2. JobOK(j, text, twin)
    BY <2>1 DEF TInv
  <2>3. RanSoFar(j) /\ EndsAsItRan(j) /\ j.st = "done"
    BY <2>2 DEF JobOK
  <2>4. Passes(j.own, j.ran) /\ j.ran = SubSeq(j.script, 1, Len(j.ran))
    BY <2>3 DEF RanSoFar
  <2>5. /\ j.end = "whole" => j.ran = j.script
        /\ j.end = "failed" => <<j.own, Append(j.ran, j.script[Len(j.ran) + 1])>> \in Wrong
        /\ j.end = "stopped" => j.cancel
    BY <2>3 DEF EndsAsItRan
  <2> QED
    BY <2>1, <2>4, <2>5
<1> QED
  BY <1>1, Inductive, PTL
====
