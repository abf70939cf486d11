---------------------------- MODULE DesignRounds ----------------------------
(***************************************************************************)
(* `pcp prove` with a decomposer and an approver: the design the proofs     *)
(* are of changes while they are being written.                             *)
(*                                                                          *)
(*   initial design -> adopt -> resume -> revalidate -> adjudicate          *)
(*     -> dispatch -> requests -> adjudicate -> retry -> (dispatch again)   *)
(*     -> revise (a new design, adopt, replay, dispatch) -> integrate       *)
(*                                                                          *)
(* Processes follow one another over one graph, any number of them.  What   *)
(* the program tells epochs and files apart by is all that is kept of them: *)
(* a pin is current or stale, an attempt or a verdict is of the node's      *)
(* epoch or of none, a body was gated against the development in use or     *)
(* against an earlier one.  So nothing counts up but what the code caps.    *)
(*                                                                          *)
(* A node's whole dispatch is one step (ProveRun has its interleavings),    *)
(* and so is a loop over nodes whose interruption the next run makes good.  *)
(* Every obligation can be stubbed.  The gate, the prover, the decomposer   *)
(* and the approver may answer anything; a gate or a compilation that could *)
(* not run ends the process, wherever a dispatch does not report it.        *)
(***************************************************************************)
EXTENDS Integers, FiniteSets, ProofLattice

CONSTANTS
    Root,           \* the target lemma
    Child,          \* names a design may state as obligations
    ordering,       \* their order in a proposal
    Wording,        \* what statement_hash tells apart of each child's statement
    Add, Replace,   \* amendment requests, by what AmendmentRequest.key tells apart
    NoRequest,      \* no request
    Mentions,       \* nodes whose statement mentions the definition amended
    Hard,           \* nodes whose provers may fail, or contest the statement
    Askers,         \* hard nodes whose provers may ask for an amendment
    MaxAttempts,    \* --attempts
    ReviewAfter,    \* --review-after
    MaxRounds,      \* --design-rounds
    MaxAmendments,  \* --amendments
    MaxRepairs,     \* MAX_REPAIRS
    MaxReopens,     \* MAX_VERDICT_REOPENS
    KillAt          \* where a process may be killed

Node == Child \cup {Root}
Request == Add \cup Replace
NotStated == 0

ASSUME NodeAssumption == /\ Root \notin Child /\ Mentions \subseteq Node /\ Askers \subseteq Hard
                         /\ Hard \subseteq Node
                         /\ ordering \in [Child -> Nat]
                         /\ \A c, d \in Child : ordering[c] = ordering[d] => c = d
ASSUME DataAssumption == Wording \in [Child -> SUBSET (Nat \ {NotStated})] /\ NoRequest \notin Request
ASSUME CapAssumption == /\ {MaxAttempts, MaxRounds, MaxAmendments, MaxReopens} \subseteq Nat \ {0}
                        /\ {ReviewAfter, MaxRepairs} \subseteq Nat

\* A proposal: the children it states, and how.
Proposal == {p \in [Child -> {NotStated} \cup UNION {Wording[c] : c \in Child}] :
                 \A c \in Child : p[c] \in Wording[c] \cup {NotStated}}
NoChildren == [c \in Child |-> NotStated]

Pc == {"down", "propose", "settle", "adopt", "children", "edge", "resume", "revalidate",
       "adjudicate", "verdict", "apply", "judge", "salvage", "replay", "mark",
       "dispatch", "requests", "revise", "integrate"}
Why == {"initial", "revise", "restate"}
Answers == {"stated", "bad", "late", "infrastructure"}
\* What a design may be blamed for: a prover's contest, or a failure; a proof or an
\* infrastructure error is "fine".
Outcomes == {"none", "fine", "contested", "stuck"}
Job == [req : Request \cup {NoRequest}, by : Node, approved : BOOLEAN]
VerdictOf == [node : Node, restate : BOOLEAN, moved : BOOLEAN]
NoJob == [req |-> NoRequest, by |-> Root, approved |-> FALSE]
NoStatementVerdict == [node |-> Root, restate |-> FALSE, moved |-> FALSE]

VARIABLES
    status,   \* nodes.proof_status; "absent" before the node is added
    stmt,     \* a child's statement
    spent,    \* prover attempts charged at the node's epoch
    pin,      \* of the edge root -> child: "none", "current" or "stale"
    uses,     \* the children's statements the root's body was last gated with
    behind,   \* proved nodes last gated against an earlier development
    marked,   \* nodes whose contest_adjudicated meta is their epoch
    reopens,  \* the contest_adjudicated:reopens meta
    told,     \* nodes whose evidence starts with the amended marker
    adopted,  \* the design_proposal meta
    designed, \* the designed_file meta: the development in use, or a candidate
    rounds,   \* design rounds used, as the decomposer's rows say
    pc,       \* where the process is
    why,      \* what is being settled or adopted
    answer,   \* the decomposer's last answer
    hand,     \* the proposal in hand
    repairs,  \* cheap repairs in this settle loop
    todo,     \* nodes the present loop has not visited
    started,  \* FALSE while contests left by an earlier run are adjudicated
    asked,    \* AmendmentRun.adjudicated, at the nodes' epochs
    seen,     \* AmendmentRun.seen
    applied,  \* AmendmentRun.applied
    restated, \* AmendmentRun.restated
    outcome,  \* the latest outcome of each node since the last design
    review,   \* nodes of the last dispatch the approver is to look at
    requests, \* what the last dispatch asked for, with the requester credited
    job,      \* the request being applied
    verdict,  \* the statement verdict being carried out
    refused,  \* requesters told no in this pass
    changed,  \* this pass changed the development or reopened a node
    sanctioned, \* history: "no" once an unapproved candidate is the development; "cut" if a
                \* process was cut off in the approver's question before
    hints,    \* history: times a verdict reopened the node, as far as the cap and one
    withheld, \* history: nodes whose retry waits for the answer to a new request
    inherited \* history: of the proofs this process found behind, those it has not gated

graph == <<status, stmt, spent, pin, uses, behind, marked, reopens, told, adopted, designed, rounds>>
nodes == <<status, stmt, spent, pin, uses, behind, told>>
metas == <<marked, reopens, adopted, designed>>
settling == <<why, answer, hand, repairs>>
amending == <<asked, seen, applied, restated, requests, job, verdict, refused, changed>>
reports == <<started, outcome, review>>
history == <<sanctioned, hints, withheld, inherited>>
vars == <<graph, pc, settling, todo, amending, reports, history>>

-----------------------------------------------------------------------------
(* The graph read and written *)

Proved == {n \in Node : status[n] \in ProvedStatus}
LiveChild == {c \in Child : status[c] \notin {"absent", "attic"}}
Having(s) == {n \in Node : status[n] = s}
WithBudget == {n \in Node : spent[n] < MaxAttempts}

\* What a replay assembles: the live children as they are stated now.
AsStated == [c \in Child |-> IF c \in LiveChild THEN stmt[c] ELSE NotStated]

Turn(c) == c \in todo /\ \A d \in todo : ordering[c] <= ordering[d]

\* The nodes of N are written with status s.
Write(N, s) == status' = [n \in Node |-> IF n \in N THEN s ELSE status[n]]

\* A new epoch for the nodes of N; and, when `follow`, the root's edges re-pinned.
NewEpoch(N, follow) ==
    /\ spent' = [n \in Node |-> IF n \in N THEN 0 ELSE spent[n]]
    /\ marked' = marked \ N
    /\ asked' = asked \ N
    /\ pin' = [c \in Child |-> IF pin[c] = "none" THEN "none"
                               ELSE IF follow THEN "current"
                               ELSE IF c \in N THEN "stale" ELSE pin[c]]

\* One more, as far as what the cap must tell apart.
Plus(count, n) == [count EXCEPT ![n] = IF @ > MaxReopens THEN @ ELSE @ + 1]

\* revalidate(): of the proved nodes looked at, those of `kept` still gate.
Regated(kept, dropped) ==
    /\ behind' = behind \ (kept \cup dropped)
    /\ inherited' = inherited \ (kept \cup dropped)
    /\ uses' = IF Root \in kept THEN AsStated
               ELSE IF Root \in dropped THEN NoChildren ELSE uses

\* The process is over; what it held in memory is gone.
Exit ==
    /\ pc' = "down"
    /\ why' = "initial" /\ answer' = "bad" /\ hand' = NoChildren /\ repairs' = 0
    /\ todo' = {}
    /\ started' = FALSE /\ outcome' = [n \in Node |-> "none"] /\ review' = {}
    /\ asked' = {} /\ seen' = {} /\ applied' = 0 /\ restated' = 0
    /\ requests' = {} /\ refused' = {} /\ changed' = FALSE
    /\ job' = NoJob
    /\ verdict' = NoStatementVerdict
    /\ withheld' = {} /\ inherited' = {}

\* resume_development: the development is what the graph has recorded.
StartRun ==
    /\ pc = "down"
    /\ pc' = IF LiveChild = {} THEN "propose" ELSE "resume"
    /\ designed' = "dev"
    /\ IF designed = "candidate"
       THEN /\ behind' = Proved
            /\ sanctioned' = IF sanctioned = "yes" THEN "no" ELSE sanctioned
       ELSE UNCHANGED <<behind, sanctioned>>
    /\ inherited' = behind'
    /\ UNCHANGED <<status, stmt, spent, pin, uses, marked, reopens, told, adopted, rounds,
                   settling, todo, amending, reports, hints, withheld>>

\* The process ends while the approver is asked, or elsewhere.
CutOff ==
    /\ Exit
    /\ sanctioned' = IF pc = "judge" /\ sanctioned = "yes" THEN "cut" ELSE sanctioned

Kill ==
    /\ pc \in KillAt /\ CutOff
    /\ UNCHANGED <<graph, hints>>

-----------------------------------------------------------------------------
(* DesignDriver: stating and settling a design *)

\* A round of the decomposer, or of the approver in its place: a proposal, a reply
\* out of shape, a clock that ran out, or nothing that is the model's doing.
Answered ==
    /\ answer' \in Answers
    /\ IF answer' = "stated" THEN hand' \in Proposal \ {NoChildren} ELSE hand' = NoChildren

Initial ==
    /\ pc = "propose"
    /\ rounds < MaxRounds
    /\ rounds' = rounds + 1
    /\ \/ Exit
       \/ /\ Answered
          /\ answer' # "infrastructure"
          /\ answer' # "stated" => rounds' < MaxRounds
          /\ pc' = "settle" /\ why' = "initial" /\ repairs' = 0
          /\ UNCHANGED <<todo, amending, reports, withheld, inherited>>
    /\ UNCHANGED <<nodes, metas, sanctioned, hints>>

\* The rounds are spent, across runs: OrchestrationRequired.
NoRoundLeft ==
    /\ pc = "propose" /\ rounds >= MaxRounds /\ Exit
    /\ UNCHANGED <<graph, sanctioned, hints>>

\* apply_design() passes every check: the designed copy is the development.
Applies ==
    /\ pc = "settle" /\ answer = "stated"
    /\ behind' = Proved
    /\ pc' = "adopt"
    /\ repairs' = 0
    /\ UNCHANGED <<status, stmt, spent, pin, uses, told, metas, rounds, why, answer, hand, todo, amending,
                   reports, history>>

DoesNotApply ==
    /\ pc = "settle" /\ answer = "stated"
    /\ answer' = "bad" /\ hand' = NoChildren
    /\ UNCHANGED <<graph, pc, why, repairs, todo, amending, reports, history>>

Repair ==
    /\ pc = "settle" /\ answer = "bad"
    /\ repairs < MaxRepairs
    /\ repairs' = repairs + 1
    /\ Answered
    /\ UNCHANGED <<graph, pc, why, todo, amending, reports, history>>

AskAgain ==
    /\ pc = "settle"
    /\ answer = "late" \/ (answer = "bad" /\ repairs >= MaxRepairs)
    /\ rounds < MaxRounds
    /\ rounds' = rounds + 1
    /\ Answered
    /\ UNCHANGED <<nodes, metas, pc, why, repairs, todo, amending, reports, history>>

NotSettled ==
    /\ pc = "settle"
    /\ \/ answer = "infrastructure"
       \/ /\ answer = "late" \/ (answer = "bad" /\ repairs >= MaxRepairs)
          /\ rounds >= MaxRounds
    /\ IF why = "initial"
       THEN Exit
       ELSE /\ pc' = "integrate"
            /\ why' = "initial" /\ answer' = "bad" /\ repairs' = 0
            /\ UNCHANGED <<hand, todo, amending, reports, withheld, inherited>>
    /\ UNCHANGED <<graph, sanctioned, hints>>

-----------------------------------------------------------------------------
(* adopt_proposal: one transaction after another *)

AdoptProposal ==
    /\ pc = "adopt"
    /\ adopted' = hand
    /\ todo' = {c \in Child : hand[c] # NotStated}
    /\ pc' = "children"
    /\ answer' = "bad" /\ hand' = NoChildren
    /\ UNCHANGED <<nodes, marked, reopens, designed, rounds, why, repairs, amending, reports, history>>

AddChild(c) ==
    /\ pc = "children" /\ Turn(c)
    /\ status[c] = "absent"
    /\ Write({c}, "open")
    /\ stmt' = [stmt EXCEPT ![c] = adopted[c]]
    /\ pc' = "edge"
    /\ UNCHANGED <<spent, pin, uses, behind, told, metas, rounds, settling, todo, amending, reports,
                   history>>

\* A faulty variant: the new statement is written under the old epoch.
RestateInPlace(c) ==
    /\ pc = "children" /\ Turn(c)
    /\ status[c] # "absent" /\ stmt[c] # adopted[c]
    /\ Write({c}, "open")
    /\ stmt' = [stmt EXCEPT ![c] = adopted[c]]
    /\ behind' = behind \ {c}
    /\ hints' = IF why = "restate" THEN Plus(hints, c) ELSE hints
    /\ pc' = "edge"
    /\ UNCHANGED <<spent, pin, uses, told, metas, rounds, settling, todo, amending, reports,
                   sanctioned, withheld, inherited>>

RestateChild(c) ==
    /\ pc = "children" /\ Turn(c)
    /\ status[c] # "absent" /\ stmt[c] # adopted[c]
    /\ Write({c}, "open")
    /\ stmt' = [stmt EXCEPT ![c] = adopted[c]]
    /\ NewEpoch({c}, FALSE)
    /\ behind' = behind \ {c}
    /\ hints' = IF why = "restate" THEN Plus(hints, c) ELSE hints
    /\ pc' = "edge"
    /\ UNCHANGED <<uses, told, reopens, adopted, designed, rounds, settling, todo, seen, applied,
                   restated, requests, job, verdict, refused, changed, reports, sanctioned, withheld, inherited>>

\* add_edge of a new child, ensure_edge of a restated one.
DemandEdge(c) ==
    /\ pc = "edge" /\ Turn(c)
    /\ pin' = [pin EXCEPT ![c] = IF @ = "none" THEN "current" ELSE @]
    /\ todo' = todo \ {c}
    /\ pc' = "children"
    /\ UNCHANGED <<status, stmt, spent, uses, behind, told, metas, rounds, settling, amending,
                   reports, history>>

\* A faulty variant: a child stated as it was before is left in the attic.
KeepRetired(c) ==
    /\ pc = "children" /\ Turn(c)
    /\ status[c] # "absent" /\ stmt[c] = adopted[c]
    /\ todo' = todo \ {c}
    /\ UNCHANGED <<nodes, metas, rounds, pc, settling, amending, reports, history>>

KeepChild(c) ==
    /\ pc = "children" /\ Turn(c)
    /\ status[c] # "absent" /\ stmt[c] = adopted[c]
    /\ IF status[c] = "attic" THEN Write({c}, "open") ELSE UNCHANGED <<status>>
    /\ todo' = todo \ {c}
    /\ UNCHANGED <<stmt, spent, pin, uses, behind, told, metas, rounds, pc, settling, amending,
                   reports, history>>

RetireDropped ==
    /\ pc = "children" /\ todo = {}
    /\ Write({c \in LiveChild \ Proved : adopted[c] = NotStated}, "attic")
    /\ pc' = IF why = "initial" THEN "resume" ELSE "replay"
    /\ UNCHANGED <<stmt, spent, pin, uses, behind, told, metas, rounds, settling, todo, amending,
                   reports, history>>

-----------------------------------------------------------------------------
(* Before the first dispatch *)

Resume ==
    /\ pc = "resume"
    /\ Write(Having("stuck") \cap WithBudget, "open")
    /\ pc' = "revalidate"
    /\ UNCHANGED <<stmt, spent, pin, uses, behind, told, metas, rounds, settling, todo, amending,
                   reports, history>>

\* Stuck nodes a resumed run hands to the approver first.
ParkedForReview ==
    IF ReviewAfter = 0 THEN {}
    ELSE {n \in Having("stuck") : /\ spent[n] >= ReviewAfter
                                  /\ n \notin marked \cup told}

\* revalidate(only_stale): only the root has demand edges.
Revalidate ==
    /\ pc = "revalidate"
    /\ \/ /\ Root \in Proved /\ \E c \in Child : pin[c] = "stale"
          /\ \/ Regated({Root}, {}) /\ NewEpoch({}, TRUE) /\ UNCHANGED <<status>>
             \/ Regated({}, {Root}) /\ NewEpoch({Root}, FALSE) /\ Write({Root}, "open")
       \/ /\ Root \notin Proved \/ \A c \in Child : pin[c] # "stale"
          /\ UNCHANGED <<status, spent, pin, uses, behind, marked, asked, inherited>>
    /\ todo' = Having("contested") \cup ParkedForReview
    /\ pc' = "adjudicate"
    /\ UNCHANGED <<stmt, told, reopens, adopted, designed, rounds, settling, seen, applied, restated,
                   requests, job, verdict, refused, changed, reports,
                   sanctioned, hints, withheld>>

-----------------------------------------------------------------------------
(* AmendmentRun.adjudicate: contested nodes, and stuck ones parked for review *)

Adjudicable(n) == /\ n \notin asked \cup marked
                  /\ status[n] \in {"contested", "stuck"}

\* Already asked at its epoch, or moved on since it was listed -- or no usable verdict.
NoVerdict(n) ==
    /\ pc = "adjudicate" /\ n \in todo
    /\ todo' = todo \ {n}
    /\ UNCHANGED <<graph, pc, settling, amending, reports, history>>

\* `strategy`: the statement stands, and the node gets a new epoch.
HintAndReopen(n) ==
    /\ pc = "adjudicate" /\ n \in todo
    /\ Adjudicable(n)
    /\ reopens[n] < MaxReopens
    /\ Write({n}, "open")
    /\ NewEpoch({n}, n \in Child)
    /\ reopens' = Plus(reopens, n)
    /\ hints' = Plus(hints, n)
    /\ told' = told \ {n}
    /\ changed' = TRUE
    /\ todo' = todo \ {n}
    /\ UNCHANGED <<stmt, uses, behind, adopted, designed, rounds, pc, settling, seen, applied,
                   restated, requests, job, verdict, refused, reports, sanctioned, withheld, inherited>>

HintsExhausted(n) ==
    /\ pc = "adjudicate" /\ n \in todo
    /\ Adjudicable(n)
    /\ reopens[n] >= MaxReopens
    /\ asked' = asked \cup {n}
    /\ marked' = marked \cup {n}
    /\ todo' = todo \ {n}
    /\ UNCHANGED <<nodes, reopens, adopted, designed, rounds, pc, settling, seen, applied, restated,
                   requests, job, verdict, refused, changed, reports, history>>

\* `statement`: with a fix of one definition, a restatement, both or neither.
FindStatementWrong(n) ==
    /\ pc = "adjudicate" /\ n \in todo
    /\ Adjudicable(n)
    /\ asked' = asked \cup {n}
    /\ todo' = todo \ {n}
    /\ \E fix \in Replace \cup {NoRequest}, restate \in BOOLEAN :
          /\ restate => n \in Child
          /\ verdict' = [node |-> n, restate |-> restate, moved |-> FALSE]
          /\ job' = [req |-> fix, by |-> n, approved |-> TRUE]
          /\ pc' = IF fix = NoRequest THEN "verdict" ELSE "apply"
    /\ UNCHANGED <<graph, settling, seen, applied, restated, requests, refused, changed, reports,
                   history>>

\* restate(): the corrected sentence in the adopted design, checked as a design is.
Restate ==
    /\ pc = "verdict"
    /\ verdict.restate
    /\ reopens[verdict.node] < MaxReopens
    /\ verdict.node \in LiveChild
    /\ applied + restated < MaxAmendments
    /\ adopted # NoChildren
    /\ \E w \in Wording[verdict.node] \ {stmt[verdict.node]} : hand' = [AsStated EXCEPT ![verdict.node] = w]
    /\ restated' = restated + 1
    /\ behind' = Proved
    /\ why' = "restate" /\ answer' = "stated"
    /\ pc' = "adopt"
    /\ UNCHANGED <<status, stmt, spent, pin, uses, told, metas, rounds, repairs, todo, asked,
                   seen, applied, requests, job, verdict, refused, changed, reports, history>>

\* No restatement, or one that some check turns down: the verdict itself is the move.
FinishVerdict ==
    /\ pc = "verdict"
    /\ LET n == verdict.node IN
       /\ IF status[n] = "stuck" THEN Write({n}, "contested") /\ told' = told \ {n}
                                 ELSE UNCHANGED <<status, told>>
       /\ marked' = IF verdict.moved THEN marked ELSE marked \cup {n}
       /\ changed' = (changed \/ status[n] = "open")
    /\ verdict' = NoStatementVerdict /\ job' = NoJob
    /\ pc' = "adjudicate"
    /\ UNCHANGED <<stmt, spent, pin, uses, behind, reopens, adopted, designed, rounds, settling, todo,
                   asked, seen, applied, restated, requests, refused, reports, history>>

FirstDispatch ==
    /\ pc = "adjudicate" /\ todo = {} /\ ~started
    /\ started' = TRUE
    /\ pc' = "dispatch" /\ todo' = Having("open")
    /\ outcome' = [n \in Node |-> "none"]
    /\ refused' = {} /\ changed' = FALSE
    /\ UNCHANGED <<graph, settling, asked, seen, applied, restated, requests, job, verdict, review,
                   history>>

-----------------------------------------------------------------------------
(* AmendmentRun.apply and apply_amendment: one request *)

\* The node and the request of the next job: replacements before additions.
TakeRequest ==
    /\ pc \in {"dispatch", "requests"} /\ todo = {}
    /\ \E asking \in requests :
          /\ asking[1] \in Add => \A other \in requests : other[1] \in Add
          /\ requests' = requests \ {asking}
          /\ job' = [req |-> asking[1], by |-> asking[2], approved |-> FALSE]
    /\ pc' = "apply"
    /\ UNCHANGED <<graph, settling, todo, asked, seen, applied, restated, verdict, refused, changed,
                   reports, history>>

Return == pc' = (IF job.approved THEN "verdict" ELSE "requests") /\ job' = NoJob

\* A restatement goes with its companion fix, or not at all.
NotApplied ==
    verdict' = IF job.approved THEN [verdict EXCEPT !.restate = FALSE] ELSE verdict

AlreadySeen ==
    /\ pc = "apply" /\ job.req \in seen
    /\ NotApplied /\ Return
    /\ UNCHANGED <<graph, settling, todo, asked, seen, applied, restated, requests, refused,
                   changed, reports, history>>

\* Capped, or turned down by a check before anything is asked.
Refuse ==
    /\ pc = "apply" /\ job.req \notin seen
    /\ seen' = seen \cup {job.req}
    /\ refused' = refused \cup {job.by}
    /\ NotApplied /\ Return
    /\ UNCHANGED <<graph, settling, todo, asked, applied, restated, requests, changed, reports,
                   history>>

\* The amended copy compiles and is recorded, before the approver is asked; a fix is
\* the approver's already.
WriteCandidate ==
    /\ pc = "apply" /\ job.req \notin seen
    /\ applied < MaxAmendments
    /\ seen' = seen \cup {job.req}
    /\ IF job.approved
       THEN pc' = "salvage" /\ behind' = Proved /\ UNCHANGED <<designed>>
       ELSE pc' = "judge" /\ designed' = "candidate" /\ UNCHANGED <<behind>>
    /\ UNCHANGED <<status, stmt, spent, pin, uses, told, marked, reopens, adopted, rounds, settling,
                   todo, asked, applied, restated, requests, job, verdict, refused, changed, reports,
                   history>>

\* A faulty variant: the graph keeps pointing at the rejected copy.
RejectsOnly ==
    /\ pc = "judge"
    /\ refused' = refused \cup {job.by}
    /\ NotApplied /\ Return
    /\ UNCHANGED <<graph, settling, todo, asked, seen, applied, restated, requests, changed,
                   reports, history>>

\* Rejected, no usable verdict, or an adjustment that does not apply.
Reject ==
    /\ pc = "judge"
    /\ designed' = "dev"
    /\ refused' = refused \cup {job.by}
    /\ NotApplied /\ Return
    /\ UNCHANGED <<nodes, marked, reopens, adopted, rounds, settling, todo, asked, seen, applied,
                   restated, requests, changed, reports, history>>

Accept ==
    /\ pc = "judge"
    /\ designed' = "dev"
    /\ behind' = Proved
    /\ pc' = "salvage"
    /\ UNCHANGED <<status, stmt, spent, pin, uses, told, marked, reopens, adopted, rounds, settling,
                   todo, amending, reports, history>>

\* _replay_and_reopen: the proofs that no longer gate; the requester; what the change
\* taints; and whatever else is stuck with attempts left.
Salvage ==
    /\ pc = "salvage"
    /\ \E kept \in SUBSET Proved :
       LET broken    == Proved \ kept
           requester == {job.by} \cap Having("stuck") \cap WithBudget
           tainted   == ((Mentions \cup {job.by}) \cap (Having("stuck") \cup Having("contested")))
                        \ requester
           others    == (Having("stuck") \cap WithBudget) \ (requester \cup tainted)
           reopened  == broken \cup requester \cup tainted \cup others
       IN /\ Write(reopened, "open")
          /\ Regated(kept, broken)
          /\ NewEpoch(broken \cup tainted, Root \in kept \/ reopened \cap Child # {})
          /\ told' = told \cup reopened \cup ({job.by} \cap Having("open"))
          /\ verdict' = [verdict EXCEPT !.moved = @ \/ verdict.node \in tainted]
    /\ applied' = applied + 1
    /\ changed' = TRUE
    /\ Return
    /\ UNCHANGED <<stmt, reopens, adopted, designed, rounds, settling, todo, seen, restated, requests, refused, reports,
                   sanctioned, hints, withheld>>

RequestsEnd ==
    /\ pc \in {"dispatch", "requests"} /\ todo = {} /\ requests = {}
    /\ todo' = review
    /\ pc' = "adjudicate"
    /\ UNCHANGED <<graph, settling, amending, reports, history>>

-----------------------------------------------------------------------------
(* revalidate() after a design or a restatement was adopted *)

\* A faulty variant: the pins follow the epochs, and nothing is gated again.
FollowsUngated ==
    /\ pc = "replay" /\ why = "restate"
    /\ pin' = [c \in Child |-> IF pin[c] = "none" THEN "none" ELSE "current"]
    /\ told' = told \ {verdict.node}
    /\ pc' = "mark"
    /\ why' = "initial"
    /\ UNCHANGED <<status, stmt, spent, uses, behind, metas, rounds, answer, hand, repairs, todo,
                   amending, reports, history>>

ReplayRestated ==
    /\ pc = "replay" /\ why = "restate"
    /\ \E kept \in SUBSET Proved :
          /\ Write(Proved \ kept, "open")
          /\ Regated(kept, Proved \ kept)
          /\ NewEpoch(Proved \ kept, TRUE)
    /\ told' = told \ {verdict.node}
    /\ pc' = "mark"
    /\ why' = "initial"
    /\ UNCHANGED <<stmt, reopens, adopted, designed, rounds, answer, hand, repairs, todo, seen, applied, restated,
                   requests, job, verdict, refused, changed, reports,
                   sanctioned, hints, withheld>>

\* The mark names the epoch the verdict was about, which is over.
MarkRestated ==
    /\ pc = "mark"
    /\ reopens' = Plus(reopens, verdict.node)
    /\ changed' = TRUE
    /\ verdict' = NoStatementVerdict /\ job' = NoJob
    /\ pc' = "adjudicate"
    /\ UNCHANGED <<nodes, marked, adopted, designed, rounds, settling, todo, asked, seen, applied,
                   restated, requests, refused, reports, history>>

\* A faulty variant: as when a run is resumed, only stale edges are looked at.
ReplayStale ==
    /\ pc = "replay" /\ why = "revise"
    /\ LET refreshed == {n \in Node \ Proved : status[n] \notin {"absent", "attic"}}
       IN /\ Write(Having("stuck"), "open")
          /\ NewEpoch(refreshed, refreshed \cap Child # {})
          /\ todo' = Having("stuck") \cup Having("open")
    /\ outcome' = [n \in Node |-> "none"]
    /\ pc' = "dispatch"
    /\ changed' = FALSE /\ refused' = {}
    /\ why' = "initial"
    /\ UNCHANGED <<stmt, uses, behind, told, reopens, adopted, designed, rounds, answer, hand, repairs,
                   seen, applied, restated, requests, job, verdict, started, review, history>>

\* refresh_after_revision and reopen_incomplete: a new budget for what is not proved.
ReplayRevised ==
    /\ pc = "replay" /\ why = "revise"
    /\ \E kept \in SUBSET Proved :
       LET broken == Proved \ kept
           refreshed == {n \in Node \ kept : status[n] \notin {"absent", "attic"}}
       IN /\ Write(broken \cup Having("stuck"), "open")
          /\ Regated(kept, broken)
          /\ NewEpoch(refreshed, Root \in kept \/ refreshed \cap Child # {})
          /\ todo' = broken \cup Having("stuck") \cup Having("open")
    /\ outcome' = [n \in Node |-> "none"]
    /\ pc' = "dispatch"
    /\ changed' = FALSE /\ refused' = {}
    /\ why' = "initial"
    /\ UNCHANGED <<stmt, told, reopens, adopted, designed, rounds, answer, hand, repairs, seen, applied, restated,
                   requests, job, verdict, started, review,
                   sanctioned, hints, withheld>>

-----------------------------------------------------------------------------
(* ToolchainError: coqc cannot be run, or its clock runs out, where nothing catches it *)

\* _compile_or_raise() in apply_design(): nothing is written, or the candidate stays.
CannotCheck ==
    /\ \/ pc = "settle" /\ answer = "stated"
       \/ pc = "verdict" /\ verdict.restate
       \/ pc = "apply" /\ job.req \notin seen /\ applied < MaxAmendments
       \/ pc = "judge"
    /\ CutOff
    /\ UNCHANGED <<graph, hints>>

\* The order in which revalidate() goes through the proofs.
Before(n, m) == m # Root /\ (n # Root => ordering[n] < ordering[m])

\* revalidate(): what was replayed so far is re-pinned or reopened, and the rest left.
CannotReplay ==
    /\ pc \in {"revalidate", "salvage", "replay"}
    /\ \E kept, broken \in SUBSET Proved :
       LET looked == kept \cup broken
       IN /\ kept \cap broken = {} /\ looked # Proved
          /\ \A n \in looked, m \in Proved \ looked : Before(n, m)
          /\ pc = "revalidate" => looked = {} /\ Root \in Proved /\ \E c \in Child : pin[c] = "stale"
          /\ Write(broken, "open")
          /\ behind' = behind \ looked
          /\ uses' = IF Root \in kept THEN AsStated ELSE IF Root \in broken THEN NoChildren ELSE uses
          /\ spent' = [n \in Node |-> IF n \in broken THEN 0 ELSE spent[n]]
          /\ marked' = marked \ broken
          /\ pin' = [c \in Child |-> IF pin[c] = "none" THEN "none"
                                     ELSE IF c \in broken THEN "stale"
                                     ELSE IF Root \in kept THEN "current" ELSE pin[c]]
    /\ CutOff
    /\ UNCHANGED <<stmt, reopens, told, adopted, designed, rounds, hints>>

-----------------------------------------------------------------------------
(* A dispatch: Scheduler.run, one node at a time *)

\* k attempts have failed in this dispatch: does the approver look before the next?
WantsReview(n, k) ==
    /\ ReviewAfter > 0 /\ spent[n] + k >= ReviewAfter
    /\ n \notin marked
    /\ ~(k = 0 /\ n \in told)

Stops(n, k) == WantsReview(n, k) \/ spent[n] + k >= MaxAttempts

\* The failed attempts after which this dispatch goes no further.
StopsAfter(n, k) == Stops(n, k) /\ \A j \in 0..(k - 1) : ~Stops(n, j)

\* k attempts are charged and the node is left with status s and outcome o.
Ran(n, k, s, o, look) ==
    /\ Write({n}, s)
    /\ spent' = [spent EXCEPT ![n] = @ + k]
    /\ outcome' = [outcome EXCEPT ![n] = o]
    /\ review' = IF look THEN review \cup {n} ELSE review
    /\ told' = IF s = "open" THEN told ELSE told \ {n}
    /\ todo' = todo \ {n}
    /\ UNCHANGED <<stmt, metas, rounds, pc, settling, started, asked, seen, applied, restated, job,
                   verdict, refused, changed, sanctioned, hints, inherited>>

\* k more attempts, the last of which is not the failure that ends the dispatch.
Attempts(n, k) == k \in 1..MaxAttempts /\ \A j \in 0..(k - 1) : ~Stops(n, j)

GivesUp(n) ==
    /\ pc = "dispatch" /\ n \in todo \cap Hard
    /\ \E k \in 0..MaxAttempts :
          /\ StopsAfter(n, k)
          /\ Ran(n, k, "stuck", "stuck", WantsReview(n, k))
    /\ withheld' = withheld \ {n}
    /\ UNCHANGED <<pin, uses, behind, requests>>

Proves(n) ==
    /\ pc = "dispatch" /\ n \in todo
    /\ \E k \in 1..MaxAttempts : Attempts(n, k) /\ Ran(n, k, "gated", "fine", FALSE)
    /\ IF n = Root
       THEN /\ uses' = AsStated
            /\ pin' = [c \in Child |-> IF pin[c] = "none" THEN "none" ELSE "current"]
       ELSE UNCHANGED <<uses, pin>>
    /\ behind' = behind \ {n}
    /\ withheld' = withheld \ {n}
    /\ UNCHANGED <<requests>>

\* Contested, or broken off: either may carry a request.
ContestsOrAsks(n) ==
    /\ pc = "dispatch" /\ n \in todo \cap Hard
    /\ \E k \in 1..MaxAttempts, r \in Request \cup {NoRequest} :
          /\ Attempts(n, k)
          /\ r # NoRequest => n \in Askers
          /\ \/ Ran(n, k, "contested", "contested", TRUE) /\ withheld' = withheld \ {n}
             \/ /\ r # NoRequest /\ Ran(n, k, "stuck", "stuck", FALSE)
                /\ withheld' = IF r \in seen THEN withheld \ {n} ELSE withheld \cup {n}
          /\ requests' = IF r = NoRequest \/ \E m \in Node : <<r, m>> \in requests
                         THEN requests ELSE requests \cup {<<r, n>>}
    /\ UNCHANGED <<pin, uses, behind>>

\* The runner or the gate could not run: not charged, and parked or left open.
Errs(n) ==
    /\ pc = "dispatch" /\ n \in todo
    /\ \E k \in 1..MaxAttempts, s \in {"stuck", "open"} :
          Attempts(n, k) /\ Ran(n, k - 1, s, "fine", FALSE)
    /\ withheld' = withheld \ {n}
    /\ UNCHANGED <<pin, uses, behind, requests>>

-----------------------------------------------------------------------------
(* retry_refused, the end of the pass, and the next design round *)

\* A faulty variant: a refusal is an answer, and no retry.
TellsOnly ==
    /\ pc = "adjudicate" /\ todo = {} /\ started
    /\ refused' = {} /\ changed' = FALSE /\ review' = {}
    /\ IF changed THEN pc' = "dispatch" /\ todo' = Having("open")
                  ELSE pc' = "revise" /\ UNCHANGED <<todo>>
    /\ UNCHANGED <<graph, settling, asked, seen, applied, restated, requests, job, verdict, started,
                   outcome,
                   history>>

\* A faulty variant: what changed in one pass is still news in the next.
DispatchesAgain ==
    /\ pc = "adjudicate" /\ todo = {} /\ started
    /\ LET retried == refused \cap Having("stuck") \cap WithBudget IN
       /\ Write(retried, "open")
       /\ IF changed \/ retried # {}
          THEN pc' = "dispatch" /\ todo' = Having("open") \cup retried
          ELSE pc' = "revise" /\ UNCHANGED <<todo>>
    /\ refused' = {} /\ review' = {}
    /\ UNCHANGED <<stmt, spent, pin, uses, behind, told, metas, rounds, settling, asked, seen,
                   applied, restated, requests, job, verdict, changed, started, outcome, history>>

RetryRefused ==
    /\ pc = "adjudicate" /\ todo = {} /\ started
    /\ LET retried == refused \cap Having("stuck") \cap WithBudget IN
       /\ Write(retried, "open")
       /\ IF changed \/ retried # {}
          THEN pc' = "dispatch" /\ todo' = Having("open") \cup retried
          ELSE pc' = "revise" /\ UNCHANGED <<todo>>
    /\ refused' = {} /\ changed' = FALSE /\ review' = {}
    /\ UNCHANGED <<stmt, spent, pin, uses, behind, told, metas, rounds, settling, asked, seen,
                   applied, restated, requests, job, verdict, started,
                   outcome, history>>

\* design_failed(): of what was dispatched, and of what an earlier run left behind.
Standing(n) ==
    /\ outcome[n] = "none"
    /\ status[n] = "contested" \/ (status[n] = "stuck" /\ n \notin WithBudget)

Blamed == {n \in Node : outcome[n] = "contested" \/ (Standing(n) /\ status[n] = "contested")}

MayBeBlamed == {n \in Node : outcome[n] = "stuck" \/ Standing(n)}

Revise ==
    /\ pc = "revise"
    /\ rounds < MaxRounds
    /\ Blamed \cup MayBeBlamed # {}
    /\ rounds' = rounds + 1
    /\ Answered
    /\ why' = "revise" /\ repairs' = 0
    /\ pc' = "settle"
    /\ UNCHANGED <<nodes, metas, todo, amending, reports, history>>

ReviseEnds ==
    /\ pc = "revise"
    /\ rounds >= MaxRounds \/ Blamed = {}
    /\ pc' = "integrate"
    /\ UNCHANGED <<graph, settling, todo, amending, reports, history>>

\* integrate(): everything is proved, every demand edge is current, the file compiles.
Integrate ==
    /\ pc = "integrate"
    /\ \/ UNCHANGED <<status>>
       \/ /\ LiveChild \cup {Root} \subseteq Proved
          /\ \A c \in Child : pin[c] # "stale"
          /\ Write(LiveChild \cup {Root}, "integrated")
    /\ Exit
    /\ UNCHANGED <<stmt, spent, pin, uses, behind, told, metas, rounds, sanctioned, hints>>

-----------------------------------------------------------------------------
Init ==
    /\ status = [n \in Node |-> IF n = Root THEN "open" ELSE "absent"]
    /\ stmt = [c \in Child |-> NotStated]
    /\ spent = [n \in Node |-> 0]
    /\ pin = [c \in Child |-> "none"]
    /\ uses = NoChildren
    /\ behind = {} /\ marked = {} /\ told = {}
    /\ reopens = [n \in Node |-> 0]
    /\ adopted = NoChildren
    /\ designed = "dev" /\ sanctioned = "yes"
    /\ rounds = 0
    /\ hints = [n \in Node |-> 0]
    /\ pc = "down"
    /\ why = "initial" /\ answer = "bad" /\ hand = NoChildren /\ repairs = 0
    /\ todo = {}
    /\ started = FALSE /\ outcome = [n \in Node |-> "none"] /\ review = {}
    /\ asked = {} /\ seen = {} /\ applied = 0 /\ restated = 0
    /\ requests = {} /\ refused = {} /\ changed = FALSE
    /\ job = NoJob
    /\ verdict = NoStatementVerdict
    /\ withheld = {} /\ inherited = {}

Designs ==
    \/ Initial \/ NoRoundLeft \/ Applies \/ DoesNotApply \/ Repair \/ AskAgain \/ NotSettled
    \/ AdoptProposal \/ RetireDropped \/ ReplayRevised \/ Revise \/ ReviseEnds
    \/ \E c \in Child : AddChild(c) \/ RestateChild(c) \/ DemandEdge(c) \/ KeepChild(c)

Adjudicates ==
    \/ Restate \/ FinishVerdict \/ FirstDispatch \/ ReplayRestated \/ MarkRestated
    \/ \E n \in Node : NoVerdict(n) \/ HintAndReopen(n) \/ HintsExhausted(n) \/ FindStatementWrong(n)

Amends ==
    \/ TakeRequest \/ AlreadySeen \/ Refuse \/ WriteCandidate \/ Reject \/ Accept \/ Salvage
    \/ RequestsEnd \/ RetryRefused

Proving ==
    \/ Resume \/ Revalidate \/ Integrate
    \/ \E n \in Node : GivesUp(n) \/ Proves(n) \/ ContestsOrAsks(n) \/ Errs(n)

Work == Designs \/ Adjudicates \/ Amends \/ Proving
Ends == Kill \/ CannotCheck \/ CannotReplay
Next == StartRun \/ Work \/ Ends

Spec == Init /\ [][Next]_vars

-----------------------------------------------------------------------------
(* Properties *)

\* Every variable has its type.
TypeOK ==
    /\ status \in [Node -> (ProofStatus \ {"claimed", "qed"}) \cup {"absent"}]
    /\ stmt \in Proposal /\ uses \in Proposal /\ adopted \in Proposal /\ hand \in Proposal
    /\ spent \in [Node -> 0..MaxAttempts]
    /\ pin \in [Child -> {"none", "current", "stale"}]
    /\ behind \subseteq Proved /\ inherited \subseteq Node
    /\ marked \subseteq Node /\ told \subseteq Node /\ asked \subseteq Node
    /\ reopens \in [Node -> 0..MaxReopens]
    /\ designed \in {"dev", "candidate"} /\ sanctioned \in {"yes", "cut", "no"}
    /\ rounds \in 0..MaxRounds /\ repairs \in 0..MaxRepairs
    /\ pc \in Pc /\ why \in Why /\ answer \in Answers
    /\ todo \subseteq Node /\ review \subseteq Node /\ refused \subseteq Node /\ withheld \subseteq Node
    /\ outcome \in [Node -> Outcomes]
    /\ seen \subseteq Request /\ {applied, restated} \subseteq 0..MaxAmendments
    /\ requests \subseteq Request \X Node /\ job \in Job /\ verdict \in VerdictOf
    /\ started \in BOOLEAN /\ changed \in BOOLEAN
    /\ hints \in [Node -> 0..(MaxReopens + 1)]

\* A dispatch and the integration see only proofs that were gated against the
\* development they run with: after a design, an amendment or a restatement, whatever
\* is proved has been replayed or reopened (adopt, then revalidate).  What a process
\* that was cut off half-way left behind, the next one inherits: it only looks at stale
\* edges (revalidate(only_stale)), and adds nothing of its own.
ProofsAreOfThisDesign == pc \in {"dispatch", "integrate"} => behind \subseteq inherited

\* A demand edge that looks current tells the truth: the root's proof was last gated
\* with the child as it is stated now.  Re-pinning after a reopening (_follow_epochs,
\* refresh_after_revision) takes every edge of the root along, stale ones too.
PinsAreHonest ==
    Root \in Proved =>
        \A c \in Child : pin[c] = "current" => uses[c] \in {NotStated, stmt[c]}

\* What is proved at is the design that was adopted: when a dispatch begins, each
\* child of the adopted proposal is live, as stated there, and demanded by the root.
DesignIsWhole ==
    pc = "dispatch" =>
        \A c \in Child : adopted[c] # NotStated =>
            c \in LiveChild /\ stmt[c] = adopted[c] /\ pin[c] # "none"

\* No proof leans on an obligation the design gave up: when a dispatch or the
\* integration begins, whatever the root's proof was gated with is live -- unless that
\* proof is one a process cut off in a replay left to this one.
NothingRetiredIsCited ==
    pc \in {"dispatch", "integrate"} /\ Root \in Proved \ inherited =>
        \A c \in Child : uses[c] # NotStated => c \in LiveChild

\* A candidate nobody has approved is never proved against (_restore_designed_file),
\* unless a process was cut off while the approver was asked about it.
OnlyApprovedDesigns == pc \in {"dispatch", "integrate"} => sanctioned # "no"

\* A retry withheld for a request is given when the request is turned down: no
\* requester with attempts left is stuck when the amendment loop gives up.
RefusalsAreRetried ==
    pc = "revise" => withheld \cap Having("stuck") \cap WithBudget = {}

\* The amend, reopen, dispatch, ask again of a run comes to an end, whatever the
\* provers ask for, the approver says and the decomposer states.
RunsEnd == []<>(pc = "down")

\* The roles answer or their clocks run out, and the process goes on.
FairSpec == Spec /\ WF_vars(Work)
=============================================================================
