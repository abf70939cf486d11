------------------------- MODULE DesignRoundsProofs -------------------------
(***************************************************************************)
(* Whatever the decomposer, the approver and the provers answer, for any    *)
(* number of obligations, wordings, rounds and amendments: what a dispatch  *)
(* and the integration see is proofs of the design in use.  The inductive   *)
(* invariant says, for each place of the driver, what is already true of    *)
(* the graph there, and what is not yet.  A compilation or a replay that    *)
(* cannot run may end the process anywhere; a theorem that needs it names   *)
(* the places where a process must not be killed.                           *)
(***************************************************************************)
EXTENDS DesignRounds, TLAPS

\* Where a design is adopted: the graph is between two designs.
Adopting == {"adopt", "children", "edge", "replay"}

\* A reason to settle or to adopt is only kept while that is done, and while a
\* request is applied there is one.
ReasonsInPlace ==
    /\ why # "initial" => pc \in {"settle"} \cup Adopting
    /\ pc = "replay" => why # "initial"
    /\ why = "restate" => pc # "settle"
    /\ pc \in {"apply", "judge", "salvage"} => job.req \in Request

\* A step that counts a reopening or an amendment has room to.
CapsAhead ==
    /\ why = "restate" \/ pc = "mark" => reopens[verdict.node] < MaxReopens
    /\ pc \in {"judge", "salvage"} => applied < MaxAmendments

\* TypeOK in three parts: the graph, ...
GraphTypes ==
    /\ status \in [Node -> (ProofStatus \ {"claimed", "qed"}) \cup {"absent"}]
    /\ stmt \in Proposal /\ uses \in Proposal /\ adopted \in Proposal /\ hand \in Proposal
    /\ pin \in [Child -> {"none", "current", "stale"}]
    /\ behind \subseteq Proved

\* ... the counters, ...
CountTypes ==
    /\ spent \in [Node -> 0..MaxAttempts]
    /\ reopens \in [Node -> 0..MaxReopens]
    /\ hints \in [Node -> 0..(MaxReopens + 1)]
    /\ rounds \in 0..MaxRounds /\ repairs \in 0..MaxRepairs
    /\ {applied, restated} \subseteq 0..MaxAmendments

\* ... and the rest.
ControlTypes ==
    /\ marked \subseteq Node /\ told \subseteq Node /\ asked \subseteq Node
    /\ designed \in {"dev", "candidate"} /\ sanctioned \in {"yes", "cut", "no"} /\ inherited \subseteq Node
    /\ pc \in Pc /\ why \in Why /\ answer \in Answers
    /\ todo \subseteq Node /\ review \subseteq Node /\ refused \subseteq Node /\ withheld \subseteq Node
    /\ outcome \in [Node -> Outcomes]
    /\ seen \subseteq Request
    /\ requests \subseteq Request \X Node /\ job \in Job /\ verdict \in VerdictOf
    /\ started \in BOOLEAN /\ changed \in BOOLEAN

\* What waits to be dispatched is open.
TodoIsOpen == pc = "dispatch" => todo \subseteq Having("open")

TInv == GraphTypes /\ CountTypes /\ ControlTypes /\ ReasonsInPlace /\ CapsAhead /\ TodoIsOpen

-----------------------------------------------------------------------------
(* Proposals *)

\* The empty proposal is one, and so is what the graph states.
LEMMA StatedProposals ==
    ASSUME GraphTypes
    PROVE  NoChildren \in Proposal /\ AsStated \in Proposal
<1>1. Wording \in [Child -> SUBSET (Nat \ {NotStated})] /\ NotStated = 0
  BY DataAssumption DEF NotStated
<1>2. NoChildren \in Proposal
  BY <1>1 DEF Proposal, NoChildren
<1>3. \A c \in Child : stmt[c] \in Wording[c] \cup {NotStated}
  BY DEF GraphTypes, Proposal
<1>4. \A c \in Child : AsStated[c] \in Wording[c] \cup {NotStated}
  BY <1>3 DEF AsStated
<1>5. AsStated \in [Child -> {NotStated} \cup UNION {Wording[c] : c \in Child}]
  BY <1>4 DEF AsStated
<1> QED
  BY <1>2, <1>4, <1>5 DEF Proposal

\* One child stated otherwise.
LEMMA RestatedProposal ==
    ASSUME NEW p \in Proposal, NEW c \in Child, NEW w \in Wording[c] \cup {NotStated}
    PROVE  [p EXCEPT ![c] = w] \in Proposal
<1>1. w \in {NotStated} \cup UNION {Wording[d] : d \in Child}
  OBVIOUS
<1>2. p \in [Child -> {NotStated} \cup UNION {Wording[d] : d \in Child}]
      /\ \A d \in Child : p[d] \in Wording[d] \cup {NotStated}
  BY DEF Proposal
<1>3. [p EXCEPT ![c] = w] \in [Child -> {NotStated} \cup UNION {Wording[d] : d \in Child}]
  BY <1>1, <1>2
<1>4. \A d \in Child : [p EXCEPT ![c] = w][d] \in Wording[d] \cup {NotStated}
  BY <1>2
<1> QED
  BY <1>3, <1>4 DEF Proposal

\* A proposal states a child in one of its wordings.
LEMMA ProposalStates ==
    ASSUME NEW p \in Proposal, NEW c \in Child
    PROVE  p[c] \in Wording[c] \cup {NotStated}
BY DEF Proposal

-----------------------------------------------------------------------------
(* Types *)

\* Writing a status that is no proof takes the nodes out of the proved ones.
LEMMA WriteProved ==
    ASSUME GraphTypes, NEW N \in SUBSET Node,
           NEW s \in (ProofStatus \ {"claimed", "qed"}) \cup {"absent"}, Write(N, s)
    PROVE  /\ status' \in [Node -> (ProofStatus \ {"claimed", "qed"}) \cup {"absent"}]
           /\ \A n \in Node : status'[n] = IF n \in N THEN s ELSE status[n]
           /\ s \notin ProvedStatus => Proved' = Proved \ N
           /\ s \in ProvedStatus => Proved' = Proved \cup N
<1>1. /\ status' \in [Node -> (ProofStatus \ {"claimed", "qed"}) \cup {"absent"}]
      /\ \A n \in Node : status'[n] = IF n \in N THEN s ELSE status[n]
  BY DEF Write, GraphTypes
<1>2. s \notin ProvedStatus => Proved' = Proved \ N
  BY <1>1 DEF Proved
<1>3. s \in ProvedStatus => Proved' = Proved \cup N
  BY <1>1 DEF Proved
<1> QED
  BY <1>1, <1>2, <1>3

\* New epochs keep the types of what they touch.
LEMMA EpochTypes ==
    ASSUME TInv, NEW N \in SUBSET Node, NEW follow \in BOOLEAN, NewEpoch(N, follow)
    PROVE  /\ pin' \in [Child -> {"none", "current", "stale"}]
           /\ spent' \in [Node -> 0..MaxAttempts]
           /\ marked' \subseteq Node /\ asked' \subseteq Node
<1>1. pin' \in [Child -> {"none", "current", "stale"}]
  BY DEF NewEpoch, TInv, GraphTypes
<1>2. spent' \in [Node -> 0..MaxAttempts]
  BY CapAssumption DEF NewEpoch, TInv, CountTypes
<1>3. marked' \subseteq Node /\ asked' \subseteq Node
  BY DEF NewEpoch, TInv, ControlTypes
<1> QED
  BY <1>1, <1>2, <1>3

\* A replay only looks at proved nodes, and leaves what it kept.
LEMMA RegatedTypes ==
    ASSUME GraphTypes, NEW kept, NEW dropped, Regated(kept, dropped)
    PROVE  uses' \in Proposal /\ behind' = behind \ (kept \cup dropped)
BY StatedProposals DEF Regated, GraphTypes

\* A step that leaves the graph as it is, but for the proofs a new design leaves behind.
LEMMA GraphStays ==
    ASSUME GraphTypes, UNCHANGED <<status, stmt, uses, adopted, pin>>,
           behind' \in {behind, Proved}, hand' \in Proposal
    PROVE  GraphTypes'
BY DEF GraphTypes, Proved

\* A step that takes nodes that are not proved to a status that is no proof.
LEMMA GraphWrites ==
    ASSUME GraphTypes, NEW N \in SUBSET Node, N \cap Proved = {},
           NEW s \in {"open", "stuck", "contested", "attic"}, Write(N, s), UNCHANGED <<stmt, uses, behind, adopted, hand>>,
           pin' \in [Child -> {"none", "current", "stale"}]
    PROVE  GraphTypes'
<1>1. s \in ProofStatus \ {"claimed", "qed"} /\ s \notin ProvedStatus
  BY DEF ProofStatus, ProvedStatus
<1>2. status' \in [Node -> (ProofStatus \ {"claimed", "qed"}) \cup {"absent"}] /\ Proved' = Proved \ N
  BY <1>1, WriteProved
<1> QED
  BY <1>2 DEF GraphTypes

\* A node in any other state is not proved.
LEMMA NotProved ==
    ASSUME NEW n \in Node, status[n] \in {"open", "stuck", "contested", "attic", "absent"}
    PROVE  n \notin Proved
BY DEF Proved, ProvedStatus

\* The design's steps.
LEMMA DesignsGraph ==
    ASSUME TInv, Designs
    PROVE  GraphTypes'
<1> GraphTypes /\ NoChildren \in Proposal
  BY StatedProposals DEF TInv
<1>1. CASE Initial \/ NoRoundLeft \/ Applies \/ DoesNotApply \/ Repair \/ AskAgain \/ NotSettled \/ Revise \/ ReviseEnds
  <2>1. UNCHANGED <<status, stmt, uses, adopted, pin>> /\ behind' \in {behind, Proved}
    BY <1>1 DEF Initial, NoRoundLeft, Applies, DoesNotApply, Repair, AskAgain, NotSettled, Revise, ReviseEnds,
         nodes, metas, graph
  <2>2. hand' \in Proposal
    BY <1>1 DEF Initial, NoRoundLeft, Applies, DoesNotApply, Repair, AskAgain, NotSettled, Revise, ReviseEnds,
         Exit, Answered, settling, GraphTypes
  <2> QED
    BY <2>1, <2>2, GraphStays
<1>2. CASE AdoptProposal
  BY <1>2 DEF AdoptProposal, nodes, GraphTypes, Proved
<1>3. CASE RetireDropped
  <2> DEFINE N == {c \in LiveChild \ Proved : adopted[c] = NotStated}
  <2>1. Write(N, "attic") /\ UNCHANGED <<stmt, uses, behind, adopted, hand, pin>>
    BY <1>3 DEF RetireDropped, settling, metas
  <2>2. N \in SUBSET Node /\ N \cap Proved = {}
    BY DEF LiveChild, Node
  <2>3. pin' \in [Child -> {"none", "current", "stale"}]
    BY <2>1 DEF GraphTypes
  <2> QED
    BY <2>1, <2>2, <2>3, GraphWrites
<1>4. CASE ReplayRevised
  <2>1. PICK kept \in SUBSET Proved :
          LET broken == Proved \ kept
              refreshed == {n \in Node \ kept : status[n] \notin {"absent", "attic"}}
          IN /\ Write(broken \cup Having("stuck"), "open")
             /\ Regated(kept, broken)
             /\ NewEpoch(refreshed, Root \in kept \/ refreshed \cap Child # {})
    BY <1>4 DEF ReplayRevised
  <2> DEFINE refreshed == {n \in Node \ kept : status[n] \notin {"absent", "attic"}}
  <2>2. pin' \in [Child -> {"none", "current", "stale"}]
    <3>1. refreshed \in SUBSET Node /\ (Root \in kept \/ refreshed \cap Child # {}) \in BOOLEAN
      OBVIOUS
    <3> QED
      BY <2>1, <3>1, EpochTypes
  <2>3. uses' \in Proposal /\ behind' = behind \ Proved
    BY <2>1, RegatedTypes
  <2>4. /\ status' \in [Node -> (ProofStatus \ {"claimed", "qed"}) \cup {"absent"}]
        /\ behind' = {}
    <3>1. "open" \in ProofStatus \ {"claimed", "qed"} /\ (Proved \ kept) \cup Having("stuck") \in SUBSET Node
      BY DEF ProofStatus, Having, Proved
    <3> QED
      BY <2>1, <2>3, <3>1, WriteProved DEF GraphTypes
  <2>5. UNCHANGED <<stmt, adopted, hand>>
    BY <1>4 DEF ReplayRevised
  <2> QED
    BY <2>2, <2>3, <2>4, <2>5 DEF GraphTypes
<1>5. ASSUME NEW c \in Child, AddChild(c) \/ RestateChild(c) \/ DemandEdge(c) \/ KeepChild(c) PROVE GraphTypes'
  <2> c \in Node
    BY DEF Node
  <2>1. CASE AddChild(c) \/ RestateChild(c)
    <3>1. Write({c}, "open") /\ stmt' = [stmt EXCEPT ![c] = adopted[c]] /\ UNCHANGED <<uses, adopted, hand>>
      BY <2>1 DEF AddChild, RestateChild, metas, settling
    <3>2. pin' \in [Child -> {"none", "current", "stale"}]
      BY <2>1, EpochTypes DEF AddChild, RestateChild, GraphTypes
    <3>3. stmt' \in Proposal
      BY <3>1, RestatedProposal, ProposalStates DEF GraphTypes
    <3>4. "open" \in ProofStatus \ {"claimed", "qed"} /\ "open" \notin ProvedStatus
      BY DEF ProofStatus, ProvedStatus
    <3>5. status' \in [Node -> (ProofStatus \ {"claimed", "qed"}) \cup {"absent"}] /\ Proved' = Proved \ {c}
      <4>1. {c} \in SUBSET Node
        OBVIOUS
      <4> QED
        BY <3>1, <3>4, <4>1, WriteProved
    <3>6. behind' \subseteq Proved'
      <4>1. CASE AddChild(c)
        BY <4>1, <3>5, NotProved DEF AddChild, GraphTypes
      <4>2. CASE RestateChild(c)
        BY <4>2, <3>5 DEF RestateChild, GraphTypes
      <4> QED
        BY <2>1, <4>1, <4>2
    <3> QED
      BY <3>1, <3>2, <3>3, <3>5, <3>6 DEF GraphTypes
  <2>2. CASE DemandEdge(c)
    BY <2>2 DEF DemandEdge, metas, settling, GraphTypes, Proved
  <2>3. CASE KeepChild(c)
    <3>1. UNCHANGED <<stmt, pin, uses, behind, adopted, hand>>
      BY <2>3 DEF KeepChild, metas, settling
    <3>2. CASE status[c] = "attic" /\ Write({c}, "open")
      BY <3>1, <3>2, GraphWrites, NotProved DEF GraphTypes
    <3>3. CASE UNCHANGED status
      BY <3>1, <3>3, GraphStays DEF GraphTypes
    <3> QED
      BY <2>3, <3>2, <3>3 DEF KeepChild
  <2> QED
    BY <1>5, <2>1, <2>2, <2>3
<1> QED
  BY <1>1, <1>2, <1>3, <1>4, <1>5 DEF Designs

\* The amendments' steps, and the adjudication's.
LEMMA AmendsGraph ==
    ASSUME TInv, Amends \/ Adjudicates
    PROVE  GraphTypes'
<1> GraphTypes
  BY DEF TInv
<1>1. CASE TakeRequest \/ AlreadySeen \/ Refuse \/ WriteCandidate \/ Reject \/ Accept \/ RequestsEnd
  <2>1. /\ UNCHANGED <<status, stmt, uses, adopted, pin>> /\ behind' \in {behind, Proved}
        /\ hand' = hand
    BY <1>1 DEF TakeRequest, AlreadySeen, Refuse, WriteCandidate, Reject, Accept, RequestsEnd,
         nodes, metas, graph, settling
  <2> QED
    BY <2>1, GraphStays DEF GraphTypes
<1>2. CASE Salvage
  <2>1. PICK kept \in SUBSET Proved, reopened \in SUBSET Node, epochs \in SUBSET Node, follow \in BOOLEAN :
          /\ Proved \ kept \subseteq reopened /\ kept \cap reopened = {}
          /\ Write(reopened, "open")
          /\ Regated(kept, Proved \ kept)
          /\ NewEpoch(epochs, follow)
    <3>1. PICK kept \in SUBSET Proved :
           LET broken    == Proved \ kept
               requester == {job.by} \cap Having("stuck") \cap WithBudget
               tainted   == ((Mentions \cup {job.by}) \cap (Having("stuck") \cup Having("contested")))
                            \ requester
               others    == (Having("stuck") \cap WithBudget) \ (requester \cup tainted)
               reopened  == broken \cup requester \cup tainted \cup others
           IN /\ Write(reopened, "open")
              /\ Regated(kept, broken)
              /\ NewEpoch(broken \cup tainted, Root \in kept \/ reopened \cap Child # {})
      BY <1>2 DEF Salvage
    <3> DEFINE requester == {job.by} \cap Having("stuck") \cap WithBudget
               tainted   == ((Mentions \cup {job.by}) \cap (Having("stuck") \cup Having("contested"))) \ requester
               others    == (Having("stuck") \cap WithBudget) \ (requester \cup tainted)
               reopened  == (Proved \ kept) \cup requester \cup tainted \cup others
    <3>2. /\ Proved \subseteq Node /\ Having("stuck") \subseteq Node /\ Having("contested") \subseteq Node
          /\ Proved \cap (Having("stuck") \cup Having("contested")) = {}
      BY NotProved DEF Proved, Having
    <3>3. /\ reopened \in SUBSET Node /\ (Proved \ kept) \cup tainted \in SUBSET Node
          /\ Proved \ kept \subseteq reopened /\ kept \cap reopened = {}
      BY <3>2
    <3>4. (Root \in kept \/ reopened \cap Child # {}) \in BOOLEAN
      OBVIOUS
    <3> HIDE DEF requester, tainted, others, reopened
    <3> QED
      BY <3>1, <3>3, <3>4 DEF requester, tainted, others, reopened
  <2>2. UNCHANGED <<stmt, adopted, hand>>
    BY <1>2 DEF Salvage, settling
  <2>3. /\ status' \in [Node -> (ProofStatus \ {"claimed", "qed"}) \cup {"absent"}]
        /\ uses' \in Proposal /\ behind' = behind \ Proved
    BY <2>1, WriteProved, RegatedTypes DEF ProofStatus
  <2>4. pin' \in [Child -> {"none", "current", "stale"}]
    BY <2>1, EpochTypes
  <2> QED
    BY <2>2, <2>3, <2>4 DEF GraphTypes
<1>3. CASE RetryRefused
  <2> DEFINE N == refused \cap Having("stuck") \cap WithBudget
  <2>1. Write(N, "open") /\ UNCHANGED <<stmt, uses, behind, adopted, hand, pin>>
    BY <1>3 DEF RetryRefused, settling, metas
  <2>2. N \in SUBSET Node /\ N \cap Proved = {}
    BY NotProved DEF Having
  <2>3. pin' \in [Child -> {"none", "current", "stale"}]
    BY <2>1 DEF GraphTypes
  <2> QED
    BY <2>1, <2>2, <2>3, GraphWrites
<1>4. CASE Restate
  <2>1. UNCHANGED <<status, stmt, uses, adopted, pin>> /\ behind' = Proved
    BY <1>4 DEF Restate, metas
  <2>2. PICK w \in Wording[verdict.node] : hand' = [AsStated EXCEPT ![verdict.node] = w]
    BY <1>4 DEF Restate
  <2>3. verdict.node \in Child
    BY <1>4 DEF Restate, LiveChild
  <2>4. hand' \in Proposal
    BY <2>2, <2>3, StatedProposals, RestatedProposal
  <2> QED
    BY <2>1, <2>4, GraphStays
<1>5. CASE FinishVerdict
  <2> DEFINE n == verdict.node
  <2>1. n \in Node
    BY DEF TInv, ControlTypes, VerdictOf
  <2>2. UNCHANGED <<stmt, uses, behind, adopted, hand, pin>>
    BY <1>5 DEF FinishVerdict, settling
  <2>3. CASE status[n] = "stuck" /\ Write({n}, "contested")
    <3>1. {n} \in SUBSET Node /\ {n} \cap Proved = {}
      BY <2>1, <2>3, NotProved
    <3>2. pin' \in [Child -> {"none", "current", "stale"}]
      BY <2>2 DEF GraphTypes
    <3> QED
      BY <2>2, <2>3, <3>1, <3>2, GraphWrites
  <2>4. CASE UNCHANGED status
    BY <2>2, <2>4, GraphStays DEF GraphTypes
  <2> QED
    BY <1>5, <2>3, <2>4 DEF FinishVerdict
<1>6. CASE FirstDispatch \/ MarkRestated
  BY <1>6 DEF FirstDispatch, MarkRestated, graph, nodes, settling, GraphTypes, Proved
<1>7. CASE ReplayRestated
  <2>1. PICK kept \in SUBSET Proved :
          /\ Write(Proved \ kept, "open")
          /\ Regated(kept, Proved \ kept)
          /\ NewEpoch(Proved \ kept, TRUE)
    BY <1>7 DEF ReplayRestated
  <2>2. UNCHANGED <<stmt, adopted, hand>>
    BY <1>7 DEF ReplayRestated
  <2>3. Proved \ kept \in SUBSET Node
    BY DEF Proved
  <2>4. /\ status' \in [Node -> (ProofStatus \ {"claimed", "qed"}) \cup {"absent"}]
        /\ uses' \in Proposal /\ behind' = behind \ Proved
    <3>1. "open" \in ProofStatus \ {"claimed", "qed"}
      BY DEF ProofStatus
    <3>2. status' \in [Node -> (ProofStatus \ {"claimed", "qed"}) \cup {"absent"}]
      BY <2>1, <2>3, <3>1, WriteProved
    <3> QED
      BY <2>1, <3>2, RegatedTypes
  <2>5. pin' \in [Child -> {"none", "current", "stale"}]
    BY <2>1, <2>3, EpochTypes
  <2> QED
    BY <2>2, <2>4, <2>5 DEF GraphTypes
<1>8. ASSUME NEW n \in Node, NoVerdict(n) \/ HintsExhausted(n) \/ FindStatementWrong(n) PROVE GraphTypes'
  BY <1>8 DEF NoVerdict, HintsExhausted, FindStatementWrong, graph, nodes, settling, GraphTypes, Proved
<1>9. ASSUME NEW n \in Node, HintAndReopen(n) PROVE GraphTypes'
  <2>1. Write({n}, "open") /\ UNCHANGED <<stmt, uses, behind, adopted, hand>>
    BY <1>9 DEF HintAndReopen, settling
  <2>2. {n} \in SUBSET Node /\ {n} \cap Proved = {}
    BY <1>9, NotProved DEF HintAndReopen, Adjudicable
  <2>3. pin' \in [Child -> {"none", "current", "stale"}]
    <3>1. (n \in Child) \in BOOLEAN
      OBVIOUS
    <3> QED
      BY <1>9, <2>2, <3>1, EpochTypes DEF HintAndReopen
  <2> QED
    BY <2>1, <2>2, <2>3, GraphWrites
<1> QED
  BY <1>1, <1>2, <1>3, <1>4, <1>5, <1>6, <1>7, <1>8, <1>9 DEF Amends, Adjudicates

\* The provers' steps, and those of a process that begins or ends.
LEMMA ProvingGraph ==
    ASSUME TInv, Proving
    PROVE  GraphTypes'
<1> GraphTypes
  BY DEF TInv
<1>1. CASE Resume
  <2>1. Write(Having("stuck") \cap WithBudget, "open") /\ UNCHANGED <<stmt, uses, behind, adopted, hand, pin>>
    BY <1>1 DEF Resume, settling, metas
  <2>2. /\ Having("stuck") \cap WithBudget \in SUBSET Node
        /\ (Having("stuck") \cap WithBudget) \cap Proved = {}
    BY NotProved DEF Having
  <2>3. pin' \in [Child -> {"none", "current", "stale"}]
    BY <2>1 DEF GraphTypes
  <2> QED
    BY <2>1, <2>2, <2>3, GraphWrites
<1>2. CASE Revalidate
  <2>1. UNCHANGED <<stmt, adopted, hand>>
    BY <1>2 DEF Revalidate, settling
  <2>2. CASE Root \in Proved /\ Regated({Root}, {}) /\ NewEpoch({}, TRUE) /\ UNCHANGED <<status>>
    <3>1. pin' \in [Child -> {"none", "current", "stale"}]
      BY <2>2, EpochTypes
    <3>2. uses' \in Proposal /\ behind' \subseteq behind
      BY <2>2, RegatedTypes
    <3> QED
      BY <2>1, <2>2, <3>1, <3>2 DEF GraphTypes, Proved
  <2>3. CASE Regated({}, {Root}) /\ NewEpoch({Root}, FALSE) /\ Write({Root}, "open")
    <3>0. {Root} \in SUBSET Node
      BY DEF Node
    <3>1. pin' \in [Child -> {"none", "current", "stale"}]
      BY <2>3, <3>0, EpochTypes
    <3>2. uses' \in Proposal /\ behind' = behind \ {Root}
      BY <2>3, RegatedTypes
    <3>3. /\ status' \in [Node -> (ProofStatus \ {"claimed", "qed"}) \cup {"absent"}]
          /\ Proved' = Proved \ {Root}
      BY <2>3, <3>0, WriteProved DEF ProofStatus, ProvedStatus
    <3> QED
      BY <2>1, <3>1, <3>2, <3>3 DEF GraphTypes
  <2>4. CASE UNCHANGED <<status, pin, uses, behind>>
    BY <2>1, <2>4 DEF GraphTypes, Proved
  <2> QED
    BY <1>2, <2>2, <2>3, <2>4 DEF Revalidate
<1>3. CASE Integrate
  <2>1. UNCHANGED <<stmt, uses, behind, adopted, pin>> /\ hand' = NoChildren
    BY <1>3 DEF Integrate, Exit, metas
  <2>2. /\ status' \in [Node -> (ProofStatus \ {"claimed", "qed"}) \cup {"absent"}]
        /\ Proved \subseteq Proved'
    <3>1. CASE UNCHANGED status
      BY <3>1 DEF GraphTypes, Proved
    <3>2. CASE Write(LiveChild \cup {Root}, "integrated")
      <4>1. PICK N \in SUBSET Node : Write(N, "integrated")
        BY <3>2 DEF LiveChild, Node
      <4>2. "integrated" \in (ProofStatus \ {"claimed", "qed"}) \cup {"absent"} /\ "integrated" \in ProvedStatus
        BY DEF ProofStatus, ProvedStatus
      <4>3. status' \in [Node -> (ProofStatus \ {"claimed", "qed"}) \cup {"absent"}]
        BY <4>1, <4>2 DEF Write, GraphTypes
      <4>4. \A n \in Node : status'[n] \in {status[n], "integrated"}
        BY <4>1 DEF Write
      <4>5. Proved \subseteq Proved'
        BY <4>2, <4>4 DEF Proved
      <4> QED
        BY <4>3, <4>5
    <3> QED
      BY <1>3, <3>1, <3>2 DEF Integrate
  <2> QED
    BY <2>1, <2>2, StatedProposals DEF GraphTypes
<1>4. ASSUME NEW n \in Node, GivesUp(n) \/ Proves(n) \/ ContestsOrAsks(n) \/ Errs(n) PROVE GraphTypes'
  <2>1. n \notin Proved /\ UNCHANGED <<stmt, adopted, hand>>
    BY <1>4, NotProved DEF GivesUp, Proves, ContestsOrAsks, Errs, Ran, metas, settling, TInv, TodoIsOpen, Having
  <2>2. {n} \in SUBSET Node
    OBVIOUS
  <2>3. CASE Proves(n)
    <3>1. Write({n}, "gated") /\ behind' = behind \ {n}
      BY <2>3 DEF Proves, Ran
    <3>2. uses' \in Proposal /\ pin' \in [Child -> {"none", "current", "stale"}]
      BY <2>3, StatedProposals DEF Proves, GraphTypes
    <3>3. /\ status' \in [Node -> (ProofStatus \ {"claimed", "qed"}) \cup {"absent"}]
          /\ Proved' = Proved \cup {n}
      BY <2>2, <3>1, WriteProved DEF ProofStatus, ProvedStatus
    <3> QED
      BY <2>1, <3>1, <3>2, <3>3 DEF GraphTypes
  <2>4. CASE GivesUp(n) \/ ContestsOrAsks(n) \/ Errs(n)
    <3>1. PICK s \in {"stuck", "contested", "open"} : Write({n}, s)
      BY <2>4 DEF GivesUp, ContestsOrAsks, Errs, Ran
    <3>2. UNCHANGED <<pin, uses, behind>>
      BY <2>4 DEF GivesUp, ContestsOrAsks, Errs
    <3>3. {n} \cap Proved = {} /\ pin' \in [Child -> {"none", "current", "stale"}]
      BY <2>1, <3>2 DEF GraphTypes
    <3> QED
      BY <2>1, <2>2, <3>1, <3>2, <3>3, GraphWrites
  <2> QED
    BY <1>4, <2>3, <2>4
<1> QED
  BY <1>1, <1>2, <1>3, <1>4 DEF Proving

\* However a process ends before its time, what it held is gone.
LEMMA EndsExit ==
    ASSUME Ends
    PROVE  Exit /\ pc' = "down"
BY DEF Ends, Kill, CannotCheck, CannotReplay, CutOff, Exit

\* A replay that was cut off has taken some proofs into the present design, reopened
\* others, and left at least one.
LEMMA CutReplay ==
    ASSUME GraphTypes, CannotReplay
    PROVE  \E kept, broken \in SUBSET Proved :
              /\ broken \subseteq Node /\ Write(broken, "open") /\ Proved' = Proved \ broken
              /\ behind' = behind \ (kept \cup broken)
              /\ uses' = IF Root \in kept THEN AsStated ELSE IF Root \in broken THEN NoChildren ELSE uses
              /\ spent' = [n \in Node |-> IF n \in broken THEN 0 ELSE spent[n]]
              /\ pin' = [c \in Child |-> IF pin[c] = "none" THEN "none"
                                         ELSE IF c \in broken THEN "stale"
                                         ELSE IF Root \in kept THEN "current" ELSE pin[c]]
<1>1. PICK kept \in SUBSET Proved, broken \in SUBSET Proved :
              /\ Write(broken, "open")
              /\ behind' = behind \ (kept \cup broken)
              /\ uses' = IF Root \in kept THEN AsStated ELSE IF Root \in broken THEN NoChildren ELSE uses
              /\ spent' = [n \in Node |-> IF n \in broken THEN 0 ELSE spent[n]]
              /\ pin' = [c \in Child |-> IF pin[c] = "none" THEN "none"
                                         ELSE IF c \in broken THEN "stale"
                                         ELSE IF Root \in kept THEN "current" ELSE pin[c]]
  BY DEF CannotReplay
<1>2. broken \in SUBSET Node /\ "open" \in (ProofStatus \ {"claimed", "qed"}) \cup {"absent"} /\ "open" \notin ProvedStatus
  BY DEF Proved, ProofStatus, ProvedStatus
<1>3. Proved' = Proved \ broken
  BY <1>1, <1>2, WriteProved
<1> QED
  BY <1>1, <1>2, <1>3

\* What a process that ends before its time leaves of the graph.
LEMMA EndsGraph ==
    ASSUME TInv, Ends
    PROVE  /\ GraphTypes' /\ UNCHANGED <<stmt, reopens, told, adopted, designed, rounds, hints>>
           /\ marked' \subseteq marked /\ sanctioned' \in {sanctioned, "cut"}
           /\ spent' \in [Node -> 0..MaxAttempts]
           /\ UNCHANGED <<status, spent, pin, uses, behind>> \/ CannotReplay
<1>0. GraphTypes /\ NoChildren \in Proposal /\ AsStated \in Proposal /\ spent \in [Node -> 0..MaxAttempts]
  BY StatedProposals DEF TInv, CountTypes
<1>1. CASE Kill \/ CannotCheck
  <2>1. UNCHANGED graph /\ UNCHANGED hints /\ hand' = NoChildren /\ sanctioned' \in {sanctioned, "cut"}
    BY <1>1 DEF Kill, CannotCheck, CutOff, Exit
  <2> QED
    BY <1>0, <2>1, GraphStays DEF graph
<1>2. CASE CannotReplay
  <2>1. /\ UNCHANGED <<stmt, reopens, told, adopted, designed, rounds, hints>>
        /\ hand' = NoChildren /\ sanctioned' \in {sanctioned, "cut"} /\ marked' \subseteq marked
    BY <1>2 DEF CannotReplay, CutOff, Exit
  <2>2. PICK kept \in SUBSET Proved, broken \in SUBSET Proved :
              /\ broken \subseteq Node /\ Write(broken, "open") /\ Proved' = Proved \ broken
              /\ behind' = behind \ (kept \cup broken)
              /\ uses' \in {AsStated, NoChildren, uses}
              /\ spent' = [n \in Node |-> IF n \in broken THEN 0 ELSE spent[n]]
              /\ pin' = [c \in Child |-> IF pin[c] = "none" THEN "none"
                                         ELSE IF c \in broken THEN "stale"
                                         ELSE IF Root \in kept THEN "current" ELSE pin[c]]
    BY <1>0, <1>2, CutReplay
  <2>3. status' \in [Node -> (ProofStatus \ {"claimed", "qed"}) \cup {"absent"}]
    BY <1>0, <2>2 DEF Write, GraphTypes, ProofStatus
  <2>4. spent' \in [Node -> 0..MaxAttempts]
    BY <1>0, <2>2, CapAssumption
  <2>5. pin' \in [Child -> {"none", "current", "stale"}]
    BY <1>0, <2>2 DEF GraphTypes
  <2>6. GraphTypes'
    BY <1>0, <2>1, <2>2, <2>3, <2>5 DEF GraphTypes
  <2> QED
    BY <1>2, <2>1, <2>4, <2>6
<1> QED
  BY <1>1, <1>2 DEF Ends

\* Every step keeps the types of the graph.
LEMMA NextGraph ==
    ASSUME TInv, [Next]_vars
    PROVE  GraphTypes'
<1> GraphTypes /\ NoChildren \in Proposal
  BY StatedProposals DEF TInv
<1>1. CASE StartRun
  BY <1>1, GraphStays DEF StartRun, settling, GraphTypes
<1>2. CASE UNCHANGED vars
  BY <1>2, GraphStays DEF vars, graph, settling, GraphTypes
<1> QED
  BY <1>1, <1>2, EndsGraph, DesignsGraph, AmendsGraph, ProvingGraph DEF Next, Work

\* A process that is over holds nothing.
LEMMA ExitControl ==
    ASSUME TInv, Exit, UNCHANGED <<told, designed>>, marked' \subseteq marked, sanctioned' \in {sanctioned, "cut"}
    PROVE  ControlTypes' /\ ReasonsInPlace' /\ CapsAhead' /\ TodoIsOpen'
<1>1. ControlTypes'
  <2>1. NoJob \in Job /\ NoStatementVerdict \in VerdictOf
    BY DEF NoJob, NoStatementVerdict, Job, VerdictOf, Node
  <2>2. outcome' \in [Node -> Outcomes]
    BY DEF Exit, Outcomes
  <2> QED
    BY <2>1, <2>2 DEF TInv, Exit, ControlTypes, Pc, Why, Answers
<1>2. ReasonsInPlace' /\ CapsAhead' /\ TodoIsOpen'
  BY DEF Exit, ReasonsInPlace, CapsAhead, TodoIsOpen
<1> QED
  BY <1>1, <1>2

\* A step of the design that leaves the nodes' marks and the amendments alone.
LEMMA SettlingControl ==
    ASSUME TInv, UNCHANGED <<amending, reports, history, marked, told, designed, reopens>>,
           why' \in Why, answer' \in Answers, pc' \in Pc, todo' \subseteq Node,
           why' # "initial" => pc' \in {"settle"} \cup Adopting,
           pc' = "replay" => why' # "initial",
           why' = "restate" => why = "restate" /\ pc' # "settle",
           pc' \notin {"dispatch", "mark", "apply", "judge", "salvage"}
    PROVE  ControlTypes' /\ ReasonsInPlace' /\ CapsAhead' /\ TodoIsOpen'
<1>1. ControlTypes'
  BY DEF TInv, ControlTypes, amending, reports, history
<1>2. ReasonsInPlace' /\ TodoIsOpen'
  BY DEF ReasonsInPlace, TodoIsOpen
<1>3. CapsAhead'
  BY DEF TInv, CapsAhead, amending
<1> QED
  BY <1>1, <1>2, <1>3

\* The design's steps keep what the control points promise.
LEMMA DesignsControl ==
    ASSUME TInv, Designs
    PROVE  ControlTypes' /\ ReasonsInPlace' /\ CapsAhead' /\ TodoIsOpen'
<1>0. ControlTypes /\ ReasonsInPlace /\ GraphTypes
  BY DEF TInv
<1>1. CASE Initial
  <2>1. UNCHANGED <<marked, told, designed, reopens, sanctioned, hints>>
    BY <1>1 DEF Initial, nodes, metas
  <2>2. CASE Exit
    BY <2>1, <2>2, ExitControl
  <2>3. CASE ~Exit
    <3>1. /\ Answered /\ pc' = "settle" /\ why' = "initial"
          /\ UNCHANGED <<todo, amending, reports, withheld, inherited>>
      BY <1>1, <2>3 DEF Initial
    <3> QED
      BY <1>0, <2>1, <3>1, SettlingControl DEF Answered, Pc, Why, history, ControlTypes, Adopting
  <2> QED
    BY <2>2, <2>3
<1>2. CASE NoRoundLeft
  BY <1>2, ExitControl DEF NoRoundLeft, graph
<1>3. CASE Applies \/ DoesNotApply \/ Repair \/ AskAgain
  <2>1. /\ UNCHANGED <<amending, reports, history, marked, told, designed, reopens, why, todo>>
        /\ answer' \in Answers /\ pc' \in {"settle", "adopt"} /\ pc = "settle"
    BY <1>0, <1>3 DEF Applies, DoesNotApply, Repair, AskAgain, Answered, nodes, metas, graph, ControlTypes, Answers
  <2> QED
    BY <1>0, <2>1, SettlingControl DEF ControlTypes, ReasonsInPlace, Pc, Adopting
<1>4. CASE NotSettled
  <2>1. UNCHANGED <<marked, told, designed, reopens, sanctioned, hints>>
    BY <1>4 DEF NotSettled, graph
  <2>2. CASE Exit
    BY <2>1, <2>2, ExitControl
  <2>3. CASE ~Exit
    <3>1. /\ pc' = "integrate" /\ why' = "initial" /\ answer' = "bad"
          /\ UNCHANGED <<todo, amending, reports, withheld, inherited>>
      BY <1>4, <2>3 DEF NotSettled
    <3> QED
      BY <1>0, <2>1, <3>1, SettlingControl DEF Pc, Why, Answers, history, ControlTypes, Adopting
  <2> QED
    BY <2>2, <2>3
<1>5. CASE AdoptProposal
  <2>1. /\ UNCHANGED <<amending, reports, history, marked, told, designed, reopens, why>>
        /\ answer' = "bad" /\ pc' = "children" /\ pc = "adopt" /\ todo' \subseteq Node
    BY <1>5 DEF AdoptProposal, nodes, Node
  <2> QED
    BY <1>0, <2>1, SettlingControl DEF ControlTypes, Pc, Answers, Adopting
<1>6. CASE RetireDropped
  <2>1. /\ UNCHANGED <<amending, reports, history, marked, told, designed, reopens, why, answer, todo>>
        /\ pc' = (IF why = "initial" THEN "resume" ELSE "replay")
    BY <1>6 DEF RetireDropped, metas, settling
  <2> QED
    BY <1>0, <2>1, SettlingControl DEF ControlTypes, Pc, Adopting
<1>7. CASE ReplayRevised
  <2>1. PICK kept \in SUBSET Proved :
          /\ Write((Proved \ kept) \cup Having("stuck"), "open")
          /\ todo' = (Proved \ kept) \cup Having("stuck") \cup Having("open")
          /\ marked' \subseteq marked /\ asked' \subseteq asked /\ inherited' \subseteq inherited
    BY <1>7 DEF ReplayRevised, NewEpoch, Regated
  <2>2. /\ pc' = "dispatch" /\ changed' = FALSE /\ refused' = {} /\ why' = "initial"
        /\ outcome' = [n \in Node |-> "none"]
        /\ UNCHANGED <<told, designed, answer, seen, requests, job, verdict, started, review, sanctioned, withheld>>
    BY <1>7 DEF ReplayRevised
  <2>3. todo' \subseteq Node
    BY <2>1 DEF Proved, Having
  <2>4. TodoIsOpen'
    <3>1. \A n \in todo' : n \in Node /\ status'[n] = "open"
      BY <2>1 DEF Write, Proved, Having
    <3> QED
      BY <3>1 DEF TodoIsOpen, Having
  <2>5. ControlTypes'
    BY <1>0, <2>1, <2>2, <2>3 DEF ControlTypes, Pc, Why, Outcomes
  <2>6. ReasonsInPlace' /\ CapsAhead'
    BY <2>2 DEF ReasonsInPlace, CapsAhead
  <2> QED
    BY <2>4, <2>5, <2>6
<1>8. CASE Revise \/ ReviseEnds
  <2>1. /\ UNCHANGED <<amending, reports, history, marked, told, designed, reopens, todo>>
        /\ answer' \in Answers /\ pc = "revise"
        /\ \/ why' = "revise" /\ pc' = "settle"
           \/ why' = why /\ pc' = "integrate"
    BY <1>0, <1>8 DEF Revise, ReviseEnds, Answered, nodes, metas, graph, settling, ControlTypes
  <2>2. why = "initial"
    BY <1>0, <2>1 DEF ReasonsInPlace, Adopting
  <2> QED
    BY <1>0, <2>1, <2>2, SettlingControl DEF ControlTypes, Pc, Why, Adopting
<1>9. ASSUME NEW c \in Child, AddChild(c) \/ DemandEdge(c) \/ KeepChild(c)
      PROVE  ControlTypes' /\ ReasonsInPlace' /\ CapsAhead' /\ TodoIsOpen'
  <2>1. /\ UNCHANGED <<amending, reports, history, marked, told, designed, reopens, why, answer>>
        /\ pc' \in {"children", "edge"} /\ pc \in {"children", "edge"} /\ todo' \subseteq todo
    BY <1>9 DEF AddChild, DemandEdge, KeepChild, metas, settling
  <2> QED
    BY <1>0, <2>1, SettlingControl DEF ControlTypes, Pc, Adopting
<1>10. ASSUME NEW c \in Child, RestateChild(c)
       PROVE  ControlTypes' /\ ReasonsInPlace' /\ CapsAhead' /\ TodoIsOpen'
  <2>1. /\ marked' \subseteq marked /\ asked' \subseteq asked
        /\ UNCHANGED <<told, reopens, designed, settling, todo, seen, applied, restated, requests, job, verdict,
                       refused, changed, reports, sanctioned, withheld, inherited>>
        /\ pc = "children" /\ pc' = "edge"
    BY <1>10 DEF RestateChild, NewEpoch
  <2>2. ControlTypes'
    BY <1>0, <2>1 DEF ControlTypes, settling, reports, Pc
  <2>3. ReasonsInPlace' /\ TodoIsOpen'
    BY <1>0, <2>1 DEF ReasonsInPlace, TodoIsOpen, settling, Adopting
  <2>4. CapsAhead'
    BY <2>1 DEF TInv, CapsAhead, settling
  <2> QED
    BY <2>2, <2>3, <2>4
<1> QED
  BY <1>1, <1>2, <1>3, <1>4, <1>5, <1>6, <1>7, <1>8, <1>9, <1>10 DEF Designs

\* The verdict and the job of a step that returns to what it was called for.
LEMMA ReturnControl ==
    ASSUME TInv, Return,
           verdict' \in VerdictOf, seen' \subseteq Request, refused' \subseteq Node, requests' \subseteq requests,
           marked' \subseteq Node, told' \subseteq Node, asked' \subseteq Node, designed' \in {"dev", "candidate"},
           changed' \in BOOLEAN, why = "initial",
           UNCHANGED <<settling, todo, reports, sanctioned, withheld>>, inherited' \subseteq inherited
    PROVE  ControlTypes' /\ ReasonsInPlace' /\ CapsAhead' /\ TodoIsOpen'
<1>1. NoJob \in Job
  BY DEF NoJob, Job, Node
<1>2. pc' \in {"verdict", "requests"} /\ job' = NoJob
  BY DEF Return
<1>3. ControlTypes'
  BY <1>1, <1>2 DEF TInv, ControlTypes, settling, reports, history, Pc
<1>4. ReasonsInPlace' /\ CapsAhead' /\ TodoIsOpen'
  BY <1>2 DEF ReasonsInPlace, CapsAhead, TodoIsOpen, settling
<1> QED
  BY <1>3, <1>4

\* The amendments' steps.
LEMMA AmendsControl ==
    ASSUME TInv, Amends
    PROVE  ControlTypes' /\ ReasonsInPlace' /\ CapsAhead' /\ TodoIsOpen'
<1>0. ControlTypes /\ ReasonsInPlace /\ GraphTypes /\ CapsAhead
  BY DEF TInv
<1>1. CASE TakeRequest
  <2>1. PICK asking \in requests :
          /\ requests' = requests \ {asking}
          /\ job' = [req |-> asking[1], by |-> asking[2], approved |-> FALSE]
    BY <1>1 DEF TakeRequest
  <2>2. asking \in Request \X Node
    BY <1>0 DEF ControlTypes
  <2>3. job' \in Job
    BY <2>1, <2>2 DEF Job
  <2>4. /\ pc' = "apply" /\ pc \in {"dispatch", "requests"}
        /\ UNCHANGED <<graph, settling, todo, asked, seen, applied, restated, verdict, refused, changed,
                   reports, history>>
    BY <1>1 DEF TakeRequest
  <2>5. ControlTypes'
    BY <1>0, <2>1, <2>3, <2>4 DEF ControlTypes, graph, settling, reports, history, Pc
  <2>6. ReasonsInPlace' /\ CapsAhead' /\ TodoIsOpen'
    BY <1>0, <2>2, <2>1, <2>4 DEF ReasonsInPlace, CapsAhead, TodoIsOpen, settling, Adopting
  <2> QED
    BY <2>5, <2>6
<1>2. CASE AlreadySeen \/ Refuse \/ Reject
  <2>1. verdict' \in VerdictOf /\ why = "initial"
    BY <1>0, <1>2 DEF AlreadySeen, Refuse, Reject, NotApplied, ControlTypes, VerdictOf, ReasonsInPlace, Adopting
  <2>2. job.by \in Node /\ job.req \in Request
    BY <1>0, <1>2 DEF ControlTypes, Job, AlreadySeen, Refuse, Reject, ReasonsInPlace
  <2>3. CASE AlreadySeen
    BY <1>0, <2>1, <2>3, ReturnControl DEF AlreadySeen, ControlTypes, graph, history
  <2>4. CASE Refuse
    BY <1>0, <2>1, <2>2, <2>4, ReturnControl DEF Refuse, ControlTypes, graph, history
  <2>5. CASE Reject
    BY <1>0, <2>1, <2>2, <2>5, ReturnControl DEF Reject, ControlTypes, nodes, history
  <2> QED
    BY <1>2, <2>3, <2>4, <2>5
<1>3. CASE WriteCandidate \/ Accept
  <2>1. /\ pc' \in {"judge", "salvage"} /\ pc \in {"apply", "judge"}
        /\ UNCHANGED <<marked, told, asked, settling, todo, reports, history, requests, job, verdict, refused, changed,
                       applied, reopens>>
        /\ seen' \subseteq seen \cup {job.req} /\ designed' \in {designed, "dev", "candidate"}
        /\ applied < MaxAmendments
    BY <1>0, <1>3 DEF WriteCandidate, Accept, amending, CapsAhead
  <2>2. job.req \in Request /\ why = "initial"
    BY <1>0, <2>1 DEF ReasonsInPlace, Adopting
  <2>3. ControlTypes'
    BY <1>0, <2>1, <2>2 DEF ControlTypes, settling, reports, history, Pc
  <2>4. ReasonsInPlace' /\ CapsAhead' /\ TodoIsOpen'
    BY <2>1, <2>2 DEF ReasonsInPlace, CapsAhead, TodoIsOpen, settling
  <2> QED
    BY <2>3, <2>4
<1>4. CASE Salvage
  <2>1. PICK N \in SUBSET Node, M \in SUBSET Node :
          marked' = marked \ N /\ asked' = asked \ N /\ told' = told \cup M /\ inherited' \subseteq inherited
    <3>1. PICK kept \in SUBSET Proved :
           LET broken    == Proved \ kept
               requester == {job.by} \cap Having("stuck") \cap WithBudget
               tainted   == ((Mentions \cup {job.by}) \cap (Having("stuck") \cup Having("contested")))
                            \ requester
               others    == (Having("stuck") \cap WithBudget) \ (requester \cup tainted)
               reopened  == broken \cup requester \cup tainted \cup others
           IN /\ NewEpoch(broken \cup tainted, Root \in kept \/ reopened \cap Child # {})
              /\ Regated(kept, broken)
              /\ told' = told \cup reopened \cup ({job.by} \cap Having("open"))
      BY <1>4 DEF Salvage
    <3>2. \A s : Having(s) \subseteq Node
      BY DEF Having
    <3>3. Proved \subseteq Node
      BY DEF Proved
    <3> DEFINE requester == {job.by} \cap Having("stuck") \cap WithBudget
               tainted   == ((Mentions \cup {job.by}) \cap (Having("stuck") \cup Having("contested"))) \ requester
               others    == (Having("stuck") \cap WithBudget) \ (requester \cup tainted)
               reopened  == (Proved \ kept) \cup requester \cup tainted \cup others
               N         == (Proved \ kept) \cup tainted
               M         == reopened \cup ({job.by} \cap Having("open"))
    <3>4. N \in SUBSET Node /\ M \in SUBSET Node
      BY <3>2, <3>3
    <3>5. marked' = marked \ N /\ asked' = asked \ N /\ told' = told \cup M
      BY <3>1 DEF NewEpoch
    <3>6. inherited' \subseteq inherited
      BY <3>1 DEF Regated
    <3> QED
      BY <3>4, <3>5, <3>6
  <2>2. PICK moved \in BOOLEAN : verdict' = [verdict EXCEPT !.moved = moved]
    <3>1. verdict.moved \in BOOLEAN
      BY <1>0 DEF ControlTypes, VerdictOf
    <3>2. PICK T : verdict' = [verdict EXCEPT !.moved = @ \/ verdict.node \in T]
      BY <1>4 DEF Salvage
    <3>3. (verdict.moved \/ verdict.node \in T) \in BOOLEAN
      OBVIOUS
    <3> QED
      BY <3>1, <3>2, <3>3
  <2>3. verdict' \in VerdictOf
    BY <1>0, <2>2 DEF ControlTypes, VerdictOf
  <2>4. /\ changed' = TRUE /\ Return /\ why = "initial"
        /\ UNCHANGED <<designed, settling, todo, seen, requests, refused, reports, sanctioned, withheld>>
    BY <1>0, <1>4 DEF Salvage, ReasonsInPlace, Adopting
  <2> QED
    BY <1>0, <2>1, <2>3, <2>4, ReturnControl DEF ControlTypes
<1>5. CASE RequestsEnd
  <2>1. /\ todo' = review /\ pc' = "adjudicate" /\ pc \in {"dispatch", "requests"}
        /\ UNCHANGED <<graph, settling, amending, reports, history>>
    BY <1>5 DEF RequestsEnd
  <2>2. ControlTypes'
    BY <1>0, <2>1 DEF ControlTypes, graph, settling, amending, reports, history, Pc
  <2>3. ReasonsInPlace' /\ CapsAhead' /\ TodoIsOpen'
    BY <1>0, <2>1 DEF ReasonsInPlace, CapsAhead, TodoIsOpen, settling, Adopting
  <2> QED
    BY <2>2, <2>3
<1>6. CASE RetryRefused
  <2> DEFINE retried == refused \cap Having("stuck") \cap WithBudget
  <2>1. /\ Write(retried, "open")
        /\ \/ pc' = "dispatch" /\ todo' = Having("open") \cup retried
           \/ pc' = "revise" /\ todo' = todo
        /\ refused' = {} /\ changed' = FALSE /\ review' = {} /\ pc = "adjudicate"
        /\ UNCHANGED <<told, metas, settling, asked, seen, requests, job, verdict, started, outcome, history>>
    BY <1>6 DEF RetryRefused
  <2>2. retried \subseteq Node /\ Having("open") \subseteq Node
    BY DEF Having
  <2>3. ControlTypes'
    BY <1>0, <2>1, <2>2 DEF ControlTypes, metas, settling, history, Pc
  <2>4. TodoIsOpen'
    <3>1. pc' = "dispatch" => \A n \in todo' : n \in Node /\ status'[n] = "open"
      BY <2>1, <2>2 DEF Write, Having
    <3> QED
      BY <3>1 DEF TodoIsOpen, Having
  <2>5. ReasonsInPlace' /\ CapsAhead'
    BY <1>0, <2>1 DEF ReasonsInPlace, CapsAhead, settling, Adopting
  <2> QED
    BY <2>3, <2>4, <2>5
<1> QED
  BY <1>1, <1>2, <1>3, <1>4, <1>5, <1>6 DEF Amends

\* The adjudication's steps.
LEMMA AdjudicatesControl ==
    ASSUME TInv, Adjudicates
    PROVE  ControlTypes' /\ ReasonsInPlace' /\ CapsAhead' /\ TodoIsOpen'
<1>0. ControlTypes /\ ReasonsInPlace /\ GraphTypes /\ CapsAhead
  BY DEF TInv
<1>1. CASE Restate
  <2>1. /\ why' = "restate" /\ answer' = "stated" /\ pc' = "adopt" /\ reopens[verdict.node] < MaxReopens
        /\ UNCHANGED <<told, metas, todo, asked, seen, applied, requests, job, verdict, refused, changed, reports, history>>
    BY <1>1 DEF Restate
  <2>2. ControlTypes'
    BY <1>0, <2>1 DEF ControlTypes, metas, reports, history, Pc, Why, Answers
  <2>3. ReasonsInPlace' /\ CapsAhead' /\ TodoIsOpen'
    BY <2>1 DEF ReasonsInPlace, CapsAhead, TodoIsOpen, metas, Adopting
  <2> QED
    BY <2>2, <2>3
<1>2. CASE FinishVerdict
  <2>1. /\ verdict' = NoStatementVerdict /\ job' = NoJob /\ pc' = "adjudicate" /\ pc = "verdict"
        /\ told' \subseteq told /\ marked' \subseteq marked \cup {verdict.node}
        /\ changed' = (changed \/ status[verdict.node] = "open")
        /\ UNCHANGED <<designed, settling, todo, asked, seen, requests, refused, reports, history>>
    BY <1>2 DEF FinishVerdict
  <2>2. NoJob \in Job /\ NoStatementVerdict \in VerdictOf /\ verdict.node \in Node
    BY <1>0 DEF NoJob, NoStatementVerdict, Job, VerdictOf, Node, ControlTypes
  <2>3. changed' \in BOOLEAN
    BY <1>0, <2>1 DEF ControlTypes
  <2>4. ControlTypes'
    BY <1>0, <2>1, <2>2, <2>3 DEF ControlTypes, settling, reports, history, Pc
  <2>5. ReasonsInPlace' /\ CapsAhead' /\ TodoIsOpen'
    BY <1>0, <2>1 DEF ReasonsInPlace, CapsAhead, TodoIsOpen, settling, Adopting
  <2> QED
    BY <2>4, <2>5
<1>3. CASE FirstDispatch
  <2>1. /\ started' = TRUE /\ pc' = "dispatch" /\ todo' = Having("open") /\ refused' = {} /\ changed' = FALSE
        /\ outcome' = [n \in Node |-> "none"] /\ pc = "adjudicate"
        /\ UNCHANGED <<graph, settling, asked, seen, requests, job, verdict, review, history>>
    BY <1>3 DEF FirstDispatch
  <2>2. ControlTypes'
    BY <1>0, <2>1 DEF ControlTypes, graph, settling, history, Pc, Having, Outcomes
  <2>3. TodoIsOpen'
    BY <2>1 DEF TodoIsOpen, graph, Having
  <2>4. ReasonsInPlace' /\ CapsAhead'
    BY <1>0, <2>1 DEF ReasonsInPlace, CapsAhead, settling, Adopting
  <2> QED
    BY <2>2, <2>3, <2>4
<1>4. CASE ReplayRestated
  <2>1. PICK kept \in SUBSET Proved : NewEpoch(Proved \ kept, TRUE) /\ Regated(kept, Proved \ kept)
    BY <1>4 DEF ReplayRestated
  <2>2. /\ marked' \subseteq marked /\ asked' \subseteq asked /\ inherited' \subseteq inherited
    BY <2>1 DEF NewEpoch, Regated
  <2>3. /\ told' \subseteq told /\ pc' = "mark" /\ why' = "initial" /\ why = "restate"
        /\ UNCHANGED <<reopens, designed, answer, todo, seen, requests, job, verdict, refused, changed, reports,
                       sanctioned, withheld>>
    BY <1>4 DEF ReplayRestated
  <2>4. ControlTypes'
    BY <1>0, <2>2, <2>3 DEF ControlTypes, reports, Pc, Why
  <2>5. ReasonsInPlace' /\ CapsAhead' /\ TodoIsOpen'
    BY <1>0, <2>3 DEF ReasonsInPlace, CapsAhead, TodoIsOpen
  <2> QED
    BY <2>4, <2>5
<1>5. CASE MarkRestated
  <2>1. /\ changed' = TRUE /\ verdict' = NoStatementVerdict /\ job' = NoJob /\ pc' = "adjudicate" /\ pc = "mark"
        /\ UNCHANGED <<told, marked, designed, settling, todo, asked, seen, requests, refused, reports, history>>
    BY <1>5 DEF MarkRestated, nodes
  <2>2. NoJob \in Job /\ NoStatementVerdict \in VerdictOf
    BY DEF NoJob, NoStatementVerdict, Job, VerdictOf, Node
  <2>3. ControlTypes'
    BY <1>0, <2>1, <2>2 DEF ControlTypes, settling, reports, history, Pc
  <2>4. ReasonsInPlace' /\ CapsAhead' /\ TodoIsOpen'
    BY <1>0, <2>1 DEF ReasonsInPlace, CapsAhead, TodoIsOpen, settling, Adopting
  <2> QED
    BY <2>3, <2>4
<1>6. ASSUME NEW n \in Node, NoVerdict(n) \/ HintAndReopen(n) \/ HintsExhausted(n)
      PROVE  ControlTypes' /\ ReasonsInPlace' /\ CapsAhead' /\ TodoIsOpen'
  <2>1. /\ marked' \subseteq Node /\ asked' \subseteq Node /\ told' \subseteq Node /\ todo' \subseteq Node
        /\ changed' \in BOOLEAN /\ pc' = pc /\ pc = "adjudicate"
    <3>1. NoVerdict(n) => marked' = marked /\ asked' = asked /\ told' = told
      BY DEF NoVerdict, graph, amending
    <3>2. HintAndReopen(n) => marked' \subseteq marked /\ asked' \subseteq asked /\ told' \subseteq told
      BY DEF HintAndReopen, NewEpoch
    <3>3. HintsExhausted(n) => marked' = marked \cup {n} /\ asked' = asked \cup {n} /\ told' = told
      BY DEF HintsExhausted, nodes
    <3>4. todo' = todo \ {n} /\ pc' = pc /\ pc = "adjudicate" /\ changed' \in {changed, TRUE}
      BY <1>6 DEF NoVerdict, HintAndReopen, HintsExhausted, amending
    <3> QED
      BY <1>0, <1>6, <3>1, <3>2, <3>3, <3>4 DEF ControlTypes
  <2>2. UNCHANGED <<designed, settling, seen, requests, job, verdict, refused, reports, sanctioned, withheld, inherited>>
    BY <1>6 DEF NoVerdict, HintAndReopen, HintsExhausted, graph, amending, history
  <2>3. ControlTypes'
    BY <1>0, <2>1, <2>2 DEF ControlTypes, settling, reports
  <2>4. ReasonsInPlace' /\ CapsAhead' /\ TodoIsOpen'
    BY <1>0, <2>1, <2>2 DEF ReasonsInPlace, CapsAhead, TodoIsOpen, settling, Adopting
  <2> QED
    BY <2>3, <2>4
<1>7. ASSUME NEW n \in Node, FindStatementWrong(n)
      PROVE  ControlTypes' /\ ReasonsInPlace' /\ CapsAhead' /\ TodoIsOpen'
  <2>1. PICK fix \in Replace \cup {NoRequest}, restate \in BOOLEAN :
          /\ verdict' = [node |-> n, restate |-> restate, moved |-> FALSE]
          /\ job' = [req |-> fix, by |-> n, approved |-> TRUE]
          /\ pc' = IF fix = NoRequest THEN "verdict" ELSE "apply"
    BY <1>7 DEF FindStatementWrong
  <2>2. verdict' \in VerdictOf /\ job' \in Job /\ (pc' = "apply" => job'.req \in Request)
    BY <2>1 DEF VerdictOf, Job, Request
  <2>3. /\ asked' = asked \cup {n} /\ todo' = todo \ {n} /\ pc = "adjudicate"
        /\ UNCHANGED <<graph, settling, seen, requests, refused, changed, reports, history>>
    BY <1>7 DEF FindStatementWrong
  <2>4. ControlTypes'
    BY <1>0, <2>1, <2>2, <2>3 DEF ControlTypes, graph, settling, reports, history, Pc
  <2>5. ReasonsInPlace' /\ CapsAhead' /\ TodoIsOpen'
    BY <1>0, <2>1, <2>2, <2>3 DEF ReasonsInPlace, CapsAhead, TodoIsOpen, settling, Adopting
  <2> QED
    BY <2>4, <2>5
<1> QED
  BY <1>1, <1>2, <1>3, <1>4, <1>5, <1>6, <1>7 DEF Adjudicates

\* The provers' steps.
LEMMA ProvingControl ==
    ASSUME TInv, Proving
    PROVE  ControlTypes' /\ ReasonsInPlace' /\ CapsAhead' /\ TodoIsOpen'
<1>0. ControlTypes /\ ReasonsInPlace /\ GraphTypes /\ CapsAhead
  BY DEF TInv
<1>1. CASE Resume
  <2>1. /\ pc' = "revalidate" /\ pc = "resume"
        /\ UNCHANGED <<told, metas, settling, todo, amending, reports, history>>
    BY <1>1 DEF Resume
  <2>2. ControlTypes'
    BY <1>0, <2>1 DEF ControlTypes, metas, settling, amending, reports, history, Pc
  <2>3. ReasonsInPlace' /\ CapsAhead' /\ TodoIsOpen'
    BY <1>0, <2>1 DEF ReasonsInPlace, CapsAhead, TodoIsOpen, settling, Adopting
  <2> QED
    BY <2>2, <2>3
<1>2. CASE Revalidate
  <2>1. /\ pc' = "adjudicate" /\ pc = "revalidate" /\ todo' \subseteq Node
    BY <1>2 DEF Revalidate, Having, ParkedForReview
  <2>2. UNCHANGED <<told, designed, settling, seen, requests, job, verdict, refused, changed, reports,
                    sanctioned, withheld>>
    BY <1>2 DEF Revalidate
  <2>3. marked' \subseteq marked /\ asked' \subseteq asked /\ inherited' \subseteq inherited
    BY <1>2 DEF Revalidate, NewEpoch, Regated
  <2>4. ControlTypes'
    BY <1>0, <2>1, <2>2, <2>3 DEF ControlTypes, settling, reports, Pc
  <2>5. ReasonsInPlace' /\ CapsAhead' /\ TodoIsOpen'
    BY <1>0, <2>1, <2>2 DEF ReasonsInPlace, CapsAhead, TodoIsOpen, settling, Adopting
  <2> QED
    BY <2>4, <2>5
<1>3. CASE Integrate
  BY <1>3, ExitControl DEF Integrate, metas
<1>4. ASSUME NEW n \in Node, GivesUp(n) \/ Proves(n) \/ ContestsOrAsks(n) \/ Errs(n)
      PROVE  ControlTypes' /\ ReasonsInPlace' /\ CapsAhead' /\ TodoIsOpen'
  <2>1. PICK k \in Nat, s \in {"stuck", "gated", "contested", "open"}, o \in Outcomes, look \in BOOLEAN :
          Ran(n, k, s, o, look)
    <3>1. CASE GivesUp(n)
      <4>1. PICK k \in 0..MaxAttempts : Ran(n, k, "stuck", "stuck", WantsReview(n, k))
        BY <3>1 DEF GivesUp
      <4>2. WantsReview(n, k) \in BOOLEAN
        BY DEF WantsReview
      <4> QED
        BY <4>1, <4>2 DEF Outcomes
    <3>2. CASE Proves(n)
      <4>1. PICK k \in 1..MaxAttempts : Ran(n, k, "gated", "fine", FALSE)
        BY <3>2 DEF Proves
      <4>2. k \in Nat
        OBVIOUS
      <4>3. "fine" \in Outcomes /\ "stuck" \in Outcomes /\ "contested" \in Outcomes
        BY DEF Outcomes
      <4> QED
        BY <4>1, <4>2, <4>3
    <3>3. CASE ContestsOrAsks(n)
      <4>1. PICK k \in 1..MaxAttempts :
              Ran(n, k, "contested", "contested", TRUE) \/ Ran(n, k, "stuck", "stuck", FALSE)
        BY <3>3 DEF ContestsOrAsks
      <4>2. k \in Nat
        OBVIOUS
      <4>3. "fine" \in Outcomes /\ "stuck" \in Outcomes /\ "contested" \in Outcomes
        BY DEF Outcomes
      <4> QED
        BY <4>1, <4>2, <4>3
    <3>4. CASE Errs(n)
      <4>1. PICK k \in 1..MaxAttempts, s \in {"stuck", "open"} : Ran(n, k - 1, s, "fine", FALSE)
        BY <3>4 DEF Errs
      <4>2. k - 1 \in Nat
        OBVIOUS
      <4> QED
        BY <4>1, <4>2 DEF Outcomes
    <3> QED
      BY <1>4, <3>1, <3>2, <3>3, <3>4
  <2>2. /\ Write({n}, s)
        /\ outcome' = [outcome EXCEPT ![n] = o]
        /\ review' \subseteq review \cup {n} /\ told' \subseteq told /\ todo' = todo \ {n}
        /\ UNCHANGED <<metas, pc, settling, started, asked, seen, job, verdict, refused, changed, sanctioned, inherited,
                       applied>>
    BY <2>1 DEF Ran
  <2>3. pc = "dispatch" /\ withheld' \subseteq withheld \cup {n}
    BY <1>4 DEF GivesUp, Proves, ContestsOrAsks, Errs
  <2>4. requests' \subseteq Request \X Node
    <3>1. CASE ContestsOrAsks(n)
      <4>1. PICK r \in Request \cup {NoRequest} : 
              requests' = IF r = NoRequest \/ \E m \in Node : <<r, m>> \in requests
                          THEN requests ELSE requests \cup {<<r, n>>}
        BY <3>1 DEF ContestsOrAsks
      <4>2. requests' = requests \/ (r # NoRequest /\ requests' = requests \cup {<<r, n>>})
        BY <4>1
      <4>3. r # NoRequest => <<r, n>> \in Request \X Node
        OBVIOUS
      <4> QED
        BY <1>0, <4>2, <4>3 DEF ControlTypes
    <3>2. CASE ~ContestsOrAsks(n)
      BY <1>0, <1>4, <3>2 DEF GivesUp, Proves, Errs, ControlTypes
    <3> QED
      BY <3>1, <3>2
  <2>5. ControlTypes'
    BY <1>0, <2>2, <2>3, <2>4 DEF ControlTypes, metas, settling
  <2>6. TodoIsOpen'
    <3>1. \A m \in todo' : m \in Node /\ status[m] = "open" /\ m # n
      BY <1>0, <2>2, <2>3 DEF TInv, TodoIsOpen, Having
    <3>2. \A m \in todo' : m \in Node /\ status'[m] = "open"
      BY <2>2, <3>1 DEF Write
    <3> QED
      BY <3>2 DEF TodoIsOpen, Having
  <2>7. ReasonsInPlace' /\ CapsAhead'
    BY <1>0, <2>2, <2>3 DEF ReasonsInPlace, CapsAhead, settling, Adopting, metas
  <2> QED
    BY <2>5, <2>6, <2>7
<1> QED
  BY <1>1, <1>2, <1>3, <1>4 DEF Proving

\* Every step keeps what the control points promise.
LEMMA NextControl ==
    ASSUME TInv, [Next]_vars
    PROVE  ControlTypes' /\ ReasonsInPlace' /\ CapsAhead' /\ TodoIsOpen'
<1>0. ControlTypes /\ ReasonsInPlace /\ CapsAhead /\ TodoIsOpen
  BY DEF TInv
<1>1. CASE StartRun
  <2>1. /\ pc' \in {"propose", "resume"} /\ pc = "down" /\ designed' = "dev"
        /\ sanctioned' \in {sanctioned, "no"} /\ inherited' = behind'
        /\ UNCHANGED <<marked, told, settling, todo, amending, reports, hints, withheld>>
    BY <1>1 DEF StartRun
  <2>2. ControlTypes'
    <3>1. behind' \subseteq Node
      BY NextGraph DEF GraphTypes, Proved
    <3> QED
      BY <1>0, <2>1, <3>1 DEF ControlTypes, settling, amending, reports, Pc
  <2>3. ReasonsInPlace' /\ CapsAhead' /\ TodoIsOpen'
    BY <1>0, <2>1 DEF ReasonsInPlace, CapsAhead, TodoIsOpen, settling, Adopting
  <2> QED
    BY <2>2, <2>3
<1>2. CASE Ends
  BY <1>2, EndsExit, EndsGraph, ExitControl
<1>3. CASE UNCHANGED vars
  <2>1. ControlTypes'
    BY <1>0, <1>3 DEF vars, graph, settling, amending, reports, history, ControlTypes
  <2>2. ReasonsInPlace' /\ CapsAhead' /\ TodoIsOpen'
    BY <1>0, <1>3 DEF vars, graph, settling, amending, ReasonsInPlace, CapsAhead, TodoIsOpen, Having
  <2> QED
    BY <2>1, <2>2
<1> QED
  BY <1>1, <1>2, <1>3, DesignsControl, AmendsControl, AdjudicatesControl, ProvingControl DEF Next, Work

\* One more keeps a count in its range, if there is room for it.
LEMMA PlusBounds ==
    ASSUME NEW n \in Node, NEW count
    PROVE  /\ count \in [Node -> 0..(MaxReopens + 1)] => Plus(count, n) \in [Node -> 0..(MaxReopens + 1)]
           /\ count \in [Node -> 0..MaxReopens] /\ count[n] < MaxReopens => Plus(count, n) \in [Node -> 0..MaxReopens]
<1>1. MaxReopens \in Nat
  BY CapAssumption
<1>2. ASSUME count \in [Node -> 0..(MaxReopens + 1)] PROVE Plus(count, n) \in [Node -> 0..(MaxReopens + 1)]
  BY <1>1, <1>2 DEF Plus
<1>3. ASSUME count \in [Node -> 0..MaxReopens], count[n] < MaxReopens PROVE Plus(count, n) \in [Node -> 0..MaxReopens]
  BY <1>1, <1>3 DEF Plus
<1> QED
  BY <1>2, <1>3

\* An attempt is only begun while there is one left.
LEMMA AttemptsBounded ==
    ASSUME TInv, NEW n \in Node, NEW k \in 0..MaxAttempts
    PROVE  /\ StopsAfter(n, k) => spent[n] + k \in 0..MaxAttempts
           /\ Attempts(n, k) => spent[n] + k \in 0..MaxAttempts /\ spent[n] + (k - 1) \in 0..MaxAttempts
<1>1. spent[n] \in 0..MaxAttempts /\ MaxAttempts \in Nat
  BY CapAssumption DEF TInv, CountTypes
<1>2. ASSUME k # 0, \A j \in 0..(k - 1) : ~Stops(n, j)
      PROVE  spent[n] + k \in 0..MaxAttempts /\ spent[n] + (k - 1) \in 0..MaxAttempts
  <2>1. k - 1 \in 0..(k - 1)
    BY <1>1, <1>2
  <2>2. ~(spent[n] + (k - 1) >= MaxAttempts)
    BY <1>2, <2>1 DEF Stops
  <2> QED
    BY <1>1, <1>2, <2>2
<1>3. StopsAfter(n, k) => spent[n] + k \in 0..MaxAttempts
  BY <1>1, <1>2 DEF StopsAfter
<1>4. Attempts(n, k) => spent[n] + k \in 0..MaxAttempts /\ spent[n] + (k - 1) \in 0..MaxAttempts
  BY <1>2 DEF Attempts
<1> QED
  BY <1>3, <1>4

\* A dispatch charges a node no more than it has left.
LEMMA SpentInRange ==
    ASSUME TInv, Proving
    PROVE  spent' \in [Node -> 0..MaxAttempts]
<1>0. spent \in [Node -> 0..MaxAttempts]
  BY DEF TInv, CountTypes
<1>1. CASE Resume \/ Integrate
  BY <1>0, <1>1 DEF Resume, Integrate
<1>2. CASE Revalidate
  <2>1. CASE NewEpoch({}, TRUE)
    <3>1. {} \in SUBSET Node /\ TRUE \in BOOLEAN
      OBVIOUS
    <3> QED
      BY <2>1, <3>1, EpochTypes
  <2>2. CASE NewEpoch({Root}, FALSE)
    <3>1. {Root} \in SUBSET Node /\ FALSE \in BOOLEAN
      BY DEF Node
    <3> QED
      BY <2>2, <3>1, EpochTypes
  <2>3. CASE UNCHANGED spent
    BY <1>0, <2>3
  <2> QED
    BY <1>2, <2>1, <2>2, <2>3 DEF Revalidate
<1>3. ASSUME NEW n \in Node, GivesUp(n) \/ Proves(n) \/ ContestsOrAsks(n) \/ Errs(n)
      PROVE  spent' \in [Node -> 0..MaxAttempts]
  <2>0. \A k \in 1..MaxAttempts : k \in 0..MaxAttempts
    OBVIOUS
  <2>1. PICK k \in Int : spent' = [spent EXCEPT ![n] = @ + k] /\ spent[n] + k \in 0..MaxAttempts
    <3>1. CASE GivesUp(n)
      <4>1. PICK k \in 0..MaxAttempts : StopsAfter(n, k) /\ spent' = [spent EXCEPT ![n] = @ + k]
        BY <3>1 DEF GivesUp, Ran
      <4>2. k \in Int
        OBVIOUS
      <4> QED
        BY <4>1, <4>2, AttemptsBounded
    <3>2. CASE Proves(n)
      <4>1. PICK k \in 1..MaxAttempts : Attempts(n, k) /\ spent' = [spent EXCEPT ![n] = @ + k]
        BY <3>2 DEF Proves, Ran
      <4>2. k \in Int
        OBVIOUS
      <4> QED
        BY <2>0, <4>1, <4>2, AttemptsBounded
    <3>3. CASE ContestsOrAsks(n)
      <4>1. PICK k \in 1..MaxAttempts : Attempts(n, k) /\ spent' = [spent EXCEPT ![n] = @ + k]
        BY <3>3 DEF ContestsOrAsks, Ran
      <4>2. k \in Int
        OBVIOUS
      <4> QED
        BY <2>0, <4>1, <4>2, AttemptsBounded
    <3>4. CASE Errs(n)
      <4>1. PICK k \in 1..MaxAttempts : Attempts(n, k) /\ spent' = [spent EXCEPT ![n] = @ + (k - 1)]
        BY <3>4 DEF Errs, Ran
      <4>2. k - 1 \in Int
        OBVIOUS
      <4> QED
        BY <2>0, <4>1, <4>2, AttemptsBounded
    <3> QED
      BY <1>3, <3>1, <3>2, <3>3, <3>4
  <2> QED
    BY <1>0, <2>1
<1> QED
  BY <1>1, <1>2, <1>3 DEF Proving

\* The design's steps keep the counters in range.
LEMMA DesignsCounts ==
    ASSUME TInv, Designs
    PROVE  CountTypes'
<1>0. CountTypes /\ {MaxRounds, MaxRepairs, MaxAmendments, MaxReopens} \subseteq Nat
  BY CapAssumption DEF TInv
<1>1. CASE Initial \/ NoRoundLeft \/ Applies \/ DoesNotApply \/ Repair \/ AskAgain \/ NotSettled \/ AdoptProposal
           \/ RetireDropped \/ Revise \/ ReviseEnds
  <2>1. UNCHANGED <<spent, reopens, hints>>
    BY <1>1 DEF Initial, NoRoundLeft, Applies, DoesNotApply, Repair, AskAgain, NotSettled, AdoptProposal, RetireDropped,
         Revise, ReviseEnds, nodes, metas, graph, history
  <2>2. rounds' \in 0..MaxRounds
    BY <1>0, <1>1 DEF CountTypes, Initial, NoRoundLeft, Applies, DoesNotApply, Repair, AskAgain, NotSettled, AdoptProposal,
         RetireDropped, Revise, ReviseEnds, graph
  <2>3. repairs' \in 0..MaxRepairs
    BY <1>0, <1>1 DEF CountTypes, Initial, NoRoundLeft, Applies, DoesNotApply, Repair, AskAgain, NotSettled, AdoptProposal,
         RetireDropped, Revise, ReviseEnds, settling, Exit
  <2>4. applied' \in {applied, 0} /\ restated' \in {restated, 0}
    BY <1>1 DEF Initial, NoRoundLeft, Applies, DoesNotApply, Repair, AskAgain, NotSettled, AdoptProposal,
         RetireDropped, Revise, ReviseEnds, amending, Exit
  <2> QED
    BY <1>0, <2>1, <2>2, <2>3, <2>4 DEF CountTypes
<1>2. CASE ReplayRevised
  <2>1. PICK kept \in SUBSET Proved, N \in SUBSET Node, follow \in BOOLEAN : NewEpoch(N, follow)
    <3>1. PICK kept \in SUBSET Proved :
            LET refreshed == {n \in Node \ kept : status[n] \notin {"absent", "attic"}}
            IN NewEpoch(refreshed, Root \in kept \/ refreshed \cap Child # {})
      BY <1>2 DEF ReplayRevised
    <3> DEFINE N == {n \in Node \ kept : status[n] \notin {"absent", "attic"}}
    <3>2. N \in SUBSET Node /\ (Root \in kept \/ N \cap Child # {}) \in BOOLEAN
      OBVIOUS
    <3> QED
      BY <3>1, <3>2
  <2>2. spent' \in [Node -> 0..MaxAttempts]
    BY <2>1, EpochTypes
  <2>3. UNCHANGED <<reopens, rounds, repairs, hints, applied, restated>>
    BY <1>2 DEF ReplayRevised, history
  <2> QED
    BY <1>0, <2>2, <2>3 DEF CountTypes
<1>3. ASSUME NEW c \in Child, AddChild(c) \/ DemandEdge(c) \/ KeepChild(c) PROVE CountTypes'
  BY <1>0, <1>3 DEF AddChild, DemandEdge, KeepChild, metas, settling, amending, history, CountTypes
<1>4. ASSUME NEW c \in Child, RestateChild(c) PROVE CountTypes'
  <2>1. c \in Node /\ {c} \in SUBSET Node /\ FALSE \in BOOLEAN
    BY DEF Node
  <2>2. spent' \in [Node -> 0..MaxAttempts]
    BY <1>4, <2>1, EpochTypes DEF RestateChild
  <2>3. hints' \in [Node -> 0..(MaxReopens + 1)]
    BY <1>0, <1>4, <2>1, PlusBounds DEF RestateChild, CountTypes
  <2>4. UNCHANGED <<reopens, rounds, repairs, applied, restated>>
    BY <1>4 DEF RestateChild, settling
  <2> QED
    BY <1>0, <2>2, <2>3, <2>4 DEF CountTypes
<1> QED
  BY <1>1, <1>2, <1>3, <1>4 DEF Designs

\* The adjudication's and the amendments' steps keep the counters in range.
LEMMA AmendsCounts ==
    ASSUME TInv, Amends \/ Adjudicates
    PROVE  CountTypes'
<1>0. CountTypes /\ CapsAhead /\ {MaxRounds, MaxRepairs, MaxAmendments, MaxReopens} \subseteq Nat
  BY CapAssumption DEF TInv
<1>1. CASE TakeRequest \/ AlreadySeen \/ Refuse \/ WriteCandidate \/ Reject \/ Accept \/ RequestsEnd \/ RetryRefused
           \/ FinishVerdict \/ FirstDispatch
  BY <1>0, <1>1 DEF TakeRequest, AlreadySeen, Refuse, WriteCandidate, Reject, Accept, RequestsEnd, RetryRefused,
       FinishVerdict, FirstDispatch, graph, nodes, metas, settling, amending, history, CountTypes
<1>2. CASE Salvage
  <2>1. PICK N \in SUBSET Node, follow \in BOOLEAN : NewEpoch(N, follow)
    <3>1. PICK kept \in SUBSET Proved :
           LET broken    == Proved \ kept
               requester == {job.by} \cap Having("stuck") \cap WithBudget
               tainted   == ((Mentions \cup {job.by}) \cap (Having("stuck") \cup Having("contested")))
                            \ requester
               others    == (Having("stuck") \cap WithBudget) \ (requester \cup tainted)
               reopened  == broken \cup requester \cup tainted \cup others
           IN NewEpoch(broken \cup tainted, Root \in kept \/ reopened \cap Child # {})
      BY <1>2 DEF Salvage
    <3> DEFINE requester == {job.by} \cap Having("stuck") \cap WithBudget
               tainted   == ((Mentions \cup {job.by}) \cap (Having("stuck") \cup Having("contested"))) \ requester
               others    == (Having("stuck") \cap WithBudget) \ (requester \cup tainted)
               reopened  == (Proved \ kept) \cup requester \cup tainted \cup others
    <3>2. (Proved \ kept) \cup tainted \in SUBSET Node
      BY DEF Proved, Having
    <3>3. (Root \in kept \/ reopened \cap Child # {}) \in BOOLEAN
      OBVIOUS
    <3> QED
      BY <3>1, <3>2, <3>3
  <2>2. spent' \in [Node -> 0..MaxAttempts]
    BY <2>1, EpochTypes
  <2>3. /\ UNCHANGED <<reopens, rounds, repairs, hints, restated>>
        /\ applied' = applied + 1 /\ applied < MaxAmendments
    BY <1>0, <1>2 DEF Salvage, history, settling, CapsAhead
  <2> QED
    BY <1>0, <2>2, <2>3 DEF CountTypes
<1>3. CASE Restate
  <2>1. UNCHANGED <<spent, reopens, rounds, repairs, hints, applied>> /\ restated' = restated + 1
        /\ applied + restated < MaxAmendments
    BY <1>3 DEF Restate, metas, history
  <2> QED
    BY <1>0, <2>1 DEF CountTypes
<1>4. CASE ReplayRestated
  <2>1. PICK N \in SUBSET Node : NewEpoch(N, TRUE)
    BY <1>4 DEF ReplayRestated, Proved
  <2>2. spent' \in [Node -> 0..MaxAttempts]
    BY <2>1, EpochTypes
  <2>3. UNCHANGED <<reopens, rounds, repairs, hints, applied, restated>>
    BY <1>4 DEF ReplayRestated, history
  <2> QED
    BY <1>0, <2>2, <2>3 DEF CountTypes
<1>5. CASE MarkRestated
  <2>1. reopens[verdict.node] < MaxReopens /\ verdict.node \in Node
    BY <1>0, <1>5 DEF MarkRestated, CapsAhead, TInv, ControlTypes, VerdictOf
  <2>2. reopens' = Plus(reopens, verdict.node)
    BY <1>5 DEF MarkRestated
  <2>3. reopens' \in [Node -> 0..MaxReopens]
    BY <1>0, <2>1, <2>2, PlusBounds DEF CountTypes
  <2>4. UNCHANGED <<spent, rounds, repairs, hints, applied, restated>>
    BY <1>5 DEF MarkRestated, nodes, history, settling
  <2> QED
    BY <1>0, <2>3, <2>4 DEF CountTypes
<1>6. ASSUME NEW n \in Node, NoVerdict(n) \/ HintsExhausted(n) \/ FindStatementWrong(n) PROVE CountTypes'
  BY <1>0, <1>6 DEF NoVerdict, HintsExhausted, FindStatementWrong, graph, nodes, settling, amending, history, CountTypes
<1>7. ASSUME NEW n \in Node, HintAndReopen(n) PROVE CountTypes'
  <2>1. {n} \in SUBSET Node /\ (n \in Child) \in BOOLEAN
    OBVIOUS
  <2>2. spent' \in [Node -> 0..MaxAttempts]
    BY <1>7, <2>1, EpochTypes DEF HintAndReopen
  <2>3. reopens' \in [Node -> 0..MaxReopens] /\ hints' \in [Node -> 0..(MaxReopens + 1)]
    BY <1>0, <1>7, PlusBounds DEF HintAndReopen, CountTypes
  <2>4. UNCHANGED <<rounds, repairs, applied, restated>>
    BY <1>7 DEF HintAndReopen, settling
  <2> QED
    BY <1>0, <2>2, <2>3, <2>4 DEF CountTypes
<1> QED
  BY <1>1, <1>2, <1>3, <1>4, <1>5, <1>6, <1>7 DEF Amends, Adjudicates

\* Every step keeps the counters in range.
LEMMA NextCounts ==
    ASSUME TInv, [Next]_vars
    PROVE  CountTypes'
<1>0. CountTypes /\ {MaxRounds, MaxRepairs, MaxAmendments, MaxReopens} \subseteq Nat
  BY CapAssumption DEF TInv
<1>1. CASE StartRun \/ UNCHANGED vars
  BY <1>0, <1>1 DEF StartRun, vars, graph, settling, amending, history, CountTypes
<1>3. CASE Ends
  BY <1>0, <1>3, EndsExit, EndsGraph DEF Exit, CountTypes
<1>2. CASE Proving
  <2>1. /\ UNCHANGED <<reopens, rounds, hints>> /\ repairs' \in {repairs, 0}
        /\ applied' \in {applied, 0} /\ restated' \in {restated, 0}
    <3>1. CASE Resume \/ Revalidate
      BY <3>1 DEF Resume, Revalidate, metas, settling, amending, history
    <3>2. CASE Integrate
      BY <3>2 DEF Integrate, Exit, metas
    <3>3. ASSUME NEW n \in Node, GivesUp(n) \/ Proves(n) \/ ContestsOrAsks(n) \/ Errs(n)
          PROVE  UNCHANGED <<reopens, rounds, hints, repairs, applied, restated>>
      BY <3>3 DEF GivesUp, Proves, ContestsOrAsks, Errs, Ran, metas, settling
    <3> QED
      BY <1>2, <3>1, <3>2, <3>3 DEF Proving
  <2> QED
    BY <1>0, <1>2, <2>1, SpentInRange DEF CountTypes
<1> QED
  BY <1>1, <1>2, <1>3, DesignsCounts, AmendsCounts DEF Next, Work

\* The types are inductive, for any number of obligations, wordings, rounds and requests.
LEMMA TypesHold == Spec => []TInv
<1>1. Init => TInv
  <2> SUFFICES ASSUME Init PROVE TInv
    OBVIOUS
  <2>1. GraphTypes
    <3>1. /\ status \in [Node -> (ProofStatus \ {"claimed", "qed"}) \cup {"absent"}] /\ behind \subseteq Proved
          /\ pin \in [Child -> {"none", "current", "stale"}]
      BY DEF Init, ProofStatus
    <3>2. NoChildren \in Proposal
      BY DataAssumption DEF Proposal, NoChildren, NotStated
    <3>3. stmt = NoChildren /\ uses = NoChildren /\ adopted = NoChildren /\ hand = NoChildren
      BY DEF Init, NoChildren
    <3> QED
      BY <3>1, <3>2, <3>3 DEF GraphTypes
  <2>2. CountTypes
    BY CapAssumption DEF Init, CountTypes
  <2>3. ControlTypes
    <3>1. NoJob \in Job /\ NoStatementVerdict \in VerdictOf
      BY DEF NoJob, NoStatementVerdict, Job, VerdictOf, Node
    <3> QED
      BY <3>1 DEF Init, ControlTypes, Pc, Why, Answers, Outcomes
  <2>4. ReasonsInPlace /\ CapsAhead /\ TodoIsOpen
    BY DEF Init, ReasonsInPlace, CapsAhead, TodoIsOpen
  <2> QED
    BY <2>1, <2>2, <2>3, <2>4 DEF TInv
<1>2. TInv /\ [Next]_vars => TInv'
  BY NextGraph, NextControl, NextCounts DEF TInv
<1> QED
  BY <1>1, <1>2, PTL DEF Spec

\* Every variable keeps its type: in particular no node is charged more than its
\* attempts and no proposal states a child but in one of its wordings.
THEOREM TypeCorrect == Spec => []TypeOK
<1>1. TInv => TypeOK
  BY DEF TInv, GraphTypes, CountTypes, ControlTypes, TypeOK
<1> QED
  BY <1>1, TypesHold, PTL

-----------------------------------------------------------------------------
(* What is live, and what is proved *)

\* A design is in hand as long as it is settled and until it is adopted, and the
\* children of the adopted one are visited.
HandIsADesign ==
    /\ answer = "stated" => pc \in {"settle", "adopt"}
    /\ pc = "adopt" => answer = "stated"
    /\ answer = "stated" => hand # NoChildren
    /\ pc \in {"children", "edge"} => adopted # NoChildren /\ todo \subseteq Child

\* A first design is being stated: there is nothing to prove yet.
Fresh == why = "initial" /\ pc \in {"propose", "settle", "adopt", "children", "edge"}

\* There are children to prove from the first design on, whatever is killed: those of
\* the adopted design are live once they are visited.
LiveInv ==
    /\ Proved # {} => LiveChild # {}
    /\ pc # "down" /\ ~Fresh => LiveChild # {}
    /\ Fresh => Proved = {}
    /\ pc = "edge" => \A c \in todo : Turn(c) => c \in LiveChild
    /\ pc \in {"children", "edge"} => \A c \in Child \ todo : adopted[c] # NotStated => c \in LiveChild

\* A node is written open, stuck or contested; or retired; or proved, by a dispatch
\* or by the integration.
LEMMA StatusMoves ==
    ASSUME TInv, [Next]_vars
    PROVE  \/ UNCHANGED status
           \/ RetireDropped
           \/ \E N \in SUBSET Node, s \in {"open", "stuck", "contested"} :
                 Write(N, s) /\ \A n \in N : status[n] # "absent" \/ (n \in Child /\ AddChild(n))
           \/ \E n \in Node : Proves(n)
           \/ Integrate
<1> DEFINE Goal == \/ UNCHANGED status
                   \/ RetireDropped
                   \/ \E N \in SUBSET Node, s \in {"open", "stuck", "contested"} :
                         Write(N, s) /\ \A n \in N : status[n] # "absent" \/ (n \in Child /\ AddChild(n))
                   \/ \E n \in Node : Proves(n)
                   \/ Integrate
<1>0. /\ Proved \subseteq Node /\ (\A s : Having(s) \subseteq Node) /\ Child \subseteq Node
      /\ \A n \in Proved \cup Having("stuck") \cup Having("contested") : status[n] # "absent"
  BY DEF Proved, Having, Node, ProvedStatus
<1>1. CASE Initial \/ NoRoundLeft \/ Applies \/ DoesNotApply \/ Repair \/ AskAgain \/ NotSettled \/ AdoptProposal
           \/ Revise \/ ReviseEnds
  BY <1>1 DEF Initial, NoRoundLeft, Applies, DoesNotApply, Repair, AskAgain, NotSettled, AdoptProposal, Revise, ReviseEnds,
       nodes, graph
<1>2. CASE ReplayRevised
  <2>1. PICK kept \in SUBSET Proved : Write((Proved \ kept) \cup Having("stuck"), "open")
    BY <1>2 DEF ReplayRevised
  <2>2. (Proved \ kept) \cup Having("stuck") \in SUBSET Node
        /\ \A n \in (Proved \ kept) \cup Having("stuck") : status[n] # "absent"
    BY <1>0
  <2> QED
    BY <2>1, <2>2
<1>3. ASSUME NEW c \in Child, AddChild(c) \/ RestateChild(c) \/ DemandEdge(c) \/ KeepChild(c) PROVE Goal
  <2>1. {c} \in SUBSET Node
    BY <1>0
  <2>2. (Write({c}, "open") /\ (status[c] # "absent" \/ AddChild(c))) \/ UNCHANGED status
    BY <1>3 DEF AddChild, RestateChild, DemandEdge, KeepChild
  <2> QED
    BY <2>1, <2>2
<1>4. CASE Restate \/ FirstDispatch \/ MarkRestated \/ TakeRequest \/ AlreadySeen \/ Refuse \/ WriteCandidate \/ Reject
           \/ Accept \/ RequestsEnd
  BY <1>4 DEF Restate, FirstDispatch, MarkRestated, TakeRequest, AlreadySeen, Refuse, WriteCandidate, Reject, Accept,
       RequestsEnd, graph, nodes
<1>5. CASE FinishVerdict
  <2>1. {verdict.node} \in SUBSET Node
    BY DEF TInv, ControlTypes, VerdictOf
  <2>2. (Write({verdict.node}, "contested") /\ status[verdict.node] # "absent") \/ UNCHANGED status
    BY <1>5 DEF FinishVerdict
  <2> QED
    BY <2>1, <2>2
<1>6. CASE ReplayRestated
  <2>1. PICK kept \in SUBSET Proved : Write(Proved \ kept, "open")
    BY <1>6 DEF ReplayRestated
  <2>2. Proved \ kept \in SUBSET Node
        /\ \A n \in Proved \ kept : status[n] # "absent"
    BY <1>0
  <2> QED
    BY <2>1, <2>2
<1>7. ASSUME NEW n \in Node, NoVerdict(n) \/ HintAndReopen(n) \/ HintsExhausted(n) \/ FindStatementWrong(n) PROVE Goal
  <2>1. {n} \in SUBSET Node
    OBVIOUS
  <2>2. (Write({n}, "open") /\ status[n] # "absent") \/ UNCHANGED status
    BY <1>7 DEF Adjudicable, NoVerdict, HintAndReopen, HintsExhausted, FindStatementWrong, graph, nodes
  <2> QED
    BY <2>1, <2>2
<1>8. CASE Salvage
  <2>1. PICK kept \in SUBSET Proved :
           LET broken    == Proved \ kept
               requester == {job.by} \cap Having("stuck") \cap WithBudget
               tainted   == ((Mentions \cup {job.by}) \cap (Having("stuck") \cup Having("contested")))
                            \ requester
               others    == (Having("stuck") \cap WithBudget) \ (requester \cup tainted)
               reopened  == broken \cup requester \cup tainted \cup others
           IN Write(reopened, "open")
    BY <1>8 DEF Salvage
  <2> DEFINE requester == {job.by} \cap Having("stuck") \cap WithBudget
             tainted   == ((Mentions \cup {job.by}) \cap (Having("stuck") \cup Having("contested"))) \ requester
             others    == (Having("stuck") \cap WithBudget) \ (requester \cup tainted)
             reopened  == (Proved \ kept) \cup requester \cup tainted \cup others
  <2>2. reopened \in SUBSET Node /\ \A n \in reopened : status[n] # "absent"
    BY <1>0
  <2> QED
    BY <2>1, <2>2
<1>9. CASE RetryRefused
  <2>1. Write(refused \cap Having("stuck") \cap WithBudget, "open")
    BY <1>9 DEF RetryRefused
  <2>2. refused \cap Having("stuck") \cap WithBudget \in SUBSET Node
        /\ \A n \in refused \cap Having("stuck") \cap WithBudget : status[n] # "absent"
    BY <1>0
  <2> QED
    BY <2>1, <2>2
<1>10. CASE Resume
  <2>1. Write(Having("stuck") \cap WithBudget, "open")
    BY <1>10 DEF Resume
  <2>2. Having("stuck") \cap WithBudget \in SUBSET Node
        /\ \A n \in Having("stuck") \cap WithBudget : status[n] # "absent"
    BY <1>0
  <2> QED
    BY <2>1, <2>2
<1>11. CASE Revalidate
  <2>1. {Root} \in SUBSET Node /\ (Root \in Proved => status[Root] # "absent")
    BY <1>0 DEF Node
  <2>2. (Write({Root}, "open") /\ Root \in Proved) \/ UNCHANGED status
    BY <1>11 DEF Revalidate
  <2> QED
    BY <2>1, <2>2
<1>12. ASSUME NEW n \in Node, GivesUp(n) \/ ContestsOrAsks(n) \/ Errs(n) PROVE Goal
  <2>1. PICK s \in {"open", "stuck", "contested"} : Write({n}, s)
    BY <1>12 DEF GivesUp, ContestsOrAsks, Errs, Ran
  <2>2. {n} \in SUBSET Node /\ status[n] # "absent"
    BY <1>12 DEF GivesUp, ContestsOrAsks, Errs, TInv, TodoIsOpen, Having
  <2> QED
    BY <2>1, <2>2
<1>13. CASE StartRun \/ UNCHANGED vars
  BY <1>13 DEF StartRun, vars, graph
<1>15. CASE Ends
  <2>1. CASE UNCHANGED status
    BY <2>1
  <2>2. CASE CannotReplay
    <3>1. PICK broken \in SUBSET Proved : broken \in SUBSET Node /\ Write(broken, "open")
      BY <2>2, CutReplay DEF TInv
    <3>2. \A n \in broken : status[n] # "absent"
      BY <1>0
    <3> QED
      BY <3>1, <3>2
  <2> QED
    BY <1>15, <2>1, <2>2, EndsGraph
<1> HIDE DEF Goal
<1>14. Goal
  <2>1. CASE Designs
    BY <2>1, <1>1, <1>2, <1>3 DEF Designs, Goal
  <2>2. CASE Adjudicates
    BY <2>2, <1>4, <1>5, <1>6, <1>7 DEF Adjudicates, Goal
  <2>3. CASE Amends
    BY <2>3, <1>4, <1>8, <1>9 DEF Amends, Goal
  <2>4. CASE Proving
    BY <2>4, <1>10, <1>11, <1>12 DEF Proving, Goal
  <2> QED
    BY <1>13, <1>15, <2>1, <2>2, <2>3, <2>4 DEF Next, Work, Goal
<1> QED
  BY <1>14 DEF Goal

\* What is live stays so unless it is retired, and only a dispatch proves a node.
LEMMA LiveMoves ==
    ASSUME TInv, [Next]_vars
    PROVE  /\ RetireDropped \/ LiveChild \subseteq LiveChild'
           /\ Proved' \subseteq Proved \/ \E n \in Node : Proves(n) /\ Proved' = Proved \cup {n}
           /\ \A n \in Node : status'[n] = "absent" => status[n] = "absent"
           /\ \A n \in Node : status[n] = "absent" /\ status'[n] # "absent" => n \in Child /\ AddChild(n)
<1>0. GraphTypes
  BY DEF TInv
<1>1. CASE UNCHANGED status
  BY <1>1 DEF Proved, LiveChild
<1>2. CASE RetireDropped
  <2> DEFINE N == {c \in LiveChild \ Proved : adopted[c] = NotStated}
  <2>1. Write(N, "attic")
    BY <1>2 DEF RetireDropped
  <2>2. N \in SUBSET Node /\ "attic" \in (ProofStatus \ {"claimed", "qed"}) \cup {"absent"} /\ "attic" \notin ProvedStatus
    BY DEF LiveChild, Node, ProofStatus, ProvedStatus
  <2>3. Proved' = Proved \ N /\ \A n \in Node : status'[n] = IF n \in N THEN "attic" ELSE status[n]
    BY <1>0, <2>1, <2>2, WriteProved
  <2> QED
    BY <1>2, <2>3 DEF LiveChild
<1>3. ASSUME NEW N \in SUBSET Node, NEW s \in {"open", "stuck", "contested"}, Write(N, s),
             \A n \in N : status[n] # "absent" \/ (n \in Child /\ AddChild(n))
      PROVE  /\ LiveChild \subseteq LiveChild' /\ Proved' \subseteq Proved
             /\ \A n \in Node : status'[n] = "absent" => status[n] = "absent"
             /\ \A n \in Node : status[n] = "absent" /\ status'[n] # "absent" => n \in Child /\ AddChild(n)
  <2>1. s \in (ProofStatus \ {"claimed", "qed"}) \cup {"absent"} /\ s \notin ProvedStatus
    BY DEF ProofStatus, ProvedStatus
  <2>2. Proved' = Proved \ N /\ \A n \in Node : status'[n] = IF n \in N THEN s ELSE status[n]
    BY <1>0, <1>3, <2>1, WriteProved
  <2> QED
    BY <1>3, <2>2 DEF LiveChild, Node
<1>4. ASSUME NEW n \in Node, Proves(n)
      PROVE  /\ LiveChild \subseteq LiveChild' /\ Proved' = Proved \cup {n}
             /\ \A m \in Node : status'[m] = "absent" <=> status[m] = "absent"
  <2>1. Write({n}, "gated")
    BY <1>4 DEF Proves, Ran
  <2>2. {n} \in SUBSET Node /\ "gated" \in (ProofStatus \ {"claimed", "qed"}) \cup {"absent"} /\ "gated" \in ProvedStatus
    BY DEF ProofStatus, ProvedStatus
  <2>3. Proved' = Proved \cup {n} /\ \A m \in Node : status'[m] = IF m \in {n} THEN "gated" ELSE status[m]
    BY <1>0, <2>1, <2>2, WriteProved
  <2>4. status[n] = "open"
    BY <1>4 DEF Proves, TInv, TodoIsOpen, Having
  <2> QED
    BY <2>3, <2>4 DEF LiveChild, Node
<1>5. CASE Integrate /\ status' # status
  <2>1. Write(LiveChild \cup {Root}, "integrated") /\ LiveChild \cup {Root} \subseteq Proved
    BY <1>5 DEF Integrate
  <2>2. PICK N \in SUBSET Node : N = LiveChild \cup {Root}
    BY DEF LiveChild, Node
  <2>3. "integrated" \in (ProofStatus \ {"claimed", "qed"}) \cup {"absent"} /\ "integrated" \in ProvedStatus
    BY DEF ProofStatus, ProvedStatus
  <2>4. Proved' = Proved \cup N /\ \A m \in Node : status'[m] = IF m \in N THEN "integrated" ELSE status[m]
    BY <1>0, <2>1, <2>2, <2>3, WriteProved
  <2> QED
    BY <2>1, <2>2, <2>4 DEF LiveChild, Node, Proved, ProvedStatus
<1> QED
  BY <1>1, <1>2, <1>3, <1>4, <1>5, StatusMoves

\* Away from the design, the proposal is left alone.
LEMMA ElsewhereMoves ==
    ASSUME TInv,
           \/ Amends \/ ReplayRevised \/ ReviseEnds \/ Resume \/ Revalidate
           \/ FinishVerdict \/ FirstDispatch \/ ReplayRestated \/ MarkRestated
           \/ \E n \in Node : NoVerdict(n) \/ HintAndReopen(n) \/ HintsExhausted(n) \/ FindStatementWrong(n)
           \/ \E n \in Node : GivesUp(n) \/ Proves(n) \/ ContestsOrAsks(n) \/ Errs(n)
    PROVE  /\ pc \notin {"down", "propose", "settle", "adopt", "children", "edge"}
           /\ pc' \notin {"down", "propose", "settle", "adopt", "children", "edge"}
           /\ UNCHANGED <<answer, hand, adopted>>
<1>1. CASE ReplayRevised \/ ReviseEnds \/ Resume \/ Revalidate \/ FinishVerdict \/ FirstDispatch \/ ReplayRestated \/ MarkRestated
  BY <1>1 DEF ReplayRevised, ReviseEnds, Resume, Revalidate, FinishVerdict, FirstDispatch, ReplayRestated, MarkRestated,
       graph, metas, settling
<1>2. CASE TakeRequest \/ AlreadySeen \/ Refuse \/ WriteCandidate \/ Reject \/ Accept \/ Salvage \/ RequestsEnd \/ RetryRefused
  <2>1. UNCHANGED <<answer, hand, adopted>>
    BY <1>2 DEF TakeRequest, AlreadySeen, Refuse, WriteCandidate, Reject, Accept, Salvage, RequestsEnd, RetryRefused,
         graph, metas, settling
  <2>2. pc \in {"dispatch", "requests", "apply", "judge", "salvage", "adjudicate"}
    BY <1>2 DEF TakeRequest, AlreadySeen, Refuse, WriteCandidate, Reject, Accept, Salvage, RequestsEnd, RetryRefused
  <2>3. pc' \in {"dispatch", "requests", "apply", "judge", "salvage", "verdict", "adjudicate", "revise"}
    BY <1>2 DEF TakeRequest, AlreadySeen, Refuse, WriteCandidate, Reject, Accept, Salvage, RequestsEnd, RetryRefused, Return
  <2> QED
    BY <2>1, <2>2, <2>3
<1>3. ASSUME NEW n \in Node, NoVerdict(n) \/ HintAndReopen(n) \/ HintsExhausted(n) \/ FindStatementWrong(n)
      PROVE  /\ pc = "adjudicate" /\ pc' \in {"adjudicate", "verdict", "apply"}
             /\ UNCHANGED <<answer, hand, adopted>>
  BY <1>3 DEF NoVerdict, HintAndReopen, HintsExhausted, FindStatementWrong, graph, settling
<1>4. ASSUME NEW n \in Node, GivesUp(n) \/ Proves(n) \/ ContestsOrAsks(n) \/ Errs(n)
      PROVE  pc = "dispatch" /\ pc' = "dispatch" /\ UNCHANGED <<answer, hand, adopted>>
  BY <1>4 DEF GivesUp, Proves, ContestsOrAsks, Errs, Ran, metas, settling
<1> QED
  BY <1>1, <1>2, <1>3, <1>4 DEF Amends

\* The design in hand, through every step.
LEMMA HandNext ==
    ASSUME TInv, HandIsADesign, [Next]_vars
    PROVE  HandIsADesign'
<1>1. CASE \/ Amends \/ ReplayRevised \/ ReviseEnds \/ Resume \/ Revalidate
           \/ FinishVerdict \/ FirstDispatch \/ ReplayRestated \/ MarkRestated
           \/ \E n \in Node : NoVerdict(n) \/ HintAndReopen(n) \/ HintsExhausted(n) \/ FindStatementWrong(n)
           \/ \E n \in Node : GivesUp(n) \/ Proves(n) \/ ContestsOrAsks(n) \/ Errs(n)
  BY <1>1, ElsewhereMoves DEF HandIsADesign
<1>2. CASE Ends \/ Integrate \/ NoRoundLeft
  BY <1>2, EndsExit DEF Integrate, NoRoundLeft, Exit, HandIsADesign
<1>3. CASE StartRun \/ UNCHANGED vars
  BY <1>3 DEF StartRun, vars, graph, settling, HandIsADesign
<1>4. CASE Initial \/ NotSettled \/ Revise
  <2>1. \/ Exit
        \/ pc' = "settle" /\ Answered
        \/ pc = "settle" /\ pc' = "integrate" /\ answer' = "bad"
    BY <1>4 DEF Initial, NotSettled, Revise
  <2> QED
    BY <2>1 DEF Exit, Answered, HandIsADesign
<1>5. CASE Applies \/ DoesNotApply \/ Repair \/ AskAgain
  BY <1>5 DEF Applies, DoesNotApply, Repair, AskAgain, Answered, HandIsADesign
<1>6. CASE AdoptProposal
  BY <1>6 DEF AdoptProposal, HandIsADesign
<1>7. CASE RetireDropped
  BY <1>7 DEF RetireDropped, settling, HandIsADesign
<1>8. CASE Restate
  <2>1. PICK w \in Wording[verdict.node] : hand' = [AsStated EXCEPT ![verdict.node] = w]
    BY <1>8 DEF Restate
  <2>2. verdict.node \in Child /\ pc' = "adopt" /\ answer' = "stated"
    BY <1>8 DEF Restate, LiveChild
  <2>3. w # NotStated
    BY <2>1, <2>2, DataAssumption
  <2>4. hand'[verdict.node] = w /\ NoChildren[verdict.node] = NotStated
    BY <2>1, <2>2 DEF AsStated, NoChildren
  <2> QED
    BY <2>2, <2>3, <2>4 DEF HandIsADesign
<1>9. ASSUME NEW c \in Child, AddChild(c) \/ RestateChild(c) \/ DemandEdge(c) \/ KeepChild(c) PROVE HandIsADesign'
  <2>1. /\ UNCHANGED <<answer, hand, adopted>> /\ pc \in {"children", "edge"} /\ pc' \in {"children", "edge"}
        /\ todo' \subseteq todo
    BY <1>9 DEF AddChild, RestateChild, DemandEdge, KeepChild, metas, settling
  <2> QED
    BY <2>1 DEF HandIsADesign
<1> QED
  BY <1>1, <1>2, <1>3, <1>4, <1>5, <1>6, <1>7, <1>8, <1>9 DEF Next, Work, Designs, Adjudicates, Proving

\* The child whose turn it is is the only one.
LEMMA OneTurn ==
    ASSUME todo \subseteq Child, NEW c \in Child, Turn(c)
    PROVE  \A d \in todo : Turn(d) => d = c
<1>1. ASSUME NEW d \in todo, Turn(d) PROVE d = c
  <2>1. c \in todo /\ d \in Child /\ ordering[c] <= ordering[d] /\ ordering[d] <= ordering[c]
    BY <1>1 DEF Turn
  <2>2. ordering[c] \in Nat /\ ordering[d] \in Nat
    BY <2>1, NodeAssumption
  <2>3. ordering[c] = ordering[d]
    BY <2>1, <2>2
  <2> QED
    BY <2>1, <2>3, NodeAssumption
<1> QED
  BY <1>1

\* What is live and what is proved, through every step.
LEMMA LiveNext ==
    ASSUME TInv, HandIsADesign, LiveInv, [Next]_vars
    PROVE  LiveInv'
<1>0. /\ RetireDropped \/ LiveChild \subseteq LiveChild'
      /\ Proved' \subseteq Proved \/ \E n \in Node : Proves(n) /\ Proved' = Proved \cup {n}
  BY LiveMoves
<1>e. LiveChild' \subseteq Child
  BY DEF LiveChild
<1>1. CASE \/ Amends \/ ReplayRevised \/ ReviseEnds \/ Resume \/ Revalidate
           \/ FinishVerdict \/ FirstDispatch \/ ReplayRestated \/ MarkRestated
           \/ \E n \in Node : NoVerdict(n) \/ HintAndReopen(n) \/ HintsExhausted(n) \/ FindStatementWrong(n)
           \/ \E n \in Node : GivesUp(n) \/ Proves(n) \/ ContestsOrAsks(n) \/ Errs(n)
  <2>1. pc \notin {"down", "propose", "settle", "adopt", "children", "edge"}
        /\ pc' \notin {"down", "propose", "settle", "adopt", "children", "edge"}
    BY <1>1, ElsewhereMoves
  <2>2. LiveChild # {}
    BY <2>1 DEF LiveInv, Fresh
  <2>3. ~RetireDropped
    BY <2>1 DEF RetireDropped
  <2>4. LiveChild' # {}
    BY <1>0, <2>2, <2>3
  <2> QED
    BY <2>1, <2>4 DEF LiveInv, Fresh
<1>p. ASSUME ~(\E n \in Node : Proves(n)), ~RetireDropped
      PROVE  Proved' \subseteq Proved /\ LiveChild \subseteq LiveChild' /\ (Proved' # {} => LiveChild' # {})
  BY <1>0, <1>p DEF LiveInv
<1>2. CASE Ends \/ Integrate \/ NoRoundLeft \/ Initial \/ NotSettled \/ Revise \/ Applies \/ DoesNotApply \/ Repair
           \/ AskAgain \/ Restate
  <2>1. ~RetireDropped /\ ~(\E n \in Node : Proves(n))
    <3>1. pc = "dispatch" => Ends
      BY <1>2 DEF Integrate, NoRoundLeft, Initial, NotSettled, Revise, Applies, DoesNotApply, Repair, AskAgain, Restate
    <3>2. Ends => pc' = "down"
      BY EndsExit
    <3>3. RetireDropped => pc = "children" /\ pc' # "down"
      BY DEF RetireDropped
    <3>4. (\E n \in Node : Proves(n)) => pc = "dispatch" /\ pc' # "down"
      BY DEF Proves, Ran
    <3>5. pc = "children" => Ends
      BY <1>2 DEF Integrate, NoRoundLeft, Initial, NotSettled, Revise, Applies, DoesNotApply, Repair, AskAgain, Restate
    <3> QED
      BY <3>1, <3>2, <3>3, <3>4, <3>5
  <2>2. Proved' \subseteq Proved /\ LiveChild \subseteq LiveChild' /\ (Proved' # {} => LiveChild' # {})
    BY <1>p, <2>1
  <2>3. \/ pc' = "down"
        \/ pc' \in {"settle", "adopt"} /\ pc \in {"propose", "settle"} /\ why' = why
        \/ pc' = "settle" /\ pc = "revise" /\ why' = "revise"
        \/ pc' = "integrate" /\ pc = "settle" /\ why # "initial"
        \/ pc' = "adopt" /\ pc = "verdict" /\ why' = "restate"
    BY <1>2, EndsExit DEF Exit, Integrate, NoRoundLeft, Initial, NotSettled, Revise, Applies, DoesNotApply, Repair, AskAgain,
         Restate, TInv, ReasonsInPlace, Adopting
  <2> QED
    BY <2>2, <2>3 DEF LiveInv, Fresh
<1>3. CASE UNCHANGED vars
  BY <1>3 DEF vars, graph, settling, LiveInv, Fresh, LiveChild, Proved, Turn
<1>4. CASE StartRun
  <2>1. why = "initial" /\ why' = why /\ UNCHANGED status
    BY <1>4 DEF StartRun, settling, TInv, ReasonsInPlace, Adopting
  <2>2. pc' = IF LiveChild = {} THEN "propose" ELSE "resume"
    BY <1>4 DEF StartRun
  <2>3. Proved' = Proved /\ LiveChild' = LiveChild
    BY <2>1 DEF Proved, LiveChild
  <2> QED
    BY <2>1, <2>2, <2>3 DEF LiveInv, Fresh
<1>5. CASE AdoptProposal
  <2>1. /\ UNCHANGED <<status, why>> /\ pc = "adopt" /\ pc' = "children" /\ adopted' = hand
        /\ todo' = {c \in Child : hand[c] # NotStated}
    BY <1>5 DEF AdoptProposal, nodes
  <2>2. Proved' = Proved /\ LiveChild' = LiveChild
    BY <2>1 DEF Proved, LiveChild
  <2> QED
    BY <2>1, <2>2 DEF LiveInv, Fresh
<1>6. CASE RetireDropped
  <2> DEFINE N == {c \in LiveChild \ Proved : adopted[c] = NotStated}
  <2>1. Write(N, "attic") /\ pc' \in {"resume", "replay"} /\ pc = "children" /\ todo = {}
    BY <1>6 DEF RetireDropped
  <2>2. PICK c \in Child : adopted[c] # NotStated
    <3>1. adopted # NoChildren /\ adopted \in Proposal
      BY <2>1 DEF HandIsADesign, TInv, GraphTypes
    <3> QED
      BY <3>1 DEF Proposal, NoChildren
  <2>3. c \in LiveChild /\ c \notin N /\ c \in Node
    BY <2>1, <2>2 DEF LiveInv, Node
  <2>4. status'[c] = status[c]
    BY <2>1, <2>3 DEF Write
  <2>5. c \in LiveChild'
    BY <2>3, <2>4 DEF LiveChild
  <2> QED
    BY <2>1, <2>5 DEF LiveInv, Fresh
<1>7. ASSUME NEW c \in Child, AddChild(c) \/ RestateChild(c) PROVE LiveInv'
  <2>1. /\ pc = "children" /\ pc' = "edge" /\ Turn(c) /\ UNCHANGED <<todo, adopted, why>> /\ Write({c}, "open")
    BY <1>7 DEF AddChild, RestateChild, metas, settling
  <2>2. Proved' \subseteq Proved /\ LiveChild \subseteq LiveChild' /\ (Proved' # {} => LiveChild' # {})
    <3>1. ~RetireDropped /\ ~(\E n \in Node : Proves(n))
      BY <2>1 DEF RetireDropped, Proves, Ran
    <3> QED
      BY <1>p, <3>1
  <2>3. c \in LiveChild'
    BY <2>1 DEF Write, LiveChild, Node
  <2>4. todo \subseteq Child
    BY <2>1 DEF HandIsADesign
  <2>5. \A d \in todo' : Turn(d)' => d = c
    BY <2>1, <2>4, OneTurn DEF Turn
  <2> QED
    BY <2>1, <2>2, <2>3, <2>5 DEF LiveInv, Fresh
<1>8. ASSUME NEW c \in Child, DemandEdge(c) \/ KeepChild(c) PROVE LiveInv'
  <2>1. /\ pc \in {"children", "edge"} /\ pc' = "children" /\ Turn(c) /\ UNCHANGED <<adopted, why>>
        /\ todo' = todo \ {c}
    BY <1>8 DEF DemandEdge, KeepChild, metas, settling
  <2>2. Proved' \subseteq Proved /\ LiveChild \subseteq LiveChild' /\ (Proved' # {} => LiveChild' # {})
    <3>1. ~RetireDropped /\ ~(\E n \in Node : Proves(n))
      BY <2>1 DEF RetireDropped, Proves, Ran
    <3> QED
      BY <1>p, <3>1
  <2>3. c \in LiveChild'
    <3>1. CASE DemandEdge(c)
      <4>1. c \in LiveChild
        BY <3>1, <2>1 DEF DemandEdge, LiveInv, Turn
      <4> QED
        BY <2>2, <4>1
    <3>2. CASE KeepChild(c)
      BY <3>2 DEF KeepChild, Write, LiveChild, Node
    <3> QED
      BY <1>8, <3>1, <3>2
  <2> QED
    BY <2>1, <2>2, <2>3 DEF LiveInv, Fresh
<1> QED
  BY <1>1, <1>2, <1>3, <1>4, <1>5, <1>6, <1>7, <1>8 DEF Next, Work, Designs, Adjudicates, Proving

\* What every process knows of the graph, wherever it is killed.
BaseInv == TInv /\ HandIsADesign /\ LiveInv

\* Wherever a process is killed, this is what the next one finds.
LEMMA BaseHolds == Spec => []BaseInv
<1>1. Init => HandIsADesign /\ LiveInv
  BY DEF Init, HandIsADesign, LiveInv, Fresh, Proved, ProvedStatus
<1>2. BaseInv /\ [Next]_vars => HandIsADesign' /\ LiveInv'
  BY HandNext, LiveNext DEF BaseInv
<1>3. Spec => [](HandIsADesign /\ LiveInv)
  <2>1. TInv /\ HandIsADesign /\ LiveInv /\ [Next]_vars => HandIsADesign' /\ LiveInv'
    BY <1>2 DEF BaseInv
  <2> QED
    BY <1>1, <2>1, TypesHold, PTL DEF Spec
<1> QED
  BY <1>3, TypesHold, PTL DEF BaseInv

-----------------------------------------------------------------------------
(* Candidates *)

\* The development is a candidate only while the approver looks at it, or was when a
\* process was cut off.
SanctionInv == sanctioned # "no" /\ (designed = "candidate" => pc = "judge" \/ sanctioned = "cut")

\* Every way out of the approver's question restores or keeps the development in use.
LEMMA SanctionHolds == Spec => []SanctionInv
<1>1. Init => SanctionInv
  BY DEF Init, SanctionInv
<1>2. ASSUME SanctionInv, TInv, [Next]_vars PROVE SanctionInv'
  <2>0. sanctioned \in {"yes", "cut", "no"}
    BY <1>2 DEF TInv, ControlTypes
  <2>1. CASE StartRun \/ UNCHANGED vars
    BY <1>2, <2>0, <2>1 DEF StartRun, vars, graph, history, SanctionInv
  <2>6. CASE Ends
    <3>1. CutOff /\ UNCHANGED designed
      BY <2>6 DEF Ends, Kill, CannotCheck, CannotReplay, graph
    <3> QED
      BY <1>2, <2>0, <3>1 DEF CutOff, SanctionInv
  <2>2. CASE Designs
    <3>1. CASE Initial \/ NoRoundLeft \/ Applies \/ DoesNotApply \/ Repair \/ AskAgain \/ NotSettled \/ AdoptProposal
               \/ RetireDropped \/ ReplayRevised \/ Revise \/ ReviseEnds
      <4>1. UNCHANGED <<designed, sanctioned>> /\ pc # "judge"
        BY <3>1 DEF Initial, NoRoundLeft, Applies, DoesNotApply, Repair, AskAgain, NotSettled, AdoptProposal,
             RetireDropped, ReplayRevised, Revise, ReviseEnds, graph, metas, history
      <4> QED
        BY <1>2, <4>1 DEF SanctionInv
    <3>2. ASSUME NEW c \in Child, AddChild(c) \/ RestateChild(c) \/ DemandEdge(c) \/ KeepChild(c) PROVE SanctionInv'
      BY <1>2, <3>2 DEF AddChild, RestateChild, DemandEdge, KeepChild, metas, history, SanctionInv
    <3> QED
      BY <2>2, <3>1, <3>2 DEF Designs
  <2>3. CASE Adjudicates
    <3>1. CASE Restate \/ FinishVerdict \/ FirstDispatch \/ ReplayRestated \/ MarkRestated
      BY <1>2, <3>1 DEF Restate, FinishVerdict, FirstDispatch, ReplayRestated, MarkRestated, graph, metas, history, SanctionInv
    <3>2. ASSUME NEW n \in Node, NoVerdict(n) \/ HintAndReopen(n) \/ HintsExhausted(n) \/ FindStatementWrong(n) PROVE SanctionInv'
      BY <1>2, <3>2 DEF NoVerdict, HintAndReopen, HintsExhausted, FindStatementWrong, graph, history, SanctionInv
    <3> QED
      BY <2>3, <3>1, <3>2 DEF Adjudicates
  <2>4. CASE Amends
    BY <1>2, <2>4 DEF Amends, TakeRequest, AlreadySeen, Refuse, WriteCandidate, Reject, Accept, Salvage, RequestsEnd,
         RetryRefused, graph, metas, history, SanctionInv
  <2>5. CASE Proving
    <3>1. CASE Resume \/ Revalidate \/ Integrate
      BY <1>2, <3>1 DEF Resume, Revalidate, Integrate, metas, history, SanctionInv
    <3>2. ASSUME NEW n \in Node, GivesUp(n) \/ Proves(n) \/ ContestsOrAsks(n) \/ Errs(n) PROVE SanctionInv'
      BY <1>2, <3>2 DEF GivesUp, Proves, ContestsOrAsks, Errs, Ran, metas, SanctionInv
    <3> QED
      BY <2>5, <3>1, <3>2 DEF Proving
  <2> QED
    BY <1>2, <2>1, <2>2, <2>3, <2>4, <2>5, <2>6 DEF Next, Work
<1>3. TInv /\ SanctionInv /\ [Next]_vars => SanctionInv'
  BY <1>2
<1> QED
  BY <1>1, <1>3, TypesHold, PTL DEF Spec

\* Wherever processes are killed or cut off: nothing is proved against a copy nobody
\* has approved, unless a process ended between recording it and the verdict on it.
THEOREM CandidatesAreApproved == Spec => []OnlyApprovedDesigns
<1>1. SanctionInv => OnlyApprovedDesigns
  BY DEF SanctionInv, OnlyApprovedDesigns
<1> QED
  BY <1>1, SanctionHolds, PTL

-----------------------------------------------------------------------------
(* Demand edges *)

\* Where the root's proof may be of other statements than the graph's: while a design
\* is adopted, and in a process that has not looked at the stale edges yet.
Unchecked == Adopting \cup {"down", "resume", "revalidate"}

\* Which statement of c the root's proof was gated with, if any, is the present one.
UsesPresent(c) == uses[c] \in {NotStated, stmt[c]}

\* A child has an edge from the moment it is added, but for the one being added; an
\* edge that is missing was never used; an edge that looks current is; and where all
\* is checked, so is every edge that will be pinned to its child's epoch again.
PinInv ==
    /\ \A c \in Child : pin[c] = "none" => status[c] = "absent" \/ (pc = "edge" /\ Turn(c))
    /\ \A c \in Child : status[c] = "absent" => pin[c] = "none"
    /\ Root \in Proved => \A c \in Child : pin[c] = "none" => uses[c] = NotStated
    /\ PinsAreHonest
    /\ Root \in Proved /\ pc \notin Unchecked => \A c \in Child : UsesPresent(c)

\* A step that leaves statements and edges alone, and proves nothing of the root.
LEMMA EdgesKept ==
    ASSUME TInv, [Next]_vars, PinInv, UNCHANGED <<stmt, uses, pin>>, Root \in Proved' => Root \in Proved,
           pc # "edge", \A c \in Child : ~AddChild(c),
           pc' \in Unchecked \/ pc \notin Unchecked \/ Root \notin Proved'
    PROVE  PinInv'
<1>1. \A c \in Child : status'[c] = "absent" <=> status[c] = "absent"
  BY LiveMoves DEF Node
<1>2. \A c \in Child : UsesPresent(c)' <=> UsesPresent(c)
  BY DEF UsesPresent
<1>3. PinsAreHonest'
  BY DEF PinInv, PinsAreHonest
<1> QED
  BY <1>1, <1>2, <1>3 DEF PinInv

\* A step that gates the root's proof again, or gives it up, with every other proof.
LEMMA EdgesRegated ==
    ASSUME TInv, [Next]_vars, PinInv, UNCHANGED stmt, Root \in Proved' => uses' = AsStated,
           \A c \in Child : pin'[c] = "none" <=> pin[c] = "none",
           pc # "edge", \A c \in Child : ~AddChild(c)
    PROVE  PinInv'
<1>1. \A c \in Child : status'[c] = "absent" <=> status[c] = "absent"
  BY LiveMoves DEF Node
<1>2. ASSUME Root \in Proved' PROVE \A c \in Child : UsesPresent(c)' /\ (status[c] = "absent" => uses'[c] = NotStated)
  BY <1>2 DEF UsesPresent, AsStated, LiveChild
<1>3. PinsAreHonest'
  BY <1>2 DEF PinsAreHonest, UsesPresent
<1> QED
  BY <1>1, <1>2, <1>3 DEF PinInv

\* A replay of every proof takes them into the present design, or reopens them.
LEMMA ReplayGates ==
    ASSUME TInv, NEW kept \in SUBSET Proved, NEW N \in SUBSET Node, Proved \ kept \subseteq N, N \cap kept = {},
           Write(N, "open"), Regated(kept, Proved \ kept)
    PROVE  /\ Proved' = kept /\ (Root \in Proved' => uses' = AsStated)
           /\ behind' = {}
<1>1. "open" \in (ProofStatus \ {"claimed", "qed"}) \cup {"absent"} /\ "open" \notin ProvedStatus
  BY DEF ProofStatus, ProvedStatus
<1>2. Proved' = Proved \ N
  BY <1>1, WriteProved DEF TInv
<1>3. Proved' = kept
  BY <1>2
<1>4. behind' = {}
  BY DEF Regated, TInv, GraphTypes
<1> QED
  BY <1>3, <1>4 DEF Regated

\* What the three replays of every proof have in common.
LEMMA Replays ==
    ASSUME TInv, Salvage \/ ReplayRestated \/ ReplayRevised
    PROVE  /\ Root \in Proved' => uses' = AsStated
           /\ behind' = {} /\ UNCHANGED stmt
           /\ \A c \in Child : pin'[c] = "none" <=> pin[c] = "none"
<1>0. /\ Proved \subseteq Node /\ (\A s : Having(s) \subseteq Node)
      /\ Proved \cap (Having("stuck") \cup Having("contested")) = {}
  BY NotProved DEF Proved, Having
<1>1. ASSUME NEW N, NEW follow, NewEpoch(N, follow) PROVE \A c \in Child : pin'[c] = "none" <=> pin[c] = "none"
  BY <1>1 DEF NewEpoch
<1>2. CASE Salvage
  <2>1. PICK kept \in SUBSET Proved :
           LET broken    == Proved \ kept
               requester == {job.by} \cap Having("stuck") \cap WithBudget
               tainted   == ((Mentions \cup {job.by}) \cap (Having("stuck") \cup Having("contested")))
                            \ requester
               others    == (Having("stuck") \cap WithBudget) \ (requester \cup tainted)
               reopened  == broken \cup requester \cup tainted \cup others
           IN /\ Write(reopened, "open")
              /\ Regated(kept, broken)
              /\ NewEpoch(broken \cup tainted, Root \in kept \/ reopened \cap Child # {})
    BY <1>2 DEF Salvage
  <2> DEFINE requester == {job.by} \cap Having("stuck") \cap WithBudget
             tainted   == ((Mentions \cup {job.by}) \cap (Having("stuck") \cup Having("contested"))) \ requester
             others    == (Having("stuck") \cap WithBudget) \ (requester \cup tainted)
             reopened  == (Proved \ kept) \cup requester \cup tainted \cup others
  <2>2. reopened \in SUBSET Node /\ Proved \ kept \subseteq reopened /\ reopened \cap kept = {}
    BY <1>0
  <2>3. Write(reopened, "open") /\ Regated(kept, Proved \ kept)
    BY <2>1
  <2>4. \A c \in Child : pin'[c] = "none" <=> pin[c] = "none"
    BY <2>1, <1>1
  <2>5. UNCHANGED stmt
    BY <1>2 DEF Salvage
  <2> QED
    BY <2>2, <2>3, <2>4, <2>5, ReplayGates
<1>3. CASE ReplayRestated
  <2>1. PICK kept \in SUBSET Proved :
          /\ Write(Proved \ kept, "open") /\ Regated(kept, Proved \ kept) /\ NewEpoch(Proved \ kept, TRUE)
    BY <1>3 DEF ReplayRestated
  <2>2. PICK N \in SUBSET Node : N = Proved \ kept
    BY <1>0
  <2>3. Write(N, "open") /\ Regated(kept, Proved \ kept) /\ Proved \ kept \subseteq N /\ N \cap kept = {}
    BY <2>1, <2>2
  <2>4. \A c \in Child : pin'[c] = "none" <=> pin[c] = "none"
    BY <2>1, <1>1
  <2>5. UNCHANGED stmt
    BY <1>3 DEF ReplayRestated
  <2> QED
    BY <2>3, <2>4, <2>5, ReplayGates
<1>4. CASE ReplayRevised
  <2>1. PICK kept \in SUBSET Proved :
          LET broken == Proved \ kept
              refreshed == {n \in Node \ kept : status[n] \notin {"absent", "attic"}}
          IN /\ Write(broken \cup Having("stuck"), "open")
             /\ Regated(kept, broken)
             /\ NewEpoch(refreshed, Root \in kept \/ refreshed \cap Child # {})
    BY <1>4 DEF ReplayRevised
  <2>2. PICK N \in SUBSET Node : N = (Proved \ kept) \cup Having("stuck")
    BY <1>0
  <2>3. Write(N, "open") /\ Regated(kept, Proved \ kept) /\ Proved \ kept \subseteq N /\ N \cap kept = {}
    BY <1>0, <2>1, <2>2
  <2>4. \A c \in Child : pin'[c] = "none" <=> pin[c] = "none"
    BY <2>1, <1>1
  <2>5. UNCHANGED stmt
    BY <1>4 DEF ReplayRevised
  <2> QED
    BY <2>3, <2>4, <2>5, ReplayGates
<1> QED
  BY <1>2, <1>3, <1>4

\* The edges, through every step, if no process is killed between adding a child and
\* its edge.
LEMMA PinNext ==
    ASSUME BaseInv, LiveInv', PinInv, "edge" \notin KillAt, [Next]_vars
    PROVE  PinInv'
<1>0. TInv /\ GraphTypes /\ ReasonsInPlace /\ HandIsADesign /\ LiveInv
  BY DEF BaseInv, TInv
<1>m. ASSUME \A n \in Node : ~Proves(n) PROVE Proved' \subseteq Proved
  BY <1>0, <1>m, LiveMoves
<1>n. pc # "dispatch" \/ pc' # "dispatch" => \A n \in Node : ~Proves(n)
  BY DEF Proves, Ran
<1>a. pc # "children" \/ pc' # "edge" => \A c \in Child : ~AddChild(c)
  BY DEF AddChild
<1>1. CASE Initial \/ NoRoundLeft \/ Applies \/ DoesNotApply \/ Repair \/ AskAgain \/ NotSettled \/ AdoptProposal
           \/ RetireDropped \/ Revise \/ ReviseEnds \/ Restate \/ Resume
  <2>1. UNCHANGED <<stmt, uses, pin>> /\ pc \notin {"edge", "dispatch"}
    BY <1>1 DEF Initial, NoRoundLeft, Applies, DoesNotApply, Repair, AskAgain, NotSettled, AdoptProposal, RetireDropped,
         Revise, ReviseEnds, Restate, Resume, graph, nodes
  <2>2. \/ pc = "settle" /\ pc' = "settle"
        \/ pc' \in Unchecked \ {"edge"}
        \/ pc = "propose" /\ pc' = "settle"
        \/ pc \in {"settle", "revise"} /\ pc' \in {"settle", "integrate"}
    BY <1>1 DEF Initial, NoRoundLeft, Applies, DoesNotApply, Repair, AskAgain, NotSettled, AdoptProposal, RetireDropped,
         Revise, ReviseEnds, Restate, Resume, Exit, Unchecked, Adopting
  <2>3. \A c \in Child : ~AddChild(c)
    BY <1>a, <2>2
  <2> QED
    BY <1>0, <1>m, <1>n, <2>1, <2>2, <2>3, EdgesKept DEF Unchecked, Adopting
<1>2. CASE FinishVerdict \/ FirstDispatch \/ MarkRestated \/ TakeRequest \/ AlreadySeen \/ Refuse \/ WriteCandidate
           \/ Reject \/ Accept \/ RequestsEnd \/ RetryRefused
  <2>1. UNCHANGED <<stmt, uses, pin>>
    BY <1>2 DEF FinishVerdict, FirstDispatch, MarkRestated, TakeRequest, AlreadySeen, Refuse, WriteCandidate, Reject,
         Accept, RequestsEnd, RetryRefused, graph, nodes
  <2>2. /\ pc \in {"verdict", "adjudicate", "mark", "dispatch", "requests", "apply", "judge"}
        /\ pc = "dispatch" => pc' # "dispatch"
    BY <1>2 DEF FinishVerdict, FirstDispatch, MarkRestated, TakeRequest, AlreadySeen, Refuse, WriteCandidate, Reject,
         Accept, RequestsEnd, RetryRefused
  <2> QED
    BY <1>0, <1>m, <1>n, <1>a, <2>1, <2>2, EdgesKept DEF Unchecked, Adopting
<1>3. CASE Integrate \/ Kill \/ CannotCheck
  <2>1. UNCHANGED <<stmt, uses, pin>> /\ pc # "edge" /\ pc' = "down"
    BY <1>3 DEF Integrate, Kill, CannotCheck, CutOff, Exit, graph
  <2> QED
    BY <1>0, <1>m, <1>n, <1>a, <2>1, EdgesKept DEF Unchecked, Adopting
<1>15. CASE CannotReplay
  <2>1. pc \in {"revalidate", "salvage", "replay"} /\ pc' = "down" /\ UNCHANGED stmt
    BY <1>15, EndsExit DEF Ends, CannotReplay
  <2>2. PICK kept, broken \in SUBSET Proved :
              /\ Proved' = Proved \ broken
              /\ uses' = IF Root \in kept THEN AsStated ELSE IF Root \in broken THEN NoChildren ELSE uses
              /\ pin' = [c \in Child |-> IF pin[c] = "none" THEN "none"
                                         ELSE IF c \in broken THEN "stale"
                                         ELSE IF Root \in kept THEN "current" ELSE pin[c]]
    BY <1>0, <1>15, CutReplay
  <2>3. \A c \in Child : pin'[c] = "none" <=> pin[c] = "none"
    BY <2>2
  <2>4. CASE Root \in kept \/ Root \in broken
    <3>1. Root \in Proved' => uses' = AsStated
      BY <2>2, <2>4
    <3> QED
      BY <1>0, <1>a, <2>1, <2>3, <3>1, EdgesRegated
  <2>5. CASE Root \notin kept /\ Root \notin broken
    <3>1. uses' = uses /\ (Root \in Proved' => Root \in Proved)
      BY <2>2, <2>5
    <3>2. \A c \in Child : pin'[c] = "current" => pin[c] = "current"
      BY <2>2, <2>5
    <3>3. PinsAreHonest'
      BY <2>1, <3>1, <3>2 DEF PinInv, PinsAreHonest
    <3>4. \A c \in Child : status'[c] = "absent" <=> status[c] = "absent"
      BY <1>0, <1>a, <2>1, LiveMoves DEF Node
    <3> QED
      BY <2>1, <2>3, <3>1, <3>3, <3>4 DEF PinInv, Unchecked
  <2> QED
    BY <2>4, <2>5
<1>4. CASE StartRun
  <2>1. UNCHANGED <<stmt, uses, pin>> /\ pc = "down" /\ pc' \in {"propose", "resume"} /\ why = "initial" /\ why' = why
    BY <1>0, <1>4 DEF StartRun, settling, ReasonsInPlace, Adopting
  <2>2. pc' = "propose" => Proved' = {}
    BY <2>1 DEF LiveInv, Fresh
  <2> QED
    BY <1>0, <1>m, <1>n, <1>a, <2>1, <2>2, EdgesKept DEF Unchecked, Adopting
<1>5. CASE Salvage \/ ReplayRestated \/ ReplayRevised
  <2>1. pc \in {"salvage", "replay"}
    BY <1>5 DEF Salvage, ReplayRestated, ReplayRevised
  <2> QED
    BY <1>0, <1>5, <1>a, <2>1, Replays, EdgesRegated
<1>6. CASE Revalidate
  <2>1. pc = "revalidate" /\ UNCHANGED stmt /\ pc' = "adjudicate"
    BY <1>6 DEF Revalidate
  <2>2. CASE Regated({Root}, {}) /\ NewEpoch({}, TRUE)
    <3>1. uses' = AsStated /\ \A c \in Child : pin'[c] = "none" <=> pin[c] = "none"
      BY <2>2 DEF Regated, NewEpoch
    <3> QED
      BY <1>0, <1>a, <2>1, <3>1, EdgesRegated
  <2>3. CASE NewEpoch({Root}, FALSE) /\ Write({Root}, "open")
    <3>1. Root \notin Proved'
      BY <2>3 DEF Write, Proved, Node, ProvedStatus
    <3>2. \A c \in Child : pin'[c] = "none" <=> pin[c] = "none"
      BY <2>3 DEF NewEpoch
    <3> QED
      BY <1>0, <1>a, <2>1, <3>1, <3>2, EdgesRegated
  <2>4. CASE /\ Root \notin Proved \/ \A c \in Child : pin[c] # "stale"
             /\ UNCHANGED <<status, pin, uses>>
    <3>1. Root \in Proved => \A c \in Child : UsesPresent(c)
      BY <1>0, <2>4 DEF PinInv, PinsAreHonest, UsesPresent, GraphTypes
    <3>2. Proved' = Proved /\ \A c \in Child : UsesPresent(c)' <=> UsesPresent(c)
      BY <2>1, <2>4 DEF Proved, UsesPresent
    <3>3. PinsAreHonest'
      BY <2>1, <2>4, <3>2 DEF PinInv, PinsAreHonest
    <3> QED
      BY <2>1, <2>4, <3>1, <3>2, <3>3 DEF PinInv
  <2> QED
    BY <1>6, <2>2, <2>3, <2>4 DEF Revalidate
<1>7. ASSUME NEW n \in Node, NoVerdict(n) \/ HintsExhausted(n) \/ FindStatementWrong(n) PROVE PinInv'
  <2>1. UNCHANGED <<stmt, uses, pin>> /\ pc = "adjudicate"
    BY <1>7 DEF NoVerdict, HintsExhausted, FindStatementWrong, graph, nodes
  <2> QED
    BY <1>0, <1>m, <1>n, <1>a, <2>1, EdgesKept DEF Unchecked, Adopting
<1>8. ASSUME NEW n \in Node, HintAndReopen(n) PROVE PinInv'
  <2>1. UNCHANGED <<stmt, uses, pc>> /\ pc = "adjudicate" /\ NewEpoch({n}, n \in Child)
    BY <1>8 DEF HintAndReopen
  <2>2. \A c \in Child : pin'[c] = "none" <=> pin[c] = "none"
    BY <2>1 DEF NewEpoch
  <2>3. Proved' \subseteq Proved
    BY <1>m, <1>n, <2>1
  <2>4. \A c \in Child : status'[c] = "absent" <=> status[c] = "absent"
    BY <1>0, <1>a, <2>1, LiveMoves DEF Node
  <2>5. Root \in Proved' => \A c \in Child : UsesPresent(c)'
    BY <2>1, <2>3 DEF PinInv, UsesPresent, Unchecked, Adopting
  <2>6. PinsAreHonest'
    BY <2>5 DEF PinsAreHonest, UsesPresent
  <2> QED
    BY <2>1, <2>2, <2>3, <2>4, <2>5, <2>6 DEF PinInv
<1>9. ASSUME NEW n \in Node, GivesUp(n) \/ ContestsOrAsks(n) \/ Errs(n) PROVE PinInv'
  <2>1. UNCHANGED <<stmt, uses, pin, pc>> /\ pc = "dispatch"
    BY <1>9 DEF GivesUp, ContestsOrAsks, Errs, Ran
  <2>2. PICK s \in {"open", "stuck", "contested"} : Write({n}, s)
    BY <1>9 DEF GivesUp, ContestsOrAsks, Errs, Ran
  <2>3. Proved' \subseteq Proved
    BY <2>2 DEF Write, Proved, ProvedStatus
  <2> QED
    BY <1>0, <1>a, <2>1, <2>3, EdgesKept DEF Unchecked, Adopting
<1>10. ASSUME NEW n \in Node, Proves(n) PROVE PinInv'
  <2>1. UNCHANGED <<stmt, pc>> /\ pc = "dispatch" /\ Write({n}, "gated")
    BY <1>10 DEF Proves, Ran
  <2>2. CASE n = Root
    <3>1. uses' = AsStated /\ \A c \in Child : pin'[c] = "none" <=> pin[c] = "none"
      BY <1>10, <2>2 DEF Proves
    <3> QED
      BY <1>0, <1>a, <2>1, <3>1, EdgesRegated
  <2>3. CASE n # Root
    <3>1. UNCHANGED <<uses, pin>>
      BY <1>10, <2>3 DEF Proves
    <3>2. Root \in Proved' => Root \in Proved
      BY <2>1, <2>3 DEF Write, Proved
    <3> QED
      BY <1>0, <1>a, <2>1, <3>1, <3>2, EdgesKept DEF Unchecked, Adopting
  <2> QED
    BY <2>2, <2>3
<1>11. ASSUME NEW c \in Child, KeepChild(c) PROVE PinInv'
  <2>1. UNCHANGED <<stmt, uses, pin>> /\ pc = "children" /\ pc' = "children"
    BY <1>11 DEF KeepChild
  <2> QED
    BY <1>0, <1>m, <1>n, <1>a, <2>1, EdgesKept DEF Unchecked, Adopting
<1>12. ASSUME NEW c \in Child, AddChild(c) \/ RestateChild(c) PROVE PinInv'
  <2>1. /\ pc = "children" /\ pc' = "edge" /\ Turn(c) /\ UNCHANGED <<todo, uses>>
        /\ stmt' = [stmt EXCEPT ![c] = adopted[c]] /\ Write({c}, "open")
    BY <1>12 DEF AddChild, RestateChild, settling
  <2>2. /\ \A d \in Child : pin'[d] = "none" <=> pin[d] = "none"
        /\ \A d \in Child : pin'[d] = "current" => pin[d] = "current"
        /\ pin'[c] # "current"
    <3>1. CASE AddChild(c)
      BY <3>1 DEF AddChild, PinInv
    <3>2. CASE RestateChild(c)
      BY <1>0, <3>2 DEF RestateChild, NewEpoch
    <3> QED
      BY <1>12, <3>1, <3>2
  <2>3. Turn(c)' /\ c \in Node
    BY <2>1 DEF Turn, Node
  <2>4. Proved' \subseteq Proved
    BY <1>m, <1>n, <2>1
  <2>5. \A d \in Child : d # c => stmt'[d] = stmt[d] /\ status'[d] = status[d]
    BY <1>0, <2>1 DEF Write, GraphTypes, Proposal, Node
  <2>6. status'[c] # "absent"
    BY <2>1, <2>3 DEF Write
  <2>7. \A d \in Child : pin'[d] = "none" => status'[d] = "absent" \/ (pc' = "edge" /\ Turn(d)')
    BY <2>1, <2>2, <2>3, <2>5 DEF PinInv
  <2>8. \A d \in Child : status'[d] = "absent" => pin'[d] = "none"
    BY <2>2, <2>5, <2>6 DEF PinInv
  <2>9. Root \in Proved' => \A d \in Child : pin'[d] = "none" => uses'[d] = NotStated
    BY <2>1, <2>2, <2>4 DEF PinInv
  <2>10. PinsAreHonest'
    BY <2>1, <2>2, <2>4, <2>5 DEF PinInv, PinsAreHonest
  <2> QED
    BY <2>1, <2>7, <2>8, <2>9, <2>10 DEF PinInv, Unchecked, Adopting
<1>13. ASSUME NEW c \in Child, DemandEdge(c) PROVE PinInv'
  <2>1. /\ pc = "edge" /\ pc' = "children" /\ Turn(c) /\ UNCHANGED <<stmt, uses, status>>
        /\ pin' = [pin EXCEPT ![c] = IF @ = "none" THEN "current" ELSE @]
    BY <1>13 DEF DemandEdge
  <2>2. c \in LiveChild /\ todo \subseteq Child
    BY <1>0, <2>1 DEF LiveInv, Turn, HandIsADesign
  <2>3. Proved' = Proved
    BY <2>1 DEF Proved
  <2>4. pin'[c] # "none" /\ \A d \in Child : d # c => pin'[d] = pin[d]
    BY <1>0, <2>1 DEF GraphTypes
  <2>5. \A d \in Child : pin'[d] = "none" => status'[d] = "absent"
    BY <2>1, <2>2, <2>4, OneTurn DEF PinInv, Turn
  <2>6. \A d \in Child : status'[d] = "absent" => pin'[d] = "none"
    BY <2>1, <2>2, <2>4 DEF PinInv, LiveChild
  <2>7. \A d \in Child : pin'[d] = "current" => pin[d] \in {"none", "current"}
    BY <1>0, <2>1 DEF GraphTypes
  <2>8. PinsAreHonest'
    BY <2>1, <2>3, <2>7 DEF PinInv, PinsAreHonest
  <2> QED
    BY <2>1, <2>3, <2>4, <2>5, <2>6, <2>8 DEF PinInv, Unchecked, Adopting
<1>14. CASE UNCHANGED vars
  BY <1>14 DEF vars, graph, PinInv, PinsAreHonest, UsesPresent, Proved, Turn
<1> QED
  BY <1>1, <1>2, <1>3, <1>4, <1>5, <1>6, <1>7, <1>8, <1>9, <1>10, <1>11, <1>12, <1>13, <1>14, <1>15
     DEF Next, Work, Ends, Designs, Adjudicates, Amends, Proving

\* The edges, in every state.
LEMMA PinHolds ==
    ASSUME "edge" \notin KillAt
    PROVE  Spec => []PinInv
<1>1. Init => PinInv
  <2> SUFFICES ASSUME Init PROVE PinInv
    OBVIOUS
  <2>1. Root \notin Proved /\ \A c \in Child : status[c] = "absent" /\ pin[c] = "none"
    BY NodeAssumption DEF Init, Proved, ProvedStatus, Node
  <2> QED
    BY <2>1 DEF PinInv, PinsAreHonest
<1>2. BaseInv /\ BaseInv' /\ PinInv /\ [Next]_vars => PinInv'
  BY PinNext DEF BaseInv
<1> QED
  BY <1>1, <1>2, BaseHolds, PTL DEF Spec

\* If no process is killed between adding a child and its demand edge, an edge that
\* looks current tells the truth, for any number of children, wordings, amendments
\* and processes: whatever pins the edges again has gated the root's proof again,
\* or knows it to be of the present statements.
THEOREM PinsStayHonest ==
    ASSUME "edge" \notin KillAt
    PROVE  Spec => []PinsAreHonest
<1>1. PinInv => PinsAreHonest
  BY DEF PinInv
<1> QED
  BY <1>1, PinHolds, PTL

-----------------------------------------------------------------------------
(* The adopted design *)

\* A child the adopted design states is yet to be visited, or live as stated.
WholeInv ==
    \A c \in Child : adopted[c] # NotStated =>
        \/ pc = "children" /\ c \in todo
        \/ pc = "edge" /\ c \in todo /\ ~Turn(c)
        \/ c \in LiveChild /\ stmt[c] = adopted[c]

\* The adopted design, through every step, if no process is killed half-way.
LEMMA WholeNext ==
    ASSUME BaseInv, WholeInv, {"children", "edge"} \cap KillAt = {}, [Next]_vars
    PROVE  WholeInv'
<1>0. TInv /\ GraphTypes /\ HandIsADesign /\ LiveInv
  BY DEF BaseInv, TInv
<1>s. ASSUME UNCHANGED <<adopted, stmt>>, pc \notin {"children", "edge"} PROVE WholeInv'
  <2>1. LiveChild \subseteq LiveChild'
    BY <1>0, <1>s, LiveMoves DEF RetireDropped
  <2> QED
    BY <1>s, <2>1 DEF WholeInv
<1>1. CASE \/ Amends \/ ReplayRevised \/ ReviseEnds \/ Resume \/ Revalidate
           \/ FinishVerdict \/ FirstDispatch \/ ReplayRestated \/ MarkRestated
           \/ \E n \in Node : NoVerdict(n) \/ HintAndReopen(n) \/ HintsExhausted(n) \/ FindStatementWrong(n)
           \/ \E n \in Node : GivesUp(n) \/ Proves(n) \/ ContestsOrAsks(n) \/ Errs(n)
  <2>1. pc \notin {"children", "edge"} /\ UNCHANGED adopted
    BY <1>0, <1>1, ElsewhereMoves
  <2>2. UNCHANGED stmt
    <3>1. CASE \/ ReplayRevised \/ ReviseEnds \/ Resume \/ Revalidate
               \/ FinishVerdict \/ FirstDispatch \/ ReplayRestated \/ MarkRestated
      BY <3>1 DEF ReplayRevised, ReviseEnds, Resume, Revalidate, FinishVerdict, FirstDispatch, ReplayRestated, MarkRestated,
           graph, nodes
    <3>2. CASE Amends
      BY <3>2 DEF Amends, TakeRequest, AlreadySeen, Refuse, WriteCandidate, Reject, Accept, Salvage, RequestsEnd, RetryRefused,
           graph, nodes
    <3>3. ASSUME NEW n \in Node, NoVerdict(n) \/ HintAndReopen(n) \/ HintsExhausted(n) \/ FindStatementWrong(n) PROVE UNCHANGED stmt
      BY <3>3 DEF NoVerdict, HintAndReopen, HintsExhausted, FindStatementWrong, graph, nodes
    <3>4. ASSUME NEW n \in Node, GivesUp(n) \/ Proves(n) \/ ContestsOrAsks(n) \/ Errs(n) PROVE UNCHANGED stmt
      BY <3>4 DEF GivesUp, Proves, ContestsOrAsks, Errs, Ran
    <3> QED
      BY <1>1, <3>1, <3>2, <3>3, <3>4
  <2> QED
    BY <1>s, <2>1, <2>2
<1>2. CASE Initial \/ NoRoundLeft \/ Applies \/ DoesNotApply \/ Repair \/ AskAgain \/ NotSettled \/ Revise \/ Restate
           \/ Integrate \/ StartRun
  <2>1. UNCHANGED <<adopted, stmt>> /\ pc \notin {"children", "edge"}
    BY <1>2 DEF Initial, NoRoundLeft, Applies, DoesNotApply, Repair, AskAgain, NotSettled, Revise, Restate, Integrate, StartRun,
         graph, nodes, metas
  <2> QED
    BY <1>s, <2>1
<1>8. CASE Ends
  <2>1. pc \notin {"children", "edge"}
    BY <1>8 DEF Ends, Kill, CannotCheck, CannotReplay
  <2> QED
    BY <1>0, <1>8, <1>s, <2>1, EndsGraph
<1>3. CASE AdoptProposal
  BY <1>3 DEF AdoptProposal, WholeInv
<1>4. CASE RetireDropped
  <2> DEFINE N == {c \in LiveChild \ Proved : adopted[c] = NotStated}
  <2>1. Write(N, "attic") /\ todo = {} /\ pc = "children" /\ UNCHANGED <<adopted, stmt>>
    BY <1>4 DEF RetireDropped, metas
  <2>2. ASSUME NEW c \in Child, adopted[c] # NotStated PROVE c \in LiveChild' /\ stmt'[c] = adopted'[c]
    <3>1. c \in LiveChild /\ stmt[c] = adopted[c] /\ c \notin N /\ c \in Node
      BY <2>1, <2>2 DEF WholeInv, Node
    <3>2. status'[c] = status[c]
      BY <2>1, <3>1 DEF Write
    <3> QED
      BY <2>1, <3>1, <3>2 DEF LiveChild
  <2> QED
    BY <2>1, <2>2 DEF WholeInv
<1>5. ASSUME NEW c \in Child, AddChild(c) \/ RestateChild(c) PROVE WholeInv'
  <2>1. /\ pc = "children" /\ pc' = "edge" /\ Turn(c) /\ UNCHANGED <<todo, adopted>>
        /\ stmt' = [stmt EXCEPT ![c] = adopted[c]] /\ Write({c}, "open")
    BY <1>5 DEF AddChild, RestateChild, metas, settling
  <2>2. \A d \in Child : d # c => stmt'[d] = stmt[d] /\ (d \in LiveChild => d \in LiveChild')
    BY <1>0, <2>1 DEF Write, LiveChild, GraphTypes, Proposal, Node
  <2>3. c \in LiveChild' /\ stmt'[c] = adopted[c]
    BY <1>0, <2>1 DEF Write, LiveChild, GraphTypes, Proposal, Node
  <2>4. \A d \in todo' : d # c => ~Turn(d)'
    BY <1>0, <2>1, OneTurn DEF HandIsADesign, Turn
  <2> QED
    BY <2>1, <2>2, <2>3, <2>4 DEF WholeInv
<1>6. ASSUME NEW c \in Child, DemandEdge(c) \/ KeepChild(c) PROVE WholeInv'
  <2>1. /\ pc \in {"children", "edge"} /\ pc' = "children" /\ todo' = todo \ {c} /\ UNCHANGED <<adopted, stmt>> /\ Turn(c)
    BY <1>6 DEF DemandEdge, KeepChild, metas
  <2>2. LiveChild \subseteq LiveChild'
    <3>1. ~RetireDropped
      BY <2>1 DEF RetireDropped
    <3> QED
      BY <1>0, <3>1, LiveMoves
  <2>3. adopted[c] # NotStated => c \in LiveChild' /\ stmt[c] = adopted[c]
    <3>1. CASE DemandEdge(c)
      BY <2>1, <2>2, <3>1 DEF DemandEdge, WholeInv
    <3>2. CASE KeepChild(c)
      BY <3>2 DEF KeepChild, Write, LiveChild, Node
    <3> QED
      BY <1>6, <3>1, <3>2
  <2> QED
    BY <2>1, <2>2, <2>3 DEF WholeInv
<1>7. CASE UNCHANGED vars
  BY <1>7 DEF vars, graph, WholeInv, LiveChild, Turn
<1> QED
  BY <1>1, <1>2, <1>3, <1>4, <1>5, <1>6, <1>7, <1>8 DEF Next, Work, Designs, Adjudicates, Proving

\* If no process is killed while the children of a design are being added, every
\* dispatch proves the whole design that was adopted last: all its children, as it
\* states them, each demanded by the root.
THEOREM DesignStaysWhole ==
    ASSUME {"children", "edge"} \cap KillAt = {}
    PROVE  Spec => []DesignIsWhole
<1>1. Init => WholeInv
  BY DEF Init, WholeInv, NoChildren
<1>2. BaseInv /\ WholeInv /\ [Next]_vars => WholeInv'
  BY WholeNext
<1>3. WholeInv /\ PinInv => DesignIsWhole
  BY DEF WholeInv, PinInv, DesignIsWhole, LiveChild
<1>4. Spec => []PinInv
  BY PinHolds
<1> QED
  BY <1>1, <1>2, <1>3, <1>4, BaseHolds, PTL DEF Spec

-----------------------------------------------------------------------------
(* Proofs of an earlier development *)

\* Outside the adoption of a design and the replay of an amendment, every proof of an
\* earlier development is one the process found so when it began.
BehindInv == pc \notin Adopting \cup {"salvage", "down"} => behind \subseteq inherited

\* Every way out of there gates or reopens whatever is proved, or ends the process.
LEMMA BehindNext ==
    ASSUME BaseInv, BehindInv, [Next]_vars
    PROVE  BehindInv'
<1>0. TInv /\ GraphTypes /\ LiveInv
  BY DEF BaseInv, TInv
<1>d. ASSUME pc' = "down" PROVE BehindInv'
  BY <1>d DEF BehindInv
<1>k. ASSUME UNCHANGED <<behind, inherited>>, pc \notin Adopting \cup {"salvage", "down"} PROVE BehindInv'
  BY <1>k DEF BehindInv
<1>1. CASE Salvage \/ ReplayRestated \/ ReplayRevised
  BY <1>0, <1>1, Replays DEF BehindInv
<1>2. CASE RetireDropped
  <2>1. pc = "children" /\ pc' = (IF why = "initial" THEN "resume" ELSE "replay") /\ UNCHANGED behind
    BY <1>2 DEF RetireDropped
  <2>2. why = "initial" => behind = {}
    BY <1>0, <2>1 DEF LiveInv, Fresh, GraphTypes
  <2> QED
    BY <2>1, <2>2 DEF BehindInv, Adopting
<1>3. CASE StartRun
  BY <1>3 DEF StartRun, BehindInv
<1>4. CASE Applies \/ Restate \/ AdoptProposal \/ \E c \in Child : AddChild(c) \/ RestateChild(c) \/ DemandEdge(c) \/ KeepChild(c)
  <2>1. pc' \in Adopting
    BY <1>4 DEF Applies, Restate, AdoptProposal, AddChild, RestateChild, DemandEdge, KeepChild, Adopting
  <2> QED
    BY <2>1 DEF BehindInv
<1>5. CASE Initial \/ NoRoundLeft \/ DoesNotApply \/ Repair \/ AskAgain \/ NotSettled \/ Revise \/ ReviseEnds
           \/ Resume \/ Integrate
  <2>1. CASE Exit
    BY <1>d, <2>1 DEF Exit
  <2>2. CASE ~Exit
    <3>1. UNCHANGED <<behind, inherited>> /\ pc \notin Adopting \cup {"salvage", "down"}
      BY <1>5, <2>2 DEF Initial, NoRoundLeft, DoesNotApply, Repair, AskAgain, NotSettled, Revise, ReviseEnds, Resume, Integrate,
           graph, nodes, history, Adopting
    <3> QED
      BY <1>k, <3>1
  <2> QED
    BY <2>1, <2>2
<1>6. CASE FinishVerdict \/ FirstDispatch \/ MarkRestated \/ TakeRequest \/ AlreadySeen \/ Refuse
           \/ Reject \/ RequestsEnd \/ RetryRefused
  <2>1. UNCHANGED <<behind, inherited>>
    BY <1>6 DEF FinishVerdict, FirstDispatch, MarkRestated, TakeRequest, AlreadySeen, Refuse, Reject, RequestsEnd, RetryRefused,
         graph, nodes, history
  <2>2. pc \notin Adopting \cup {"salvage", "down"}
    BY <1>6 DEF FinishVerdict, FirstDispatch, MarkRestated, TakeRequest, AlreadySeen, Refuse, Reject, RequestsEnd, RetryRefused,
         Adopting
  <2> QED
    BY <1>k, <2>1, <2>2
<1>7. CASE WriteCandidate \/ Accept
  <2>1. pc \in {"apply", "judge"} /\ (UNCHANGED <<behind, inherited>> \/ pc' = "salvage")
    BY <1>7 DEF WriteCandidate, Accept, history
  <2> QED
    BY <2>1 DEF BehindInv, Adopting
<1>8. CASE Revalidate
  <2>1. pc = "revalidate" /\ \E looked : behind' = behind \ looked /\ inherited' = inherited \ looked
    <3>1. CASE UNCHANGED <<behind, inherited>>
      <4>1. behind' = behind \ {} /\ inherited' = inherited \ {}
        BY <3>1
      <4> QED
        BY <1>8, <4>1 DEF Revalidate
    <3>2. CASE \E kept, dropped \in SUBSET {Root} : Regated(kept, dropped)
      BY <1>8, <3>2 DEF Revalidate, Regated
    <3> QED
      BY <1>8, <3>1, <3>2 DEF Revalidate
  <2> QED
    BY <2>1 DEF BehindInv, Adopting
<1>9. ASSUME NEW n \in Node, NoVerdict(n) \/ HintAndReopen(n) \/ HintsExhausted(n) \/ FindStatementWrong(n)
      PROVE  BehindInv'
  <2>1. pc = "adjudicate" /\ UNCHANGED <<behind, inherited>>
    BY <1>9 DEF NoVerdict, HintAndReopen, HintsExhausted, FindStatementWrong, graph, nodes, history
  <2> QED
    BY <1>k, <2>1 DEF Adopting
<1>10. ASSUME NEW n \in Node, GivesUp(n) \/ Proves(n) \/ ContestsOrAsks(n) \/ Errs(n)
       PROVE  BehindInv'
  <2>1. pc = "dispatch" /\ behind' \subseteq behind /\ UNCHANGED inherited
    BY <1>10 DEF GivesUp, Proves, ContestsOrAsks, Errs, Ran
  <2> QED
    BY <2>1 DEF BehindInv, Adopting
<1>11. CASE Ends
  BY <1>11, <1>d, EndsExit
<1>12. CASE UNCHANGED vars
  BY <1>12 DEF vars, graph, history, BehindInv
<1> QED
  BY <1>1, <1>2, <1>3, <1>4, <1>5, <1>6, <1>7, <1>8, <1>9, <1>10, <1>11, <1>12
     DEF Next, Work, Designs, Adjudicates, Amends, Proving

\* The proofs of an earlier development, in every state.
LEMMA BehindHolds == Spec => []BehindInv
<1>1. Init => BehindInv
  BY DEF Init, BehindInv
<1>2. BaseInv /\ BehindInv /\ [Next]_vars => BehindInv'
  BY BehindNext
<1> QED
  BY <1>1, <1>2, BaseHolds, PTL DEF Spec

\* Wherever processes are killed, or cannot replay or compile, a dispatch and the
\* integration see only proofs that were gated against the development they run with,
\* and those the process found behind when it began.
THEOREM ProofsStayOfTheDesign == Spec => []ProofsAreOfThisDesign
<1>1. BehindInv => ProofsAreOfThisDesign
  BY DEF BehindInv, ProofsAreOfThisDesign, Adopting
<1> QED
  BY <1>1, BehindHolds, PTL

-----------------------------------------------------------------------------
(* Retired obligations *)

\* What the root's proof was gated with is live, unless that proof is of an earlier
\* development; and while a design is adopted it is.
CiteInv ==
    /\ Root \in Proved \ behind => \A c \in Child : uses[c] # NotStated => c \in LiveChild
    /\ pc \in Adopting /\ Root \in Proved => Root \in behind

\* The replay that follows every retirement, but for the first design's, reopens what
\* cited the retired child, or gates it without, or is cut off before it is looked at.
LEMMA CiteNext ==
    ASSUME BaseInv, CiteInv, [Next]_vars
    PROVE  CiteInv'
<1>0. TInv /\ GraphTypes /\ ReasonsInPlace /\ LiveInv
  BY DEF BaseInv, TInv
<1>r. Root \in Node /\ Root \notin Child
  BY NodeAssumption DEF Node
<1>1. CASE Salvage \/ ReplayRestated \/ ReplayRevised
  <2>1. Root \in Proved' => uses' = AsStated
    BY <1>0, <1>1, Replays
  <2>2. ~RetireDropped /\ pc' \notin Adopting
    BY <1>1 DEF Salvage, ReplayRestated, ReplayRevised, RetireDropped, Return, Adopting
  <2>3. LiveChild \subseteq LiveChild'
    BY <1>0, <2>2, LiveMoves
  <2> QED
    BY <2>1, <2>2, <2>3 DEF CiteInv, AsStated
<1>2. CASE RetireDropped
  <2>1. pc = "children" /\ UNCHANGED behind
    BY <1>2 DEF RetireDropped
  <2>2. Root \in Proved => Root \in behind
    BY <2>1 DEF CiteInv, Adopting
  <2>3. Proved' \subseteq Proved
    <3>1. \A n \in Node : ~Proves(n)
      BY <2>1 DEF Proves
    <3> QED
      BY <1>0, <3>1, LiveMoves
  <2> QED
    BY <2>1, <2>2, <2>3 DEF CiteInv
<1>3. ASSUME NEW n \in Node, Proves(n) PROVE CiteInv'
  <2>1. pc = "dispatch" /\ pc' = "dispatch" /\ Write({n}, "gated") /\ behind' = behind \ {n}
    BY <1>3 DEF Proves, Ran
  <2>2. LiveChild \subseteq LiveChild'
    BY <1>0, <2>1, LiveMoves DEF RetireDropped
  <2>3. CASE n = Root
    BY <1>3, <2>1, <2>2, <2>3 DEF Proves, CiteInv, AsStated, Adopting
  <2>4. CASE n # Root
    <3>1. UNCHANGED uses
      BY <1>3, <2>4 DEF Proves
    <3>2. Root \in Proved' => Root \in Proved
      BY <2>1, <2>4 DEF Write, Proved
    <3>3. Root \in behind => Root \in behind'
      BY <2>1, <2>4
    <3> QED
      BY <2>1, <2>2, <3>1, <3>2, <3>3 DEF CiteInv, Adopting
  <2> QED
    BY <2>3, <2>4
<1>4. CASE Revalidate
  <2>1. pc = "revalidate" /\ pc' = "adjudicate"
    BY <1>4 DEF Revalidate
  <2>2. LiveChild \subseteq LiveChild' /\ Proved' \subseteq Proved
    <3>1. ~RetireDropped /\ \A n \in Node : ~Proves(n)
      BY <2>1 DEF RetireDropped, Proves
    <3> QED
      BY <1>0, <3>1, LiveMoves
  <2>3. uses' \in {AsStated, NoChildren} \/ (uses' = uses /\ behind' = behind)
    BY <1>4 DEF Revalidate, Regated
  <2>4. \A c \in Child : NoChildren[c] = NotStated /\ (AsStated[c] # NotStated => c \in LiveChild)
    BY DEF NoChildren, AsStated
  <2>5. pc' \notin Adopting
    BY <2>1 DEF Adopting
  <2>6. Root \in Proved' \ behind' => \A c \in Child : uses'[c] # NotStated => c \in LiveChild'
    BY <2>2, <2>3, <2>4 DEF CiteInv
  <2> QED
    BY <2>5, <2>6 DEF CiteInv
<1>5. ASSUME UNCHANGED uses, ~RetireDropped, \A n \in Node : ~Proves(n),
             Root \in Proved /\ Root \in behind => Root \in behind',
             pc' \in Adopting /\ Root \in Proved => Root \in behind'
      PROVE  CiteInv'
  <2>1. LiveChild \subseteq LiveChild' /\ Proved' \subseteq Proved
    BY <1>0, <1>5, LiveMoves
  <2> QED
    BY <1>5, <2>1 DEF CiteInv
<1>6. CASE Initial \/ NoRoundLeft \/ DoesNotApply \/ Repair \/ AskAgain \/ NotSettled \/ Revise \/ ReviseEnds
           \/ Resume \/ Integrate \/ StartRun
  <2>1. UNCHANGED uses /\ pc \notin {"children", "dispatch"}
    BY <1>6 DEF Initial, NoRoundLeft, DoesNotApply, Repair, AskAgain, NotSettled, Revise, ReviseEnds, Resume, Integrate,
         StartRun, graph, nodes
  <2>2. pc' \notin Adopting
    BY <1>6 DEF Initial, NoRoundLeft, DoesNotApply, Repair, AskAgain, NotSettled, Revise, ReviseEnds, Resume, Integrate,
         StartRun, Exit, Adopting
  <2>3. behind' \in {behind, Proved}
    BY <1>6 DEF Initial, NoRoundLeft, DoesNotApply, Repair, AskAgain, NotSettled, Revise, ReviseEnds, Resume, Integrate,
         StartRun, graph, nodes
  <2> QED
    BY <1>5, <2>1, <2>2, <2>3 DEF RetireDropped, Proves
<1>13. CASE Applies \/ Restate \/ AdoptProposal
  <2>1. UNCHANGED uses /\ pc \in {"settle", "verdict", "adopt"}
    BY <1>13 DEF Applies, Restate, AdoptProposal, nodes
  <2>2. behind' = Proved \/ (pc = "adopt" /\ behind' = behind)
    BY <1>13 DEF Applies, Restate, AdoptProposal, nodes
  <2>3. Root \in Proved => Root \in behind'
    BY <2>2 DEF CiteInv, Adopting
  <2> QED
    BY <1>5, <2>1, <2>3 DEF RetireDropped, Proves
<1>7. CASE FinishVerdict \/ FirstDispatch \/ MarkRestated \/ TakeRequest \/ AlreadySeen \/ Refuse \/ WriteCandidate
           \/ Reject \/ Accept \/ RequestsEnd \/ RetryRefused
  <2>1. UNCHANGED uses /\ behind' \in {behind, Proved}
    BY <1>7 DEF FinishVerdict, FirstDispatch, MarkRestated, TakeRequest, AlreadySeen, Refuse, WriteCandidate, Reject,
         Accept, RequestsEnd, RetryRefused, graph, nodes
  <2>2. pc # "children" /\ (pc = "dispatch" => pc' # "dispatch")
    BY <1>7 DEF FinishVerdict, FirstDispatch, MarkRestated, TakeRequest, AlreadySeen, Refuse, WriteCandidate, Reject,
         Accept, RequestsEnd, RetryRefused
  <2>3. pc' \notin Adopting
    BY <1>7 DEF FinishVerdict, FirstDispatch, MarkRestated, TakeRequest, AlreadySeen, Refuse, WriteCandidate, Reject,
         Accept, RequestsEnd, RetryRefused, Return, Adopting
  <2> QED
    BY <1>5, <2>1, <2>2, <2>3 DEF RetireDropped, Proves, Ran
<1>8. CASE Kill \/ CannotCheck
  <2>1. UNCHANGED <<uses, behind>> /\ pc' = "down"
    BY <1>8, EndsExit DEF Ends, Kill, CannotCheck, graph
  <2>2. ~RetireDropped /\ \A n \in Node : ~Proves(n)
    BY <2>1 DEF RetireDropped, Proves, Ran
  <2>3. pc' \notin Adopting
    BY <2>1 DEF Adopting
  <2> QED
    BY <1>5, <2>1, <2>2, <2>3
<1>14. CASE CannotReplay
  <2>1. pc \in {"revalidate", "salvage", "replay"} /\ pc' = "down"
    BY <1>14, EndsExit DEF Ends, CannotReplay
  <2>2. PICK kept, broken \in SUBSET Proved :
              /\ Proved' = Proved \ broken
              /\ behind' = behind \ (kept \cup broken)
              /\ uses' = IF Root \in kept THEN AsStated ELSE IF Root \in broken THEN NoChildren ELSE uses
    BY <1>0, <1>14, CutReplay
  <2>3. LiveChild \subseteq LiveChild'
    BY <1>0, <2>1, LiveMoves DEF RetireDropped
  <2>4. ASSUME Root \in Proved' \ behind', Root \in kept
        PROVE  \A c \in Child : uses'[c] # NotStated => c \in LiveChild'
    BY <2>2, <2>3, <2>4 DEF AsStated
  <2>5. ASSUME Root \in Proved' \ behind', Root \notin kept
        PROVE  \A c \in Child : uses'[c] # NotStated => c \in LiveChild'
    <3>1. Root \in Proved \ behind /\ uses' = uses
      BY <2>2, <2>5
    <3> QED
      BY <2>3, <3>1 DEF CiteInv
  <2>6. pc' \notin Adopting
    BY <2>1 DEF Adopting
  <2> QED
    BY <2>4, <2>5, <2>6 DEF CiteInv
<1>9. ASSUME NEW n \in Node, NoVerdict(n) \/ HintAndReopen(n) \/ HintsExhausted(n) \/ FindStatementWrong(n) PROVE CiteInv'
  <2>1. UNCHANGED <<uses, behind>> /\ pc = "adjudicate" /\ pc' \in {"adjudicate", "verdict", "apply"}
    BY <1>9 DEF NoVerdict, HintAndReopen, HintsExhausted, FindStatementWrong, graph, nodes
  <2>2. pc' \notin Adopting
    BY <2>1 DEF Adopting
  <2> QED
    BY <1>5, <2>1, <2>2 DEF RetireDropped, Proves
<1>10. ASSUME NEW n \in Node, GivesUp(n) \/ ContestsOrAsks(n) \/ Errs(n) PROVE CiteInv'
  <2>1. UNCHANGED <<uses, behind>> /\ pc = "dispatch" /\ pc' = "dispatch"
    BY <1>10 DEF GivesUp, ContestsOrAsks, Errs, Ran
  <2>2. PICK s \in {"open", "stuck", "contested"} : Write({n}, s)
    BY <1>10 DEF GivesUp, ContestsOrAsks, Errs, Ran
  <2>3. Proved' \subseteq Proved
    BY <2>2 DEF Write, Proved, ProvedStatus
  <2>4. LiveChild \subseteq LiveChild'
    BY <1>0, <2>1, LiveMoves DEF RetireDropped
  <2> QED
    BY <2>1, <2>3, <2>4 DEF CiteInv, Adopting
<1>11. ASSUME NEW c \in Child, AddChild(c) \/ RestateChild(c) \/ DemandEdge(c) \/ KeepChild(c) PROVE CiteInv'
  <2>1. UNCHANGED uses /\ pc \in {"children", "edge"} /\ pc' \in {"children", "edge"} /\ behind \ {c} \subseteq behind'
    BY <1>11 DEF AddChild, RestateChild, DemandEdge, KeepChild
  <2>2. ~RetireDropped
    BY <1>11 DEF AddChild, RestateChild, DemandEdge, KeepChild, RetireDropped, Turn
  <2>3. Root \in behind => Root \in behind'
    BY <1>r, <2>1
  <2>4. Root \in Proved => Root \in behind
    BY <2>1 DEF CiteInv, Adopting
  <2> QED
    BY <1>5, <2>1, <2>2, <2>3, <2>4 DEF Proves
<1>12. CASE UNCHANGED vars
  BY <1>12 DEF vars, graph, CiteInv, LiveChild, Proved
<1> QED
  BY <1>1, <1>2, <1>3, <1>4, <1>6, <1>7, <1>8, <1>9, <1>10, <1>11, <1>12, <1>13, <1>14
     DEF Next, Work, Ends, Designs, Adjudicates, Amends, Proving

\* Wherever processes are killed, or cannot replay or compile, a dispatch or an
\* integration never sees a proof that leans on an obligation the design gave up, but
\* for one the process found behind when it began and has not looked at.
THEOREM NothingRetiredIsEverCited == Spec => []NothingRetiredIsCited
<1>1. Init => CiteInv
  BY DEF Init, CiteInv, NoChildren, Adopting
<1>2. BaseInv /\ CiteInv /\ [Next]_vars => CiteInv'
  BY CiteNext
<1>3. BehindInv /\ CiteInv => NothingRetiredIsCited
  <2> SUFFICES ASSUME BehindInv, CiteInv, pc \in {"dispatch", "integrate"}, Root \in Proved \ inherited
               PROVE  \A c \in Child : uses[c] # NotStated => c \in LiveChild
    BY DEF NothingRetiredIsCited
  <2>1. Root \notin behind
    BY DEF BehindInv, Adopting
  <2> QED
    BY <2>1 DEF CiteInv
<1> QED
  BY <1>1, <1>2, <1>3, BaseHolds, BehindHolds, PTL DEF Spec

-----------------------------------------------------------------------------
(* Withheld retries *)

\* Nodes whose retry waits for the answer to what they asked for.
Waits == withheld \cap Having("stuck") \cap WithBudget

\* A node that waits has been refused, or its request is still to be applied.
Pending(n) ==
    \/ n \in refused
    \/ \E r \in Request \ seen : <<r, n>> \in requests
    \/ pc = "apply" /\ job.by = n /\ job.req \notin seen /\ ~job.approved
    \/ pc \in {"judge", "salvage"} /\ job.by = n /\ ~job.approved

\* Where requests are: between the dispatch that made them and the last answer.
RequestsInPlace ==
    /\ \A r \in Request, n \in Node : <<r, n>> \in requests => n \in Askers
    /\ pc \notin {"dispatch", "requests", "apply", "judge", "salvage"} => requests = {}
    /\ pc \in {"apply", "judge", "salvage"} => IF job.approved THEN requests = {} ELSE job.by \in Askers

\* A run asks and is answered only after its first dispatch, but for the fixes of
\* statements the approver found wrong before it.
StartedInPlace ==
    /\ pc \in {"dispatch", "requests", "revise"} => started
    /\ why = "revise" => started
    /\ pc \in {"apply", "judge", "salvage"} /\ ~job.approved => started

\* Who waits has asked, and while a design is revised nobody waits.
RetryInv ==
    /\ RequestsInPlace /\ StartedInPlace
    /\ withheld \subseteq Askers
    /\ ~started => withheld = {}
    /\ pc = "revise" => refused = {}
    /\ why = "revise" => Waits = {}
    /\ \A n \in Waits : Pending(n)

\* Requests are made by askers and gone when they are answered.
LEMMA RequestsNext ==
    ASSUME TInv, RequestsInPlace, [Next]_vars
    PROVE  RequestsInPlace'
<1>0. ControlTypes /\ ReasonsInPlace
  BY DEF TInv
<1> DEFINE Applying == {"apply", "judge", "salvage"}
           Asking   == {"dispatch", "requests"} \cup Applying
<1>k. ASSUME UNCHANGED requests, pc \notin Asking, pc' \notin Applying PROVE RequestsInPlace'
  BY <1>k DEF RequestsInPlace
<1>1. CASE Exit
  BY <1>1 DEF Exit, RequestsInPlace
<1>2. CASE StartRun
  BY <1>2, <1>k DEF StartRun, amending
<1>3. CASE Designs /\ ~Exit
  <2>1. CASE Initial \/ NoRoundLeft \/ Applies \/ DoesNotApply \/ Repair \/ AskAgain \/ NotSettled
             \/ AdoptProposal \/ RetireDropped \/ ReplayRevised \/ Revise \/ ReviseEnds
    <3>1. UNCHANGED requests /\ pc \notin Asking /\ pc' \notin Applying
      BY <1>3, <2>1 DEF Initial, NoRoundLeft, Applies, DoesNotApply, Repair, AskAgain, NotSettled, AdoptProposal, RetireDropped,
           ReplayRevised, Revise, ReviseEnds, amending
    <3> QED
      BY <1>k, <3>1
  <2>2. ASSUME NEW c \in Child, AddChild(c) \/ RestateChild(c) \/ DemandEdge(c) \/ KeepChild(c) PROVE RequestsInPlace'
    <3>1. UNCHANGED requests /\ pc \notin Asking /\ pc' \notin Applying
      BY <2>2 DEF AddChild, RestateChild, DemandEdge, KeepChild, amending
    <3> QED
      BY <1>k, <3>1
  <2> QED
    BY <1>3, <2>1, <2>2 DEF Designs
<1>4. CASE Adjudicates
  <2>1. CASE Restate \/ FinishVerdict \/ FirstDispatch \/ ReplayRestated \/ MarkRestated
    <3>1. UNCHANGED requests /\ pc \notin Asking /\ pc' \notin Applying
      BY <2>1 DEF Restate, FinishVerdict, FirstDispatch, ReplayRestated, MarkRestated
    <3> QED
      BY <1>k, <3>1
  <2>2. ASSUME NEW n \in Node, NoVerdict(n) \/ HintAndReopen(n) \/ HintsExhausted(n) PROVE RequestsInPlace'
    <3>1. UNCHANGED requests /\ pc \notin Asking /\ pc' \notin Applying
      BY <2>2 DEF NoVerdict, HintAndReopen, HintsExhausted, amending
    <3> QED
      BY <1>k, <3>1
  <2>3. ASSUME NEW n \in Node, FindStatementWrong(n) PROVE RequestsInPlace'
    <3>1. UNCHANGED requests /\ pc = "adjudicate" /\ job'.approved = TRUE
      BY <2>3 DEF FindStatementWrong
    <3> QED
      BY <3>1 DEF RequestsInPlace
  <2> QED
    BY <1>4, <2>1, <2>2, <2>3 DEF Adjudicates
<1>5. CASE Amends
  <2>1. CASE TakeRequest
    <3>1. PICK asking \in requests :
            /\ requests' = requests \ {asking}
            /\ job' = [req |-> asking[1], by |-> asking[2], approved |-> FALSE]
      BY <2>1 DEF TakeRequest
    <3>2. asking = <<asking[1], asking[2]>> /\ asking[1] \in Request /\ asking[2] \in Node
      BY <1>0, <3>1 DEF ControlTypes
    <3>3. job'.by \in Askers /\ pc' = "apply"
      BY <2>1, <3>1, <3>2 DEF RequestsInPlace, TakeRequest
    <3> QED
      BY <3>1, <3>3 DEF RequestsInPlace
  <2>2. CASE AlreadySeen \/ Refuse \/ Reject \/ Salvage
    <3>1. UNCHANGED requests /\ pc \in Applying
      BY <2>2 DEF AlreadySeen, Refuse, Reject, Salvage
    <3>2. pc' = IF job.approved THEN "verdict" ELSE "requests"
      BY <2>2 DEF AlreadySeen, Refuse, Reject, Salvage, Return
    <3> QED
      BY <3>1, <3>2 DEF RequestsInPlace
  <2>3. CASE WriteCandidate \/ Accept
    BY <2>3 DEF WriteCandidate, Accept, amending, RequestsInPlace
  <2>4. CASE RequestsEnd \/ RetryRefused
    <3>1. UNCHANGED requests /\ (requests = {} \/ pc = "adjudicate") /\ pc' \notin Applying
      BY <2>4 DEF RequestsEnd, RetryRefused, amending
    <3> QED
      BY <3>1 DEF RequestsInPlace
  <2> QED
    BY <1>5, <2>1, <2>2, <2>3, <2>4 DEF Amends
<1>6. CASE Proving /\ ~Exit
  <2>1. CASE Resume \/ Revalidate \/ Integrate
    <3>1. UNCHANGED requests /\ pc \notin Asking /\ pc' \notin Applying
      BY <1>6, <2>1 DEF Resume, Revalidate, Integrate, amending
    <3> QED
      BY <1>k, <3>1
  <2>2. ASSUME NEW n \in Node, GivesUp(n) \/ Proves(n) \/ Errs(n) PROVE RequestsInPlace'
    <3>1. UNCHANGED requests /\ pc = "dispatch" /\ pc' = pc
      BY <2>2 DEF GivesUp, Proves, Errs, Ran
    <3> QED
      BY <3>1 DEF RequestsInPlace
  <2>3. ASSUME NEW n \in Node, ContestsOrAsks(n) PROVE RequestsInPlace'
    <3>1. PICK r \in Request \cup {NoRequest} :
            /\ r # NoRequest => n \in Askers
            /\ requests' = IF r = NoRequest \/ \E m \in Node : <<r, m>> \in requests
                           THEN requests ELSE requests \cup {<<r, n>>}
      BY <2>3 DEF ContestsOrAsks
    <3>2. requests' = requests \/ (n \in Askers /\ requests' = requests \cup {<<r, n>>})
      BY <3>1
    <3>3. pc = "dispatch" /\ pc' = pc
      BY <2>3 DEF ContestsOrAsks, Ran
    <3> QED
      BY <3>2, <3>3 DEF RequestsInPlace
  <2> QED
    BY <1>6, <2>1, <2>2, <2>3 DEF Proving
<1>7. CASE UNCHANGED vars
  BY <1>7 DEF vars, amending, RequestsInPlace
<1> QED
  BY <1>1, <1>2, <1>3, <1>4, <1>5, <1>6, <1>7, EndsExit DEF Next, Work

\* Who waits after a step waited before it, if the step leaves the parked nodes that
\* are withheld as they are.
LEMMA WaitsMove ==
    ASSUME TInv, withheld' \subseteq withheld,
           \A n \in Node : n \in withheld' /\ status'[n] = "stuck" => status[n] = "stuck" /\ spent'[n] = spent[n]
    PROVE  Waits' \subseteq Waits
BY DEF TInv, ControlTypes, Waits, Having, WithBudget

\* The same, of a step that writes nodes and gives some of them a new epoch.
LEMMA WaitsWritten ==
    ASSUME TInv, withheld' \subseteq withheld, NEW N \in SUBSET Node, NEW M \in SUBSET N, NEW s, s # "stuck",
           Write(N, s), \A n \in Node \ M : spent'[n] = spent[n]
    PROVE  Waits' \subseteq Waits
<1>1. \A n \in Node : status'[n] = IF n \in N THEN s ELSE status[n]
  BY DEF Write
<1> QED
  BY <1>1, WaitsMove

\* The replay of an amendment or of a revised design retries every node that has
\* attempts left.
LEMMA RetriesAll ==
    ASSUME TInv, Salvage \/ ReplayRevised
    PROVE  Waits' = {}
<1>0. Proved \subseteq Node /\ (\A s : Having(s) \subseteq Node)
  BY DEF Proved, Having
<1>1. CASE ReplayRevised
  <2>1. PICK kept \in SUBSET Proved : Write((Proved \ kept) \cup Having("stuck"), "open")
    BY <1>1 DEF ReplayRevised
  <2>2. \A n \in Node : status'[n] # "stuck"
    BY <1>0, <2>1 DEF Write, Having
  <2> QED
    BY <2>2 DEF Waits, Having
<1>2. CASE Salvage
  <2>1. PICK kept \in SUBSET Proved :
           LET broken    == Proved \ kept
               requester == {job.by} \cap Having("stuck") \cap WithBudget
               tainted   == ((Mentions \cup {job.by}) \cap (Having("stuck") \cup Having("contested")))
                            \ requester
               others    == (Having("stuck") \cap WithBudget) \ (requester \cup tainted)
               reopened  == broken \cup requester \cup tainted \cup others
           IN /\ Write(reopened, "open")
              /\ NewEpoch(broken \cup tainted, Root \in kept \/ reopened \cap Child # {})
    BY <1>2 DEF Salvage
  <2> DEFINE requester == {job.by} \cap Having("stuck") \cap WithBudget
             tainted   == ((Mentions \cup {job.by}) \cap (Having("stuck") \cup Having("contested"))) \ requester
             others    == (Having("stuck") \cap WithBudget) \ (requester \cup tainted)
             reopened  == (Proved \ kept) \cup requester \cup tainted \cup others
             renewed   == (Proved \ kept) \cup tainted
  <2>2. Having("stuck") \cap WithBudget \subseteq reopened /\ renewed \subseteq reopened /\ reopened \subseteq Node
    BY <1>0
  <2>3. \A n \in Node : status'[n] = IF n \in reopened THEN "open" ELSE status[n]
    BY <2>1 DEF Write
  <2>4. \A n \in Node : spent'[n] = IF n \in renewed THEN 0 ELSE spent[n]
    BY <2>1 DEF NewEpoch
  <2> HIDE DEF renewed, reopened
  <2>5. ASSUME NEW n \in Node, status'[n] = "stuck", spent'[n] < MaxAttempts PROVE FALSE
    <3>1. n \notin reopened /\ status[n] = "stuck"
      BY <2>3, <2>5
    <3>2. spent[n] < MaxAttempts
      BY <2>2, <2>4, <2>5, <3>1
    <3> QED
      BY <2>2, <3>1, <3>2 DEF Having, WithBudget
  <2> QED
    BY <2>5 DEF Waits, Having, WithBudget
<1> QED
  BY <1>1, <1>2

\* Only a dispatch that breaks off for a request makes a node wait.
LEMMA WaitsShrink ==
    ASSUME TInv, [Next]_vars, \A n \in Node : ~ContestsOrAsks(n)
    PROVE  Waits' \subseteq Waits
<1>0. /\ GraphTypes /\ CountTypes /\ ControlTypes
      /\ Proved \subseteq Node /\ (\A s : Having(s) \subseteq Node) /\ Child \subseteq Node
  BY DEF TInv, Proved, Having, Node
<1>k. ASSUME withheld' \subseteq withheld, UNCHANGED <<status, spent>> PROVE Waits' \subseteq Waits
  BY <1>k, WaitsMove
<1>1. CASE Initial \/ NoRoundLeft \/ Applies \/ DoesNotApply \/ Repair \/ AskAgain \/ NotSettled \/ AdoptProposal
           \/ Revise \/ ReviseEnds \/ StartRun \/ UNCHANGED vars
  <2>1. UNCHANGED <<status, spent>>
    BY <1>1 DEF Initial, NoRoundLeft, Applies, DoesNotApply, Repair, AskAgain, NotSettled, AdoptProposal, Revise, ReviseEnds,
         StartRun, vars, graph, nodes
  <2>2. withheld' \subseteq withheld
    BY <1>1 DEF Initial, NoRoundLeft, Applies, DoesNotApply, Repair, AskAgain, NotSettled, AdoptProposal, Revise, ReviseEnds,
         StartRun, vars, history, Exit
  <2> QED
    BY <1>k, <2>1, <2>2
<1>2. CASE RetireDropped
  <2>1. PICK N \in SUBSET Node : Write(N, "attic")
    <3>1. {c \in LiveChild \ Proved : adopted[c] = NotStated} \in SUBSET Node
      BY <1>0 DEF LiveChild
    <3> QED
      BY <1>2, <3>1 DEF RetireDropped
  <2>2. withheld' \subseteq withheld /\ UNCHANGED spent /\ {} \in SUBSET N
    BY <1>2 DEF RetireDropped, history
  <2> QED
    BY <2>1, <2>2, WaitsWritten
<1>3. ASSUME NEW c \in Child, AddChild(c) \/ RestateChild(c) \/ DemandEdge(c) \/ KeepChild(c) PROVE Waits' \subseteq Waits
  <2>1. withheld' \subseteq withheld /\ {c} \in SUBSET Node /\ {c} \in SUBSET {c}
    BY <1>0, <1>3 DEF AddChild, RestateChild, DemandEdge, KeepChild, history
  <2>2. CASE UNCHANGED <<status, spent>>
    BY <1>k, <2>1, <2>2
  <2>3. CASE Write({c}, "open")
    <3>1. \A n \in Node \ {c} : spent'[n] = spent[n]
      BY <1>0, <1>3 DEF AddChild, RestateChild, DemandEdge, KeepChild, NewEpoch, CountTypes
    <3> QED
      BY <2>1, <2>3, <3>1, WaitsWritten
  <2> QED
    BY <1>3, <2>2, <2>3 DEF AddChild, RestateChild, DemandEdge, KeepChild
<1>4. CASE ReplayRevised \/ Salvage
  BY <1>4, RetriesAll
<1>5. CASE Restate \/ FirstDispatch \/ MarkRestated \/ TakeRequest \/ AlreadySeen \/ Refuse \/ WriteCandidate \/ Reject
           \/ Accept \/ RequestsEnd
  <2>1. UNCHANGED <<status, spent, withheld>>
    BY <1>5 DEF Restate, FirstDispatch, MarkRestated, TakeRequest, AlreadySeen, Refuse, WriteCandidate, Reject, Accept,
         RequestsEnd, graph, nodes, history
  <2> QED
    BY <1>k, <2>1
<1>6. CASE FinishVerdict
  <2>1. UNCHANGED <<spent, withheld>> /\ verdict.node \in Node
    BY <1>0, <1>6 DEF FinishVerdict, history, ControlTypes, VerdictOf
  <2>2. \A n \in Node : status'[n] = "stuck" => status[n] = "stuck"
    BY <1>6 DEF FinishVerdict, Write
  <2> QED
    BY <2>1, <2>2, WaitsMove
<1>7. CASE ReplayRestated
  <2>1. PICK N \in SUBSET Node : Write(N, "open") /\ NewEpoch(N, TRUE)
    BY <1>0, <1>7 DEF ReplayRestated
  <2>2. \A n \in Node \ N : spent'[n] = spent[n]
    BY <2>1 DEF NewEpoch
  <2>3. UNCHANGED withheld /\ N \in SUBSET N
    BY <1>7 DEF ReplayRestated, history
  <2> QED
    BY <2>1, <2>2, <2>3, WaitsWritten
<1>8. ASSUME NEW n \in Node, NoVerdict(n) \/ HintsExhausted(n) \/ FindStatementWrong(n) PROVE Waits' \subseteq Waits
  <2>1. UNCHANGED <<status, spent, withheld>>
    BY <1>8 DEF NoVerdict, HintsExhausted, FindStatementWrong, graph, nodes, history
  <2> QED
    BY <1>k, <2>1
<1>9. ASSUME NEW n \in Node, HintAndReopen(n) PROVE Waits' \subseteq Waits
  <2>1. Write({n}, "open") /\ NewEpoch({n}, n \in Child) /\ UNCHANGED withheld
    BY <1>9 DEF HintAndReopen
  <2>2. \A m \in Node \ {n} : spent'[m] = spent[m]
    BY <2>1 DEF NewEpoch
  <2>3. {n} \in SUBSET Node /\ {n} \in SUBSET {n}
    OBVIOUS
  <2> QED
    BY <2>1, <2>2, <2>3, WaitsWritten
<1>10. CASE RetryRefused \/ Resume
  <2>1. PICK N \in SUBSET Node : Write(N, "open")
    BY <1>0, <1>10 DEF RetryRefused, Resume
  <2>2. UNCHANGED <<spent, withheld>> /\ {} \in SUBSET N
    BY <1>10 DEF RetryRefused, Resume, history
  <2> QED
    BY <2>1, <2>2, WaitsWritten
<1>11. CASE Revalidate
  <2>1. UNCHANGED withheld /\ Root \in Node
    BY <1>11 DEF Revalidate, history, Node
  <2>2. \A n \in Node : status'[n] = "stuck" => status[n] = "stuck" /\ spent'[n] = spent[n]
    BY <1>11 DEF Revalidate, NewEpoch, Write
  <2> QED
    BY <2>1, <2>2, WaitsMove
<1>12. CASE Integrate
  <2>1. UNCHANGED spent /\ withheld' = {}
    BY <1>12 DEF Integrate, Exit
  <2> QED
    BY <2>1 DEF Waits
<1>13. ASSUME NEW n \in Node, GivesUp(n) \/ Proves(n) \/ Errs(n) PROVE Waits' \subseteq Waits
  <2>1. withheld' = withheld \ {n}
    BY <1>13 DEF GivesUp, Proves, Errs
  <2>2. \A m \in Node : m # n => status'[m] = status[m] /\ spent'[m] = spent[m]
    BY <1>0, <1>13 DEF GivesUp, Proves, Errs, Ran, Write, CountTypes
  <2> QED
    BY <2>1, <2>2, WaitsMove
<1>14. CASE Ends
  BY <1>14, EndsExit DEF Exit, Waits
<1> QED
  BY <1>1, <1>2, <1>3, <1>4, <1>5, <1>6, <1>7, <1>8, <1>9, <1>10, <1>11, <1>12, <1>13, <1>14
     DEF Next, Work, Designs, Adjudicates, Amends, Proving

\* A run stays started until its process is over.
LEMMA StartedNext ==
    ASSUME TInv, StartedInPlace, [Next]_vars
    PROVE  StartedInPlace'
<1>0. ControlTypes /\ ReasonsInPlace
  BY DEF TInv
<1>1. CASE Exit
  BY <1>1 DEF Exit, StartedInPlace
<1>2. CASE Designs /\ ~Exit
  <2>1. CASE Initial \/ NoRoundLeft \/ Applies \/ DoesNotApply \/ Repair \/ AskAgain \/ NotSettled \/ Revise \/ ReviseEnds
    BY <1>2, <2>1 DEF Initial, NoRoundLeft, Applies, DoesNotApply, Repair, AskAgain, NotSettled, Revise, ReviseEnds,
         reports, settling, StartedInPlace
  <2>2. CASE AdoptProposal \/ RetireDropped \/ ReplayRevised
    BY <2>2 DEF AdoptProposal, RetireDropped, ReplayRevised, reports, settling, StartedInPlace
  <2>3. ASSUME NEW c \in Child, AddChild(c) \/ RestateChild(c) \/ DemandEdge(c) \/ KeepChild(c) PROVE StartedInPlace'
    BY <2>3 DEF AddChild, RestateChild, DemandEdge, KeepChild, reports, settling, StartedInPlace
  <2> QED
    BY <1>2, <2>1, <2>2, <2>3 DEF Designs
<1>3. CASE Adjudicates
  <2>1. CASE Restate \/ FinishVerdict \/ FirstDispatch \/ ReplayRestated \/ MarkRestated
    BY <1>0, <2>1 DEF Restate, FinishVerdict, FirstDispatch, ReplayRestated, MarkRestated, reports, settling, StartedInPlace,
         ControlTypes, ReasonsInPlace, Adopting
  <2>2. ASSUME NEW n \in Node, NoVerdict(n) \/ HintAndReopen(n) \/ HintsExhausted(n) PROVE StartedInPlace'
    BY <2>2 DEF NoVerdict, HintAndReopen, HintsExhausted, reports, settling, amending, StartedInPlace
  <2>3. ASSUME NEW n \in Node, FindStatementWrong(n) PROVE StartedInPlace'
    <3>1. job'.approved = TRUE /\ pc' \in {"verdict", "apply"} /\ UNCHANGED <<started, why>>
      BY <2>3 DEF FindStatementWrong, reports, settling
    <3> QED
      BY <3>1 DEF StartedInPlace
  <2> QED
    BY <1>3, <2>1, <2>2, <2>3 DEF Adjudicates
<1>4. CASE Amends
  <2>1. CASE TakeRequest
    BY <2>1 DEF TakeRequest, reports, settling, StartedInPlace
  <2>2. CASE AlreadySeen \/ Refuse \/ Reject \/ Salvage
    <3>1. pc' = (IF job.approved THEN "verdict" ELSE "requests") /\ pc \in {"apply", "judge", "salvage"}
      BY <2>2 DEF AlreadySeen, Refuse, Reject, Salvage, Return
    <3>2. UNCHANGED <<started, why>>
      BY <2>2 DEF AlreadySeen, Refuse, Reject, Salvage, reports, settling
    <3> QED
      BY <3>1, <3>2 DEF StartedInPlace
  <2>3. CASE WriteCandidate \/ Accept \/ RequestsEnd \/ RetryRefused
    BY <2>3 DEF WriteCandidate, Accept, RequestsEnd, RetryRefused, reports, settling, amending, StartedInPlace
  <2> QED
    BY <1>4, <2>1, <2>2, <2>3 DEF Amends
<1>5. CASE Proving /\ ~Exit
  <2>1. CASE Resume \/ Revalidate \/ Integrate
    BY <1>5, <2>1 DEF Resume, Revalidate, Integrate, reports, settling, StartedInPlace
  <2>2. ASSUME NEW n \in Node, GivesUp(n) \/ Proves(n) \/ ContestsOrAsks(n) \/ Errs(n) PROVE StartedInPlace'
    <3>1. pc = "dispatch" /\ UNCHANGED <<pc, settling, started>>
      BY <2>2 DEF GivesUp, Proves, ContestsOrAsks, Errs, Ran
    <3> QED
      BY <3>1 DEF settling, StartedInPlace
  <2> QED
    BY <1>5, <2>1, <2>2 DEF Proving
<1>6. CASE StartRun \/ UNCHANGED vars
  BY <1>6 DEF StartRun, vars, reports, settling, amending, StartedInPlace
<1> QED
  BY <1>1, <1>2, <1>3, <1>4, <1>5, <1>6, EndsExit DEF Next, Work

\* A step that answers nothing leaves a pending request pending.
LEMMA PendingKept ==
    ASSUME refused \subseteq refused', requests \subseteq requests', UNCHANGED seen,
           pc \notin {"apply", "judge", "salvage"}
    PROVE  \A n \in Node : Pending(n) => Pending(n)'
BY DEF Pending

\* Between the last answer and the next dispatch, who waits was refused.
LEMMA WaitsRefused ==
    ASSUME TInv, RetryInv, pc \notin {"dispatch", "requests", "apply", "judge", "salvage"}
    PROVE  Waits \subseteq refused
BY DEF RetryInv, RequestsInPlace, Pending

\* Whose request is applied is the one who waits, if there is only one who asks.
LEMMA WaitsAnswered ==
    ASSUME TInv, RetryInv, \A m, n \in Askers : m = n, pc \in {"apply", "judge", "salvage"}
    PROVE  \A n \in Waits : n \in refused \/ (n = job.by /\ ~job.approved)
<1>1. ASSUME NEW n \in Waits PROVE n \in refused \/ (n = job.by /\ ~job.approved)
  <2>1. n \in Askers /\ Pending(n)
    BY DEF RetryInv, Waits
  <2>2. CASE job.approved
    BY <2>1, <2>2 DEF RetryInv, RequestsInPlace, Pending
  <2>3. CASE ~job.approved
    <3>1. job.by \in Askers
      BY <2>3 DEF RetryInv, RequestsInPlace
    <3> QED
      BY <2>1, <2>3, <3>1
  <2> QED
    BY <2>2, <2>3
<1> QED
  BY <1>1

\* No step but one of a lone asker's own makes it wait, and none that takes its
\* request away leaves it without an answer.
LEMMA PendingNext ==
    ASSUME TInv, RetryInv, \A m, n \in Askers : m = n, [Next]_vars
    PROVE  \A n \in Waits' : Pending(n)'
<1>0. ControlTypes /\ (\A n \in Waits : n \in Node /\ Pending(n)) /\ Waits \subseteq Node /\ Waits' \subseteq withheld'
  BY DEF TInv, RetryInv, Waits, ControlTypes
<1>n. ASSUME \A n \in Node : ~ContestsOrAsks(n) PROVE Waits' \subseteq Waits
  BY <1>n, WaitsShrink
<1>d. pc # "dispatch" \/ pc' # "dispatch" => \A n \in Node : ~ContestsOrAsks(n)
  BY DEF ContestsOrAsks, Ran
<1>k. ASSUME UNCHANGED <<refused, requests, seen>>, pc \notin {"dispatch", "apply", "judge", "salvage"}
      PROVE  \A n \in Waits' : Pending(n)'
  BY <1>0, <1>n, <1>d, <1>k, PendingKept
<1>1. CASE Exit
  BY <1>0, <1>1 DEF Exit
<1>2. CASE StartRun \/ UNCHANGED vars
  <2>1. UNCHANGED <<refused, requests, seen, job>> /\ withheld' = withheld
    BY <1>2 DEF StartRun, vars, amending, history
  <2>2. CASE StartRun
    BY <1>k, <2>1, <2>2 DEF StartRun
  <2>3. CASE UNCHANGED vars
    <3>1. Waits' = Waits
      BY <2>3 DEF vars, graph, history, Waits, Having, WithBudget
    <3>2. UNCHANGED <<pc, refused, requests, seen, job>>
      BY <2>3 DEF vars, amending
    <3> QED
      BY <1>0, <3>1, <3>2 DEF Pending
  <2> QED
    BY <1>2, <2>2, <2>3
<1>3. CASE ReplayRevised \/ Salvage
  BY <1>3, RetriesAll
<1>4. CASE Designs /\ ~Exit /\ ~ReplayRevised
  <2>1. CASE Initial \/ NoRoundLeft \/ Applies \/ DoesNotApply \/ Repair \/ AskAgain \/ NotSettled \/ AdoptProposal
             \/ RetireDropped \/ Revise \/ ReviseEnds
    <3>1. UNCHANGED amending /\ pc \in {"propose", "settle", "adopt", "children", "revise"}
      BY <1>4, <2>1 DEF Initial, NoRoundLeft, Applies, DoesNotApply, Repair, AskAgain, NotSettled, AdoptProposal, RetireDropped,
           Revise, ReviseEnds
    <3> QED
      BY <1>k, <3>1 DEF amending
  <2>2. ASSUME NEW c \in Child, AddChild(c) \/ RestateChild(c) \/ DemandEdge(c) \/ KeepChild(c) PROVE \A n \in Waits' : Pending(n)'
    <3>1. UNCHANGED <<refused, requests, seen>> /\ pc \in {"children", "edge"}
      BY <2>2 DEF AddChild, RestateChild, DemandEdge, KeepChild, amending
    <3> QED
      BY <1>k, <3>1
  <2> QED
    BY <1>4, <2>1, <2>2 DEF Designs
<1>5. CASE Adjudicates
  <2>1. CASE Restate \/ FinishVerdict \/ ReplayRestated \/ MarkRestated
    <3>1. UNCHANGED <<refused, requests, seen>> /\ pc \in {"verdict", "replay", "mark"}
      BY <2>1 DEF Restate, FinishVerdict, ReplayRestated, MarkRestated
    <3> QED
      BY <1>k, <3>1
  <2>2. CASE FirstDispatch
    <3>1. withheld' = {}
      BY <2>2 DEF FirstDispatch, RetryInv, history
    <3> QED
      BY <1>0, <3>1
  <2>3. ASSUME NEW n \in Node, NoVerdict(n) \/ HintAndReopen(n) \/ HintsExhausted(n) \/ FindStatementWrong(n)
        PROVE  \A m \in Waits' : Pending(m)'
    <3>1. UNCHANGED <<refused, requests, seen>> /\ pc = "adjudicate"
      BY <2>3 DEF NoVerdict, HintAndReopen, HintsExhausted, FindStatementWrong, amending
    <3> QED
      BY <1>k, <3>1
  <2> QED
    BY <1>5, <2>1, <2>2, <2>3 DEF Adjudicates
<1>6. CASE TakeRequest
  <2>1. PICK asking \in requests :
          /\ requests' = requests \ {asking}
          /\ job' = [req |-> asking[1], by |-> asking[2], approved |-> FALSE]
    BY <1>6 DEF TakeRequest
  <2>2. asking = <<asking[1], asking[2]>>
    BY <1>0, <2>1 DEF ControlTypes
  <2>3. pc' = "apply" /\ UNCHANGED <<refused, seen>> /\ pc \in {"dispatch", "requests"}
    BY <1>6 DEF TakeRequest
  <2>4. Waits' \subseteq Waits
    BY <1>n, <1>d, <2>3
  <2>5. ASSUME NEW n \in Waits PROVE Pending(n)'
    <3>1. n \in refused \/ \E r \in Request \ seen : <<r, n>> \in requests
      BY <1>0, <2>3 DEF Pending
    <3>2. ASSUME NEW r \in Request \ seen, <<r, n>> \in requests PROVE Pending(n)'
      <4>1. CASE <<r, n>> = asking
        <5>1. asking[1] = r /\ asking[2] = n
          BY <4>1
        <5>2. job'.by = n /\ job'.req = r /\ job'.approved = FALSE
          BY <2>1, <5>1
        <5> QED
          BY <2>3, <5>2 DEF Pending
      <4>2. CASE <<r, n>> # asking
        BY <2>1, <2>3, <3>2, <4>2 DEF Pending
      <4> QED
        BY <4>1, <4>2
    <3>3. CASE n \in refused
      BY <2>3, <3>3 DEF Pending
    <3> QED
      BY <3>1, <3>2, <3>3
  <2> QED
    BY <2>4, <2>5
<1>7. CASE AlreadySeen
  <2>1. UNCHANGED <<refused, requests, seen>> /\ pc = "apply" /\ job.req \in seen
    BY <1>7 DEF AlreadySeen
  <2>2. Waits' \subseteq Waits
    BY <1>n, <1>d, <2>1
  <2> QED
    BY <1>0, <2>1, <2>2 DEF Pending
<1>8. CASE Refuse \/ Reject
  <2>1. refused' = refused \cup {job.by} /\ pc \in {"apply", "judge"}
    BY <1>8 DEF Refuse, Reject
  <2>2. Waits' \subseteq Waits
    BY <1>n, <1>d, <2>1
  <2>3. \A n \in Waits : n \in refused'
    BY <2>1, WaitsAnswered
  <2> QED
    BY <2>2, <2>3 DEF Pending
<1>9. CASE WriteCandidate \/ Accept
  <2>1. UNCHANGED <<refused, job>> /\ pc \in {"apply", "judge"} /\ pc' \in {"judge", "salvage"}
    BY <1>9 DEF WriteCandidate, Accept, amending
  <2>2. Waits' \subseteq Waits
    BY <1>n, <1>d, <2>1
  <2> QED
    BY <2>1, <2>2, WaitsAnswered DEF Pending
<1>10. CASE RequestsEnd
  <2>1. UNCHANGED <<refused, requests, seen>> /\ pc \in {"dispatch", "requests"} /\ pc' = "adjudicate"
    BY <1>10 DEF RequestsEnd, amending
  <2>2. Waits' \subseteq Waits
    BY <1>n, <1>d, <2>1
  <2> QED
    BY <1>0, <2>1, <2>2, PendingKept
<1>11. CASE RetryRefused
  <2>1. Write(refused \cap Having("stuck") \cap WithBudget, "open") /\ pc = "adjudicate"
    BY <1>11 DEF RetryRefused
  <2>2. Waits' \subseteq Waits
    BY <1>n, <1>d, <2>1
  <2>3. Waits \subseteq refused
    BY <2>1, WaitsRefused
  <2>4. \A n \in Waits : status'[n] = "open"
    BY <1>0, <2>1, <2>3 DEF Write, Waits
  <2>5. Waits' = {}
    BY <2>2, <2>4 DEF Waits, Having
  <2> QED
    BY <2>5
<1>12. CASE Proving /\ ~Exit
  <2>1. CASE Resume \/ Revalidate \/ Integrate
    <3>1. UNCHANGED <<refused, requests, seen>> /\ pc \in {"resume", "revalidate"}
      BY <1>12, <2>1 DEF Resume, Revalidate, Integrate, amending
    <3> QED
      BY <1>k, <3>1
  <2>2. ASSUME NEW n \in Node, GivesUp(n) \/ Proves(n) \/ Errs(n) PROVE \A m \in Waits' : Pending(m)'
    <3>1. UNCHANGED <<refused, requests, seen>> /\ pc = "dispatch" /\ withheld' = withheld \ {n}
      BY <2>2 DEF GivesUp, Proves, Errs, Ran
    <3>2. Waits' \subseteq Waits
      <4>1. \A m \in Node : m # n => status'[m] = status[m] /\ spent'[m] = spent[m]
        BY <2>2 DEF GivesUp, Proves, Errs, Ran, Write, TInv, CountTypes
      <4> QED
        BY <3>1, <4>1, WaitsMove
    <3> QED
      BY <1>0, <3>1, <3>2, PendingKept
  <2>3. ASSUME NEW n \in Node, ContestsOrAsks(n) PROVE \A m \in Waits' : Pending(m)'
    <3>1. PICK k \in 1..MaxAttempts, r \in Request \cup {NoRequest} :
            /\ r # NoRequest => n \in Askers
            /\ \/ withheld' = withheld \ {n}
               \/ /\ r # NoRequest
                  /\ withheld' = IF r \in seen THEN withheld \ {n} ELSE withheld \cup {n}
            /\ requests' = IF r = NoRequest \/ \E m \in Node : <<r, m>> \in requests
                           THEN requests ELSE requests \cup {<<r, n>>}
      BY <2>3 DEF ContestsOrAsks
    <3>2. UNCHANGED <<refused, seen>> /\ pc = "dispatch" /\ requests \subseteq requests'
      BY <2>3, <3>1 DEF ContestsOrAsks, Ran
    <3>3. \A m \in Node : m # n => status'[m] = status[m] /\ spent'[m] = spent[m]
      BY <2>3 DEF ContestsOrAsks, Ran, Write, TInv, CountTypes
    <3>4. ASSUME NEW m \in Waits', m # n PROVE Pending(m)'
      <4>1. m \in Node /\ m \in withheld /\ m \in Waits
        BY <1>0, <3>1, <3>3, <3>4 DEF Waits, Having, WithBudget
      <4> QED
        BY <1>0, <3>2, <4>1, PendingKept
    <3>5. ASSUME n \in Waits' PROVE Pending(n)'
      <4>1. r # NoRequest /\ r \in Request \ seen /\ n \in Askers
        BY <1>0, <3>1, <3>5
      <4>2. <<r, n>> \in requests'
        <5>1. CASE \E m \in Node : <<r, m>> \in requests
          <6>1. PICK m \in Node : <<r, m>> \in requests
            BY <5>1
          <6>2. m = n
            BY <4>1, <6>1 DEF RetryInv, RequestsInPlace
          <6> QED
            BY <3>2, <6>1, <6>2
        <5>2. CASE ~\E m \in Node : <<r, m>> \in requests
          BY <3>1, <4>1, <5>2
        <5> QED
          BY <5>1, <5>2
      <4> QED
        BY <3>2, <4>1, <4>2 DEF Pending
    <3> QED
      BY <3>4, <3>5
  <2> QED
    BY <1>12, <2>1, <2>2, <2>3 DEF Proving
<1> QED
  BY <1>1, <1>2, <1>3, <1>4, <1>5, <1>6, <1>7, <1>8, <1>9, <1>10, <1>11, <1>12, EndsExit DEF Next, Work, Amends

\* A dispatch settles nothing and ends no pass.
LEMMA ProvingMoves ==
    ASSUME Proving
    PROVE  Exit \/ (pc' # "revise" /\ UNCHANGED <<why, started>>)
<1>1. CASE Resume \/ Revalidate \/ Integrate
  BY <1>1 DEF Resume, Revalidate, Integrate, settling, reports
<1>2. ASSUME NEW n \in Node, GivesUp(n) \/ Proves(n) \/ ContestsOrAsks(n) \/ Errs(n)
      PROVE  pc' # "revise" /\ UNCHANGED <<why, started>>
  BY <1>2 DEF GivesUp, Proves, ContestsOrAsks, Errs, Ran, settling
<1> QED
  BY <1>1, <1>2 DEF Proving

\* The rest of the invariant.
LEMMA RetryNext ==
    ASSUME TInv, RetryInv, \A m, n \in Askers : m = n, [Next]_vars
    PROVE  RetryInv'
<1>0. ControlTypes /\ ReasonsInPlace /\ RequestsInPlace /\ StartedInPlace
  BY DEF TInv, RetryInv
<1>1. RequestsInPlace' /\ StartedInPlace' /\ \A n \in Waits' : Pending(n)'
  BY <1>0, RequestsNext, StartedNext, PendingNext
<1>2. \/ withheld' \subseteq withheld
      \/ \E n \in Askers : withheld' = withheld \cup {n} /\ pc = "dispatch" /\ UNCHANGED started
  <2>1. CASE \E n \in Node : ContestsOrAsks(n)
    <3>1. PICK n \in Node : ContestsOrAsks(n)
      BY <2>1
    <3>2. PICK r \in Request \cup {NoRequest} :
            /\ r # NoRequest => n \in Askers
            /\ \/ withheld' = withheld \ {n}
               \/ /\ r # NoRequest
                  /\ withheld' = IF r \in seen THEN withheld \ {n} ELSE withheld \cup {n}
      BY <3>1 DEF ContestsOrAsks
    <3>3. pc = "dispatch" /\ UNCHANGED started
      BY <3>1 DEF ContestsOrAsks, Ran
    <3> QED
      BY <3>2, <3>3
  <2>2. CASE Initial \/ NoRoundLeft \/ Applies \/ DoesNotApply \/ Repair \/ AskAgain \/ NotSettled
             \/ AdoptProposal \/ RetireDropped \/ ReplayRevised \/ Revise \/ ReviseEnds
    BY <2>2 DEF Initial, NoRoundLeft, Applies, DoesNotApply, Repair, AskAgain, NotSettled, AdoptProposal, RetireDropped,
         ReplayRevised, Revise, ReviseEnds, history, Exit
  <2>3. ASSUME NEW c \in Child, AddChild(c) \/ RestateChild(c) \/ DemandEdge(c) \/ KeepChild(c) PROVE withheld' \subseteq withheld
    BY <2>3 DEF AddChild, RestateChild, DemandEdge, KeepChild, history
  <2>4. CASE Restate \/ FinishVerdict \/ FirstDispatch \/ ReplayRestated \/ MarkRestated \/ Resume \/ Revalidate \/ Integrate
    BY <2>4 DEF Restate, FinishVerdict, FirstDispatch, ReplayRestated, MarkRestated, Resume, Revalidate, Integrate, history, Exit
  <2>5. ASSUME NEW n \in Node, \/ NoVerdict(n) \/ HintAndReopen(n) \/ HintsExhausted(n) \/ FindStatementWrong(n)
                               \/ GivesUp(n) \/ Proves(n) \/ Errs(n)
        PROVE withheld' \subseteq withheld
    BY <2>5 DEF NoVerdict, HintAndReopen, HintsExhausted, FindStatementWrong, GivesUp, Proves, Errs, history
  <2>6. CASE Amends
    BY <2>6 DEF Amends, TakeRequest, AlreadySeen, Refuse, WriteCandidate, Reject, Accept, Salvage, RequestsEnd, RetryRefused, history
  <2>7. CASE StartRun \/ UNCHANGED vars
    BY <2>7 DEF StartRun, vars, history
  <2>8. CASE Ends
    BY <2>8, EndsExit DEF Exit
  <2> QED
    BY <2>1, <2>2, <2>3, <2>4, <2>5, <2>6, <2>7, <2>8 DEF Next, Work, Designs, Adjudicates, Proving
<1>3. withheld' \subseteq Askers
  BY <1>2 DEF RetryInv
<1>4. ~started' => withheld' = {}
  <2>1. ASSUME ~started', started PROVE withheld' = {}
    <3>1. CASE Exit
      BY <3>1 DEF Exit
    <3>2. CASE ~Exit
      <4>1. UNCHANGED started \/ started' = TRUE
        <5>1. CASE Designs
          BY <3>2, <5>1 DEF Designs, Initial, NoRoundLeft, Applies, DoesNotApply, Repair, AskAgain, NotSettled, AdoptProposal,
               RetireDropped, ReplayRevised, Revise, ReviseEnds, AddChild, RestateChild, DemandEdge, KeepChild, reports
        <5>2. CASE Adjudicates
          BY <5>2 DEF Adjudicates, Restate, FinishVerdict, FirstDispatch, ReplayRestated, MarkRestated, NoVerdict, HintAndReopen,
               HintsExhausted, FindStatementWrong, reports
        <5>3. CASE Amends
          BY <5>3 DEF Amends, TakeRequest, AlreadySeen, Refuse, WriteCandidate, Reject, Accept, Salvage, RequestsEnd, RetryRefused,
               reports
        <5>4. CASE Proving
          BY <3>2, <5>4, ProvingMoves
        <5>5. CASE StartRun \/ UNCHANGED vars
          BY <5>5 DEF StartRun, vars, reports
        <5> QED
          BY <3>2, <5>1, <5>2, <5>3, <5>4, <5>5, EndsExit DEF Next, Work
      <4> QED
        BY <2>1, <4>1
    <3> QED
      BY <3>1, <3>2
  <2>2. ASSUME ~started PROVE withheld' = {}
    BY <1>0, <1>2, <2>2 DEF RetryInv, StartedInPlace
  <2> QED
    BY <2>1, <2>2
<1>5. pc' = "revise" => refused' = {}
  <2>1. ASSUME pc' = "revise" PROVE RetryRefused \/ UNCHANGED vars
    <3>1. CASE Exit
      BY <2>1, <3>1 DEF Exit
    <3>2. ~StartRun /\ ~Proving
      BY <2>1, ProvingMoves DEF StartRun, Exit
    <3>3. ~Designs
      BY <2>1 DEF Designs, Initial, NoRoundLeft, Applies, DoesNotApply, Repair, AskAgain, NotSettled, AdoptProposal,
           RetireDropped, ReplayRevised, Revise, ReviseEnds, AddChild, RestateChild, DemandEdge, KeepChild, Exit
    <3>4. ~Adjudicates
      BY <2>1 DEF Adjudicates, Restate, FinishVerdict, FirstDispatch, ReplayRestated, MarkRestated, NoVerdict, HintAndReopen,
           HintsExhausted, FindStatementWrong
    <3>5. Amends => RetryRefused
      BY <2>1 DEF Amends, TakeRequest, AlreadySeen, Refuse, WriteCandidate, Reject, Accept, Salvage, RequestsEnd, Return
    <3>6. ~Ends
      BY <2>1, EndsExit
    <3> QED
      BY <3>2, <3>3, <3>4, <3>5, <3>6 DEF Next, Work
  <2> QED
    BY <2>1 DEF RetryRefused, vars, amending, RetryInv
<1>6. why' = "revise" => Waits' = {}
  <2>1. ASSUME why' = "revise" PROVE why = "revise" \/ pc = "revise"
    <3>1. CASE Revise
      BY <3>1 DEF Revise
    <3>2. CASE ~Revise
      <4>1. UNCHANGED why \/ why' \in {"initial", "restate"}
        <5>1. CASE Designs
          BY <3>2, <5>1 DEF Designs, Initial, NoRoundLeft, Applies, DoesNotApply, Repair, AskAgain, NotSettled, AdoptProposal,
               RetireDropped, ReplayRevised, ReviseEnds, AddChild, RestateChild, DemandEdge, KeepChild, settling, Exit
        <5>2. CASE Adjudicates
          BY <5>2 DEF Adjudicates, Restate, FinishVerdict, FirstDispatch, ReplayRestated, MarkRestated, NoVerdict, HintAndReopen,
               HintsExhausted, FindStatementWrong, settling
        <5>3. CASE Amends
          BY <5>3 DEF Amends, TakeRequest, AlreadySeen, Refuse, WriteCandidate, Reject, Accept, Salvage, RequestsEnd, RetryRefused,
               settling
        <5>4. CASE Proving
          BY <5>4, ProvingMoves DEF Exit
        <5>5. CASE StartRun \/ UNCHANGED vars
          BY <5>5 DEF StartRun, vars, settling
        <5>6. CASE Ends
          BY <5>6, EndsExit DEF Exit
        <5> QED
          BY <5>1, <5>2, <5>3, <5>4, <5>5, <5>6 DEF Next, Work
      <4> QED
        BY <2>1, <4>1
    <3> QED
      BY <3>1, <3>2
  <2>2. ASSUME why = "revise" \/ pc = "revise" PROVE Waits' = {}
    <3>1. Waits = {}
      BY <2>2, WaitsRefused DEF RetryInv
    <3>2. pc # "dispatch"
      BY <1>0, <2>2 DEF ReasonsInPlace, Adopting
    <3>3. \A n \in Node : ~ContestsOrAsks(n)
      BY <3>2 DEF ContestsOrAsks
    <3> QED
      BY <3>1, <3>3, WaitsShrink
  <2> QED
    BY <2>1, <2>2
<1> QED
  BY <1>1, <1>3, <1>4, <1>5, <1>6 DEF RetryInv

\* With one node that asks for amendments, a retry withheld for a request is given
\* when the request is turned down, wherever a process is killed: the node is among
\* the refused when the loop ends, and reopened before the run gives it up.
THEOREM RefusedRequestsAreRetried ==
    ASSUME \A m, n \in Askers : m = n
    PROVE  Spec => []RefusalsAreRetried
<1>1. Init => RetryInv
  BY DEF Init, RetryInv, RequestsInPlace, StartedInPlace, Waits
<1>2. TInv /\ RetryInv /\ [Next]_vars => RetryInv'
  BY RetryNext
<1>3. TInv /\ RetryInv => RefusalsAreRetried
  BY WaitsRefused DEF RetryInv, RefusalsAreRetried, Waits
<1> QED
  BY <1>1, <1>2, <1>3, TypesHold, PTL DEF Spec
=============================================================================
