--------------------------- MODULE ProveRunProofs ---------------------------
(***************************************************************************)
(* ProveRun keeps its types and the ledger's promise for every plan, every  *)
(* number of obligations, attempts and workers, and every pattern of kills  *)
(* and edits.  The inductive invariant adds to BodyIsOfStatement what it    *)
(* rests on: attempt rows of the current epoch are of the current           *)
(* statement, and so is the proof a coroutine or the reconciliation holds.  *)
(*                                                                          *)
(* On top of it come the attempts charged (BudgetInv) and where a process   *)
(* stands to its plan (PlaceInv), for every edit and kill; the proofs that  *)
(* are due to a node (SalvageInv), while no edit drops an obligation or     *)
(* none follows a kill; and the pins (PinInv), while no kill parts a child  *)
(* from its demand edge and no edit follows a kill.                         *)
(***************************************************************************)
EXTENDS ProveRun, SequenceTheorems, FiniteSetTheorems, TLAPS

\* A node has a statement, and may have rows, from the moment it is added.
StatedOncePresent ==
    \A n \in Node : IF Present(n) THEN stmt[n] \in Stmt
                                  ELSE stmt[n] = NoStmt /\ rows[n] = << >>

\* A gated row of the current epoch is a proof of the current statement.
RowsKeepTheirEpoch ==
    \A n \in Node : \A i \in DOMAIN rows[n] :
        /\ rows[n][i].epoch <= epoch[n]
        /\ rows[n][i].epoch = epoch[n] /\ rows[n][i].proof # NoProof
              => rows[n][i].proof.of = stmt[n]

\* Coroutines run while the process dispatches, on nodes the graph has.
CoroutinesAreDispatched ==
    \A n \in Node : where[n] # "idle" => phase \in {"dispatch", "integrate"} /\ Present(n)

\* The proof a coroutine is about to record is of its node's statement.
HandIsOfStatement ==
    \A n \in Node : where[n] = "accepted" => taken # NoProof /\ taken.of = stmt[n]

\* Inside the reconciliation of a child, its statement is the plan's, and so is
\* that of the plan's proof about to be recorded.
ReconciledSoFar ==
    phase = "reconcile" =>
        /\ todo \subseteq Stated(plan)
        /\ step # "look" =>
              \A c \in todo : Turn(c) => Present(c) /\ stmt[c] = plan[c].stmt
        /\ step = "record" =>
              \A c \in todo : Turn(c) => taken # NoProof /\ taken.of = stmt[c]

LoopsVisitNodes ==
    phase \in {"retire", "resume", "revalidate"} => \A n \in todo : Present(n)

\* What the graph's tables satisfy ...
GraphInv ==
    /\ status \in [Node -> ProofStatus \cup {"absent"}]
    /\ epoch \in [Node -> Nat]
    /\ stmt \in [Node -> Stmt \cup {NoStmt}]
    /\ body \in [Node -> Proof \cup {NoProof}]
    /\ rows \in [Node -> Seq(Row)]
    /\ BodyIsOfStatement
    /\ StatedOncePresent
    /\ RowsKeepTheirEpoch

\* ... and what the process, its inputs and its place in the code satisfy.
ProcessInv ==
    /\ pin \in [Child -> Nat \cup {NoEdge}]
    /\ plan \in Plan /\ plan[Root].stmt \in Stmt
    /\ phase \in Phase
    /\ todo \subseteq Node
    /\ step \in Step
    /\ where \in [Node -> Where]
    /\ taken \in Proof \cup {NoProof}
    /\ ending \in Ending
    /\ runs \in 0..MaxRuns
    /\ CoroutinesAreDispatched
    /\ HandIsOfStatement
    /\ ReconciledSoFar
    /\ LoopsVisitNodes

IInv == GraphInv /\ ProcessInv

\* One step of the ledger, or none.
LedgerStep == [Ledger!Next]_(Ledger!ledger)

SameNodes == \A n \in Node : Present(n)' <=> Present(n)

-----------------------------------------------------------------------------
(* What each kind of write does to the graph's tables *)

\* Every attempt row of the table is a row of the schema, with an epoch to compare.
LEMMA RowEpochs ==
    ASSUME GraphInv
    PROVE  \A n \in Node : \A i \in DOMAIN rows[n] :
               rows[n][i] \in Row /\ rows[n][i].epoch \in Nat /\ epoch[n] \in Nat
<1> SUFFICES ASSUME NEW n \in Node, NEW i \in DOMAIN rows[n]
             PROVE  rows[n][i] \in Row /\ rows[n][i].epoch \in Nat /\ epoch[n] \in Nat
  OBVIOUS
<1>1. rows[n] \in Seq(Row) /\ epoch[n] \in Nat
  BY DEF GraphInv
<1>2. rows[n][i] \in Row
  BY <1>1, LenProperties, ElementOfSeq
<1> QED
  BY <1>1, <1>2 DEF Row

\* A status write that does not prove: the node keeps its statement, and loses its
\* proof, if it had one, under a new epoch.
LEMMA SetStatusKeeps ==
    ASSUME GraphInv, NEW n \in Node, Present(n),
           NEW new \in {"open", "claimed", "stuck", "contested", "attic"},
           NEW human \in BOOLEAN, SetStatus(n, new, human), UNCHANGED <<stmt, rows>>
    PROVE  GraphInv' /\ SameNodes /\ LedgerStep
<1>1. MayMove(status[n], new, human) /\ status' = [status EXCEPT ![n] = new]
  BY DEF SetStatus
<1>2. status[n] \in ProvedStatus => new = "open"
  BY <1>1 DEF MayMove, Moves, HumanMoves, ProvedStatus
<1>3. CASE status[n] \in ProvedStatus
  <2>1. /\ epoch' = [epoch EXCEPT ![n] = @ + 1]
        /\ body' = [body EXCEPT ![n] = NoProof]
    BY <1>2, <1>3 DEF SetStatus, Invalidates
  <2>a. RowsKeepTheirEpoch'
    BY <2>1, RowEpochs DEF GraphInv, RowsKeepTheirEpoch
  <2>b. BodyIsOfStatement' /\ StatedOncePresent'
    BY <1>1, <1>2, <1>3, <2>1 DEF GraphInv, BodyIsOfStatement, StatedOncePresent,
         Proved, Present, ProofStatus, ProvedStatus
  <2>2. GraphInv'
    BY <1>1, <2>1, <2>a, <2>b DEF GraphInv, ProofStatus
  <2>3. SameNodes
    BY <1>1 DEF SameNodes, Present, GraphInv
  <2>4. Ledger!Withdraw(n)
    BY <1>1, <1>3, <2>1, StmtAssumption
       DEF Ledger!Withdraw, GraphInv, Proved, ProvedStatus, BodyIsOfStatement, StatedOncePresent, Present
  <2> QED
    BY <2>2, <2>3, <2>4 DEF LedgerStep, Ledger!Next
<1>4. CASE status[n] \notin ProvedStatus
  <2>1. UNCHANGED <<epoch, body>>
    BY <1>4 DEF SetStatus, Invalidates
  <2>2. GraphInv'
    BY <1>1, <1>4, <2>1 DEF GraphInv, BodyIsOfStatement, StatedOncePresent,
         RowsKeepTheirEpoch, Proved, Present, ProofStatus, ProvedStatus
  <2>3. SameNodes
    BY <1>1 DEF SameNodes, Present, GraphInv
  <2>4. UNCHANGED Ledger!ledger
    BY <1>1, <1>4, <2>1 DEF Ledger!ledger, GraphInv, Proved, ProvedStatus
  <2> QED
    BY <2>2, <2>3, <2>4 DEF LedgerStep
<1> QED
  BY <1>3, <1>4

\* record_proof with a proof of the node's statement.
LEMMA RecordProofKeeps ==
    ASSUME GraphInv, NEW n \in Node, Present(n),
           NEW p \in Proof, p.of = stmt[n], RecordProof(n, p), UNCHANGED <<stmt, rows>>
    PROVE  GraphInv' /\ SameNodes /\ LedgerStep
<1>1. GraphInv'
  BY NoProofAssumption DEF RecordProof, GraphInv, BodyIsOfStatement, StatedOncePresent,
       RowsKeepTheirEpoch, Proved, Present, ProofStatus, ProvedStatus
<1>2. SameNodes
  BY DEF RecordProof, SameNodes, Present, GraphInv
<1>3. CASE Proved(n)
  <2>1. UNCHANGED Ledger!ledger
    BY <1>3 DEF RecordProof, Ledger!ledger, GraphInv, BodyIsOfStatement, Proved, ProvedStatus
  <2> QED
    BY <1>1, <1>2, <2>1 DEF LedgerStep
<1>4. CASE ~Proved(n)
  <2>1. Ledger!Prove(n)
    BY <1>4, StmtAssumption
       DEF RecordProof, Ledger!Prove, GraphInv, StatedOncePresent, Present, Proved, ProvedStatus
  <2> QED
    BY <1>1, <1>2, <2>1 DEF LedgerStep, Ledger!Next
<1> QED
  BY <1>3, <1>4

\* A restatement: no row of an earlier epoch can be taken for a proof any more.
LEMMA RestateKeeps ==
    ASSUME GraphInv, NEW n \in Node, Present(n),
           NEW s \in Stmt, s # stmt[n], Restate(n, s), UNCHANGED rows
    PROVE  GraphInv' /\ SameNodes /\ LedgerStep
<1>a. RowsKeepTheirEpoch'
  BY RowEpochs DEF Restate, GraphInv, RowsKeepTheirEpoch
<1>b. BodyIsOfStatement' /\ StatedOncePresent'
  BY DEF Restate, GraphInv, BodyIsOfStatement, StatedOncePresent,
       Proved, Present, ProofStatus, ProvedStatus
<1>1. GraphInv'
  BY <1>a, <1>b DEF Restate, GraphInv, ProofStatus
<1>2. SameNodes
  BY DEF Restate, SameNodes, Present, GraphInv
<1>3. Ledger!Restate(n, s)
  BY StmtAssumption
     DEF Restate, Ledger!Restate, GraphInv, StatedOncePresent, Present, Proved, ProvedStatus
<1> QED
  BY <1>1, <1>2, <1>3 DEF LedgerStep, Ledger!Next

\* A new node, open or gated with a proof of its statement.
LEMMA AddNodeKeeps ==
    ASSUME GraphInv, NEW n \in Node, ~Present(n), NEW s \in Stmt, NEW new, NEW p,
           \/ new = "open" /\ p = NoProof
           \/ new = "gated" /\ p \in Proof /\ p.of = s,
           AddNode(n, s, new, p), UNCHANGED rows
    PROVE  GraphInv' /\ LedgerStep /\ \A m \in Node : Present(m)' <=> Present(m) \/ m = n
<1>a. RowsKeepTheirEpoch'
  BY DEF AddNode, GraphInv, RowsKeepTheirEpoch, StatedOncePresent
<1>b. BodyIsOfStatement' /\ StatedOncePresent'
  BY NoProofAssumption DEF AddNode, GraphInv, BodyIsOfStatement, StatedOncePresent,
       Proved, Present, ProofStatus, ProvedStatus
<1>1. GraphInv'
  BY <1>a, <1>b DEF AddNode, GraphInv, ProofStatus
<1>2. \A m \in Node : Present(m)' <=> Present(m) \/ m = n
  BY DEF AddNode, Present, GraphInv
<1>3. Ledger!State(n, s)
  BY DEF AddNode, Ledger!State, GraphInv, StatedOncePresent, Present, Proved, ProvedStatus
<1> QED
  BY <1>1, <1>2, <1>3 DEF LedgerStep, Ledger!Next

-----------------------------------------------------------------------------
(* What each kind of write does to the attempts table *)

\* Replacing a node's rows by ones that keep to its epoch.
LEMMA RowWriteKeeps ==
    ASSUME GraphInv, NEW n \in Node, Present(n), NEW t \in Seq(Row),
           \A i \in DOMAIN t :
               /\ t[i].epoch <= epoch[n]
               /\ t[i].epoch = epoch[n] /\ t[i].proof # NoProof => t[i].proof.of = stmt[n],
           rows' = [rows EXCEPT ![n] = t], UNCHANGED <<status, epoch, stmt, body>>
    PROVE  GraphInv' /\ SameNodes /\ LedgerStep
<1>1. RowsKeepTheirEpoch'
  BY DEF GraphInv, RowsKeepTheirEpoch
<1>2. BodyIsOfStatement' /\ StatedOncePresent'
  BY DEF GraphInv, BodyIsOfStatement, StatedOncePresent, Proved, Present
<1>3. GraphInv'
  BY <1>1, <1>2 DEF GraphInv
<1>4. SameNodes /\ UNCHANGED Ledger!ledger
  BY DEF SameNodes, Present, Proved, Ledger!ledger
<1> QED
  BY <1>3, <1>4 DEF LedgerStep

\* start_attempt appends a claimed row of the current epoch, without a body.
LEMMA StartRowKeeps ==
    ASSUME GraphInv, NEW n \in Node, Present(n),
           StartRow(n), UNCHANGED <<status, epoch, stmt, body>>
    PROVE  GraphInv' /\ SameNodes /\ LedgerStep
<1> DEFINE r == [epoch |-> epoch[n], status |-> "claimed", proof |-> NoProof]
           t == Append(rows[n], r)
<1>1. r \in Row /\ rows[n] \in Seq(Row)
  BY DEF GraphInv, Row, RowStatus
<1>2. t \in Seq(Row) /\ DOMAIN t = 1..Len(rows[n]) + 1
  BY <1>1, AppendProperties, LenProperties
<1>3. \A i \in DOMAIN t : IF i \in DOMAIN rows[n] THEN t[i] = rows[n][i] ELSE t[i] = r
  BY <1>1, <1>2, AppendProperties, LenProperties
<1>4. \A i \in DOMAIN t :
          /\ t[i].epoch <= epoch[n]
          /\ t[i].epoch = epoch[n] /\ t[i].proof # NoProof => t[i].proof.of = stmt[n]
  <2> SUFFICES ASSUME NEW i \in DOMAIN t
               PROVE  /\ t[i].epoch <= epoch[n]
                      /\ t[i].epoch = epoch[n] /\ t[i].proof # NoProof
                            => t[i].proof.of = stmt[n]
    OBVIOUS
  <2>1. CASE i \in DOMAIN rows[n]
    BY <1>3, <2>1 DEF GraphInv, RowsKeepTheirEpoch
  <2>2. CASE i \notin DOMAIN rows[n]
    BY <1>3, <2>2 DEF GraphInv
  <2> QED
    BY <2>1, <2>2
<1>5. rows' = [rows EXCEPT ![n] = t]
  BY DEF StartRow
<1> QED
  BY <1>2, <1>4, <1>5, RowWriteKeeps

\* finish_attempt closes the last row; a body it stores is of the current statement.
LEMMA FinishRowKeeps ==
    ASSUME GraphInv, NEW n \in Node, Present(n), NEW o \in RowStatus,
           NEW p \in Proof \cup {NoProof}, p # NoProof => p.of = stmt[n],
           FinishRow(n, o, p), UNCHANGED <<status, epoch, stmt, body>>
    PROVE  GraphInv' /\ SameNodes /\ LedgerStep
<1> DEFINE s == rows[n]
           r == [s[Len(s)] EXCEPT !.status = o, !.proof = p]
           t == [s EXCEPT ![Len(s)] = r]
<1>1. s \in Seq(Row) /\ Len(s) \in Nat /\ DOMAIN s = 1..Len(s)
  BY LenProperties DEF GraphInv
<1>2. ASSUME NEW i \in DOMAIN s
      PROVE  /\ t[i] \in Row
             /\ t[i].epoch = s[i].epoch
             /\ i = Len(s) => t[i].proof = p
             /\ i # Len(s) => t[i] = s[i]
  <2>1. s[i] \in Row
    BY RowEpochs
  <2>2. i = Len(s) => r \in Row /\ r.epoch = s[i].epoch /\ r.proof = p
    BY <2>1 DEF Row
  <2> QED
    BY <2>1, <2>2
<1>3. DOMAIN t = 1..Len(s) /\ t \in [1..Len(s) -> Row]
  BY <1>1, <1>2
<1>4. t \in Seq(Row)
  BY <1>1, <1>3, SeqDef
<1>5. \A i \in DOMAIN t :
          /\ t[i].epoch <= epoch[n]
          /\ t[i].epoch = epoch[n] /\ t[i].proof # NoProof => t[i].proof.of = stmt[n]
  BY <1>1, <1>2, <1>3 DEF GraphInv, RowsKeepTheirEpoch
<1>6. rows' = [rows EXCEPT ![n] = t]
  BY DEF FinishRow
<1> QED
  BY <1>4, <1>5, <1>6, RowWriteKeeps

\* _close_claimed_prover_rows changes the status of rows, and neither epoch nor body.
LEMMA CloseRowsKeeps ==
    ASSUME GraphInv, NEW n \in Node, Present(n),
           CloseClaimedRows(n), UNCHANGED <<status, epoch, stmt, body>>
    PROVE  GraphInv' /\ SameNodes /\ LedgerStep
<1> DEFINE s == rows[n]
           t == [i \in DOMAIN s |->
                   IF s[i].status = "claimed" THEN [s[i] EXCEPT !.status = "stuck"] ELSE s[i]]
<1>1. s \in Seq(Row) /\ Len(s) \in Nat /\ DOMAIN s = 1..Len(s)
  BY LenProperties DEF GraphInv
<1>2. ASSUME NEW i \in DOMAIN s
      PROVE  t[i] \in Row /\ t[i].epoch = s[i].epoch /\ t[i].proof = s[i].proof
  <2>1. s[i] \in Row
    BY RowEpochs
  <2> QED
    BY <2>1 DEF Row, RowStatus
<1>3. DOMAIN t = 1..Len(s) /\ t \in [1..Len(s) -> Row]
  BY <1>1, <1>2
<1>4. t \in Seq(Row)
  BY <1>1, <1>3, SeqDef
<1>5. \A i \in DOMAIN t :
          /\ t[i].epoch <= epoch[n]
          /\ t[i].epoch = epoch[n] /\ t[i].proof # NoProof => t[i].proof.of = stmt[n]
  BY <1>2 DEF GraphInv, RowsKeepTheirEpoch
<1>6. rows' = [rows EXCEPT ![n] = t]
  BY DEF CloseClaimedRows
<1> QED
  BY <1>4, <1>5, <1>6, RowWriteKeeps

\* A step that leaves the tables alone.
LEMMA GraphUnchanged ==
    ASSUME GraphInv, UNCHANGED <<status, epoch, stmt, body, rows>>
    PROVE  GraphInv' /\ SameNodes /\ LedgerStep
<1>1. GraphInv' /\ SameNodes
  BY DEF GraphInv, SameNodes, BodyIsOfStatement, StatedOncePresent, RowsKeepTheirEpoch,
         Proved, Present
<1>2. UNCHANGED Ledger!ledger
  BY DEF Ledger!ledger, Proved
<1> QED
  BY <1>1, <1>2 DEF LedgerStep

-----------------------------------------------------------------------------
(* The process: where it is, and what it holds *)

\* Plan order is total: a loop is at one node at a time.
LEMMA TurnUnique ==
    ASSUME todo \subseteq Node, NEW m \in Node, NEW n \in Node, Turn(m), Turn(n)
    PROVE  m = n
BY OrderingAssumption DEF Turn, Before, Node

\* Outside the dispatch no coroutine exists.
LEMMA IdleBeforeDispatch ==
    ASSUME ProcessInv, phase \notin {"dispatch", "integrate"}
    PROVE  \A n \in Node : where[n] = "idle"
BY DEF ProcessInv, CoroutinesAreDispatched

\* A process that ends leaves the tables as they are and forgets the rest.
LEMMA ExitKeeps ==
    ASSUME IInv, NEW how \in Ending, Exit(how)
    PROVE  IInv' /\ LedgerStep
<1>1. GraphInv' /\ LedgerStep
  BY GraphUnchanged DEF IInv, Exit, graph
<1>2. ProcessInv'
  BY DEF IInv, ProcessInv, Exit, graph, Phase, Step, Where, CoroutinesAreDispatched,
       HandIsOfStatement, ReconciledSoFar, LoopsVisitNodes
<1> QED
  BY <1>1, <1>2 DEF IInv

\* A coroutine moves on: only a coroutine that holds an accepted proof puts one in hand.
LEMMA CoroutineKeeps ==
    ASSUME ProcessInv, GraphInv', SameNodes, UNCHANGED stmt,
           NEW n \in Node, Present(n), phase = "dispatch",
           NEW at \in Where, where' = [where EXCEPT ![n] = at],
           taken' \in Proof \cup {NoProof},
           \A m \in Node \ {n} : where[m] # "accepted",
           at = "accepted" => taken' # NoProof /\ taken'.of = stmt[n],
           pin' \in [Child -> Nat \cup {NoEdge}],
           UNCHANGED <<plan, phase, todo, step, ending, runs>>
    PROVE  ProcessInv'
<1>1. CoroutinesAreDispatched'
  BY DEF ProcessInv, CoroutinesAreDispatched, SameNodes
<1>2. HandIsOfStatement'
  BY DEF ProcessInv, HandIsOfStatement
<1>3. ReconciledSoFar' /\ LoopsVisitNodes'
  BY DEF ReconciledSoFar, LoopsVisitNodes
<1> QED
  BY <1>1, <1>2, <1>3 DEF ProcessInv

\* A loop of the reconciliation or of resume moves on.
LEMMA LoopKeeps ==
    ASSUME ProcessInv, GraphInv', phase \notin {"dispatch", "integrate"},
           \A m \in Node : Present(m) => Present(m)',
           phase' \in Phase \ {"dispatch", "integrate"}, todo' \subseteq Node, step' \in Step,
           pin' \in [Child -> Nat \cup {NoEdge}], taken' \in Proof \cup {NoProof},
           ReconciledSoFar', LoopsVisitNodes', UNCHANGED <<plan, where, ending, runs>>
    PROVE  ProcessInv'
<1>1. \A n \in Node : where'[n] = "idle"
  BY IdleBeforeDispatch
<1>2. CoroutinesAreDispatched' /\ HandIsOfStatement'
  BY <1>1 DEF CoroutinesAreDispatched, HandIsOfStatement
<1> QED
  BY <1>2 DEF ProcessInv

\* Pinning writes an epoch on an edge, or leaves the edge missing.
LEMMA EdgeTypes ==
    ASSUME GraphInv, ProcessInv, NEW n \in Node
    PROVE  /\ RepinEdges(n) => pin' \in [Child -> Nat \cup {NoEdge}]
           /\ EnsureEdge(n) => pin' \in [Child -> Nat \cup {NoEdge}]
BY DEF GraphInv, ProcessInv, RepinEdges, EnsureEdge, Node

\* A proof the plan carries for a child is a proof of the plan's statement of it.
LEMMA PlanProofTypes ==
    ASSUME ProcessInv, NEW c \in Stated(plan), NEW p \in PlanProof(c)
    PROVE  plan[c].stmt \in Stmt /\ p \in Proof /\ p # NoProof /\ p.of = plan[c].stmt
<1>1. plan \in Plan
  BY DEF ProcessInv
<1>2. plan[c].stmt \in Stmt
  BY <1>1 DEF Plan, Stated, Node
<1>3. \A d \in Child : plan[d].stmt \in Stmt \cup {NoStmt}
  BY <1>1 DEF Plan, Node
<1>4. PICK S \in SUBSET {d \in Stated(plan) : Before(d, c)} :
        p = [of |-> plan[c].stmt,
             uses |-> [d \in Child |-> IF d \in S THEN plan[d].stmt ELSE NoStmt]]
  BY DEF PlanProof
<1>5. p \in Proof
  BY <1>2, <1>3, <1>4 DEF Proof
<1> QED
  BY <1>2, <1>4, <1>5, NoProofAssumption

\* A proof the gate accepts for a node is a proof of the node's statement.
LEMMA GatedProofTypes ==
    ASSUME GraphInv, NEW n \in Node, Present(n), NEW p \in GatedProof(n)
    PROVE  p \in Proof /\ p # NoProof /\ p.of = stmt[n]
<1>1. stmt[n] \in Stmt /\ \A d \in Child : stmt[d] \in Stmt \cup {NoStmt}
  BY DEF GraphInv, StatedOncePresent, Node
<1>2. PICK S \in SUBSET Citable(n) :
        p = [of |-> stmt[n],
             uses |-> [c \in Child |-> IF c \in S THEN stmt[c] ELSE NoStmt]]
  BY DEF GatedProof
<1>3. p \in Proof
  BY <1>1, <1>2 DEF Proof
<1> QED
  BY <1>2, <1>3, NoProofAssumption

\* Between two writes on a child, its statement stays the one the plan gives it.
LEMMA InsideChild ==
    ASSUME ProcessInv, phase = "reconcile", NEW c \in Child, Turn(c),
           UNCHANGED <<todo, phase, plan>>, Present(c)', stmt'[c] = plan[c].stmt,
           \/ step' \in {"edge", "take"}
           \/ step' = "record" /\ taken' # NoProof /\ taken'.of = stmt'[c]
    PROVE  ReconciledSoFar' /\ LoopsVisitNodes'
<1>1. \A d \in todo : Turn(d)' => d = c
  <2> SUFFICES ASSUME NEW d \in todo, Turn(d)'
               PROVE  d = c
    OBVIOUS
  <2>1. Turn(d)
    BY DEF Turn
  <2> QED
    BY <2>1, TurnUnique DEF ProcessInv, Node
<1>2. todo \subseteq Stated(plan)
  BY DEF ProcessInv, ReconciledSoFar
<1>3. Stated(plan)' = Stated(plan)
  BY DEF Stated
<1> QED
  BY <1>1, <1>2, <1>3 DEF ReconciledSoFar, LoopsVisitNodes

\* Going on to the next node leaves a loop with fewer nodes, all of them known.
LEMMA NextInLoop ==
    ASSUME ProcessInv, NEW n, NextNode(n), UNCHANGED <<phase, plan>>,
           \A m \in Node : Present(m) => Present(m)'
    PROVE  ReconciledSoFar' /\ LoopsVisitNodes' /\ todo' \subseteq Node
<1>1. todo' \subseteq todo /\ step' = "look" /\ Stated(plan)' = Stated(plan)
  BY DEF NextNode, Stated
<1> QED
  BY <1>1 DEF ProcessInv, ReconciledSoFar, LoopsVisitNodes

-----------------------------------------------------------------------------
(* The actions, phase by phase *)

\* A new process, with the plan as the user left it.
LEMMA StartKeeps ==
    ASSUME IInv, StartRun
    PROVE  IInv' /\ LedgerStep
<1>1. GraphInv' /\ SameNodes /\ LedgerStep
  BY GraphUnchanged DEF IInv, StartRun, graph
<1>2. plan' \in Plan /\ plan'[Root].stmt \in Stmt
  <2>1. CASE plan' \in FirstPlans
    BY <2>1, PlanAssumption
  <2>2. CASE UNCHANGED plan
    BY <2>2 DEF IInv, ProcessInv
  <2>3. CASE plan' \in Plan /\ Edit(plan, plan')
    BY <2>3 DEF IInv, ProcessInv, Edit, Node
  <2> QED
    BY <2>1, <2>2, <2>3 DEF StartRun
<1>3. /\ phase = "down" /\ phase' = "root" /\ todo' = {Root} /\ step' = "look"
      /\ runs' \in 0..MaxRuns /\ ending' = "none" /\ UNCHANGED <<pin, where, taken>>
  BY BoundAssumption DEF IInv, ProcessInv, StartRun, Enter, graph
<1>4. \A n \in Node : where'[n] = "idle"
  BY <1>3, IdleBeforeDispatch DEF IInv
<1>5. ProcessInv'
  BY <1>2, <1>3, <1>4 DEF IInv, ProcessInv, Phase, Step, Ending, Node,
       CoroutinesAreDispatched, HandIsOfStatement, ReconciledSoFar, LoopsVisitNodes
<1> QED
  BY <1>1, <1>5 DEF IInv

\* _ensure_root adds the root, restates it or leaves it.
LEMMA RootKeeps ==
    ASSUME IInv, EnsureRoot
    PROVE  IInv' /\ LedgerStep
<1>1. GraphInv /\ ProcessInv /\ Root \in Node /\ plan[Root].stmt \in Stmt /\ phase = "root"
  BY DEF IInv, ProcessInv, EnsureRoot, At, Node
<1>2. GraphInv' /\ LedgerStep /\ \A m \in Node : Present(m) => Present(m)'
  <2>1. CASE ~Present(Root) /\ AddNode(Root, plan[Root].stmt, "open", NoProof)
    BY <1>1, <2>1, AddNodeKeeps DEF EnsureRoot
  <2>2. CASE Present(Root) /\ stmt[Root] # plan[Root].stmt /\ Restate(Root, plan[Root].stmt)
    BY <1>1, <2>2, RestateKeeps DEF EnsureRoot, SameNodes
  <2>3. CASE UNCHANGED <<status, epoch, stmt, body>>
    BY <1>1, <2>3, GraphUnchanged DEF EnsureRoot, SameNodes
  <2> QED
    BY <2>1, <2>2, <2>3 DEF EnsureRoot
<1>3. /\ phase' = "reconcile" /\ todo' = Stated(plan) /\ step' = "look"
      /\ UNCHANGED <<pin, plan, where, taken, ending, runs>>
  BY DEF EnsureRoot, Enter
<1>4. ReconciledSoFar' /\ LoopsVisitNodes' /\ todo' \subseteq Node
  BY <1>3 DEF ReconciledSoFar, LoopsVisitNodes, Stated, Node
<1>5. ProcessInv'
  BY <1>1, <1>2, <1>3, <1>4, LoopKeeps DEF Phase, Step, ProcessInv
<1> QED
  BY <1>2, <1>5 DEF IInv

\* Every write of the reconciliation of a child, and every way out of it.
LEMMA ReconcileKeeps ==
    ASSUME IInv, NEW c \in Child, ReconcileStep(c)
    PROVE  IInv' /\ LedgerStep
<1>1. GraphInv /\ ProcessInv /\ c \in Node
  BY DEF IInv, Node
<1> DEFINE Inside == /\ phase = "reconcile" /\ Turn(c) /\ c \in Stated(plan)
                     /\ plan[c].stmt \in Stmt
           Kept == GraphInv' /\ LedgerStep /\ \A m \in Node : Present(m) => Present(m)'
<1>2. ASSUME NEW st, At("reconcile", st, c)
      PROVE  Inside
  BY <1>1, <1>2 DEF At, Turn, ProcessInv, ReconciledSoFar, Stated, Plan
<1>3. ASSUME Inside, Kept, GoTo(step'), Present(c)', stmt'[c] = plan[c].stmt,
             \/ step' \in {"edge", "take"}
             \/ step' = "record" /\ taken' # NoProof /\ taken'.of = stmt'[c],
             taken' \in Proof \cup {NoProof}, pin' \in [Child -> Nat \cup {NoEdge}],
             UNCHANGED <<plan, phase, where, ending, runs>>
      PROVE  IInv' /\ LedgerStep
  <2>1. UNCHANGED todo
    BY <1>3 DEF GoTo
  <2>2. ReconciledSoFar' /\ LoopsVisitNodes'
    BY <1>1, <1>3, <2>1, InsideChild
  <2>3. phase' \in Phase \ {"dispatch", "integrate"} /\ step' \in Step /\ todo' \subseteq Node
    BY <1>1, <1>3, <2>1 DEF Phase, Step, ProcessInv
  <2>4. ProcessInv'
    BY <1>1, <1>3, <2>2, <2>3, LoopKeeps
  <2> QED
    BY <1>3, <2>4 DEF IInv
<1>4. ASSUME phase \in {"reconcile", "retire"}, Kept, NextNode(c),
             taken' \in Proof \cup {NoProof},
             UNCHANGED <<pin, plan, phase, where, ending, runs>>
      PROVE  IInv' /\ LedgerStep
  <2>1. ReconciledSoFar' /\ LoopsVisitNodes' /\ todo' \subseteq Node
    BY <1>1, <1>4, NextInLoop
  <2>2. phase' \in Phase \ {"dispatch", "integrate"} /\ step' \in Step
    BY <1>4 DEF Phase, Step, NextNode
  <2>3. ProcessInv'
    BY <1>1, <1>4, <2>1, <2>2, LoopKeeps DEF ProcessInv
  <2> QED
    BY <1>4, <2>3 DEF IInv
<1>5. ASSUME AddChild(c)
      PROVE  IInv' /\ LedgerStep
  <2>1. Inside
    BY <1>2, <1>5 DEF AddChild
  <2>2. PICK new, p : /\ \/ new = "open" /\ p = NoProof
                         \/ new = "gated" /\ p \in Proof /\ p.of = plan[c].stmt
                      /\ AddNode(c, plan[c].stmt, new, p)
    BY <1>1, <1>5, <2>1, PlanProofTypes DEF AddChild
  <2>3. GraphInv' /\ LedgerStep /\ \A m \in Node : Present(m)' <=> Present(m) \/ m = c
    BY <1>1, <1>5, <2>1, <2>2, AddNodeKeeps DEF AddChild
  <2>4. stmt'[c] = plan[c].stmt
    BY <1>1, <2>2 DEF AddNode, GraphInv
  <2> QED
    BY <1>1, <1>3, <1>5, <2>1, <2>3, <2>4 DEF AddChild, GoTo, ProcessInv
<1>6. ASSUME RestateChild(c)
      PROVE  IInv' /\ LedgerStep
  <2>1. Inside
    BY <1>2, <1>6 DEF RestateChild
  <2>2. GraphInv' /\ SameNodes /\ LedgerStep
    BY <1>1, <1>6, <2>1, RestateKeeps DEF RestateChild
  <2>3. stmt'[c] = plan[c].stmt /\ Present(c)'
    BY <1>1, <1>6, <2>2 DEF RestateChild, Restate, GraphInv, SameNodes
  <2> QED
    BY <1>1, <1>3, <1>6, <2>1, <2>2, <2>3 DEF RestateChild, GoTo, ProcessInv, SameNodes
<1>7. ASSUME NEW st \in {"edge", "take", "record"}, At("reconcile", st, c)
      PROVE  /\ Present(c) /\ stmt[c] = plan[c].stmt
             /\ st = "record" => taken # NoProof /\ taken.of = stmt[c]
  BY <1>1, <1>7 DEF At, Turn, ProcessInv, ReconciledSoFar
<1>8. ASSUME DemandEdge(c)
      PROVE  IInv' /\ LedgerStep
  <2>1. Inside /\ Present(c) /\ stmt[c] = plan[c].stmt
    BY <1>2, <1>7, <1>8 DEF DemandEdge
  <2>2. GraphInv' /\ SameNodes /\ LedgerStep
    BY <1>1, <1>8, GraphUnchanged DEF DemandEdge
  <2>3. pin' \in [Child -> Nat \cup {NoEdge}]
    BY <1>1, <1>8, EdgeTypes DEF DemandEdge
  <2> QED
    BY <1>1, <1>3, <1>8, <2>1, <2>2, <2>3 DEF DemandEdge, GoTo, ProcessInv, SameNodes
<1>9. ASSUME KeepChild(c)
      PROVE  IInv' /\ LedgerStep
  <2>1. Inside /\ Present(c) /\ stmt[c] = plan[c].stmt
    BY <1>2, <1>9 DEF KeepChild
  <2>2. GraphInv' /\ SameNodes /\ LedgerStep
    <3>1. CASE status[c] = "attic"
      BY <1>1, <1>9, <2>1, <3>1, SetStatusKeeps DEF KeepChild
    <3>2. CASE status[c] # "attic"
      BY <1>1, <1>9, <3>2, GraphUnchanged DEF KeepChild
    <3> QED
      BY <3>1, <3>2
  <2> QED
    BY <1>1, <1>3, <1>9, <2>1, <2>2 DEF KeepChild, GoTo, ProcessInv, SameNodes
<1>10. ASSUME TakePlanProof(c)
       PROVE  IInv' /\ LedgerStep
  <2>1. Inside /\ Present(c) /\ stmt[c] = plan[c].stmt
    BY <1>2, <1>7, <1>10 DEF TakePlanProof
  <2>2. GraphInv' /\ SameNodes /\ LedgerStep
    <3>1. CASE status[c] = "open"
      BY <1>1, <1>10, <2>1, <3>1, SetStatusKeeps DEF TakePlanProof
    <3>2. CASE status[c] # "open"
      BY <1>1, <1>10, <3>2, GraphUnchanged DEF TakePlanProof
    <3> QED
      BY <3>1, <3>2
  <2>3. taken' \in Proof /\ taken' # NoProof /\ taken'.of = plan[c].stmt
    BY <1>1, <1>10, <2>1, PlanProofTypes DEF TakePlanProof
  <2> QED
    BY <1>1, <1>3, <1>10, <2>1, <2>2, <2>3 DEF TakePlanProof, GoTo, ProcessInv, SameNodes
<1>11. ASSUME RecordPlanProof(c)
       PROVE  IInv' /\ LedgerStep
  <2>1. /\ Inside /\ Present(c)
        /\ taken # NoProof /\ taken.of = stmt[c]
    BY <1>2, <1>7, <1>11 DEF RecordPlanProof
  <2>2. GraphInv' /\ SameNodes /\ LedgerStep
    BY <1>1, <1>11, <2>1, RecordProofKeeps DEF RecordPlanProof, ProcessInv
  <2> QED
    BY <1>4, <1>11, <2>1, <2>2 DEF RecordPlanProof, SameNodes
<1>12. ASSUME NoPlanProof(c)
       PROVE  IInv' /\ LedgerStep
  <2>1. Inside
    BY <1>2, <1>12 DEF NoPlanProof
  <2>2. GraphInv' /\ SameNodes /\ LedgerStep
    BY <1>1, <1>12, GraphUnchanged DEF NoPlanProof, graph
  <2> QED
    BY <1>1, <1>4, <1>12, <2>1, <2>2 DEF NoPlanProof, SameNodes, ProcessInv, graph
<1>13. ASSUME RetireDropped(c)
       PROVE  IInv' /\ LedgerStep
  <2>1. phase = "retire" /\ Present(c)
    BY <1>1, <1>13 DEF RetireDropped, At, Turn, ProcessInv, LoopsVisitNodes
  <2>2. GraphInv' /\ SameNodes /\ LedgerStep
    BY <1>1, <1>13, <2>1, SetStatusKeeps DEF RetireDropped
  <2> QED
    BY <1>1, <1>4, <1>13, <2>1, <2>2 DEF RetireDropped, SameNodes, ProcessInv
<1>14. PlanProofRefused(c) \/ PlanProofRejected(c) => IInv' /\ LedgerStep
  BY ExitKeeps DEF PlanProofRefused, PlanProofRejected, Ending
<1> QED
  BY <1>5, <1>6, <1>8, <1>9, <1>10, <1>11, <1>12, <1>13, <1>14 DEF ReconcileStep

\* The steps between two phases: the next loop visits nodes the graph has.
LEMMA PhaseKeeps ==
    ASSUME IInv, Reconciled \/ Retired \/ Resumed
    PROVE  IInv' /\ LedgerStep
<1>1. GraphInv /\ ProcessInv
  BY DEF IInv
<1>2. CASE Exit("usage")
  BY <1>2, ExitKeeps DEF Ending
<1>3. CASE /\ phase \in {"reconcile", "retire", "resume"}
           /\ phase' \in {"retire", "resume", "revalidate"} /\ step' = "look"
           /\ todo' \subseteq Node /\ \A n \in todo' : Present(n)
           /\ UNCHANGED <<graph, plan, where, taken, ending, runs>>
  <2>1. GraphInv' /\ SameNodes /\ LedgerStep
    BY <1>1, <1>3, GraphUnchanged DEF graph
  <2>2. ReconciledSoFar' /\ LoopsVisitNodes'
    BY <1>3, <2>1 DEF ReconciledSoFar, LoopsVisitNodes, SameNodes
  <2>3. ProcessInv'
    BY <1>1, <1>3, <2>1, <2>2, LoopKeeps DEF ProcessInv, Phase, Step, SameNodes, graph
  <2> QED
    BY <2>1, <2>3 DEF IInv
<1> QED
  BY <1>2, <1>3 DEF Reconciled, Retired, Resumed, Enter, LiveChild, Node, Present

\* A step of the resume or of the revalidation loop on a node.
LEMMA LoopStepKeeps ==
    ASSUME IInv, phase \in {"resume", "revalidate"}, NEW n \in Node,
           GraphInv', SameNodes, LedgerStep,
           NextNode(n) \/ (GoTo(step') /\ step' \in Step),
           pin' \in [Child -> Nat \cup {NoEdge}],
           UNCHANGED <<plan, phase, where, taken, ending, runs>>
    PROVE  IInv' /\ LedgerStep
<1>1. todo' \subseteq todo /\ step' \in Step
  BY DEF NextNode, GoTo, Step
<1>2. ReconciledSoFar' /\ LoopsVisitNodes' /\ todo' \subseteq Node
  BY <1>1 DEF IInv, ProcessInv, ReconciledSoFar, LoopsVisitNodes, SameNodes
<1>3. ProcessInv'
  BY <1>1, <1>2, LoopKeeps DEF IInv, ProcessInv, Phase, SameNodes
<1> QED
  BY <1>3 DEF IInv

\* resume_incomplete: what it salvages is a proof of the node's present statement.
LEMMA ResumeKeeps ==
    ASSUME IInv, NEW n \in Node, ResumeStep(n)
    PROVE  IInv' /\ LedgerStep
<1>1. GraphInv /\ ProcessInv /\ pin \in [Child -> Nat \cup {NoEdge}]
  BY DEF IInv, ProcessInv
<1>2. phase = "resume" /\ Present(n)
  BY <1>1 DEF ResumeStep, Salvage, SalvageRepin, SalvageClose, CloseInterrupted,
       ReopenInterrupted, ReopenStuck, LeaveAlone, At, Turn, ProcessInv, LoopsVisitNodes
<1>3. ASSUME Salvage(n)
      PROVE  IInv' /\ LedgerStep
  <2>1. PICK i \in GatedRows(n) : RecordProof(n, rows[n][i].proof)
    BY <1>3 DEF Salvage
  <2>2. rows[n][i].proof \in Proof /\ rows[n][i].proof.of = stmt[n]
    BY <1>1, <2>1, RowEpochs DEF GatedRows, Row, GraphInv, RowsKeepTheirEpoch
  <2>3. GraphInv' /\ SameNodes /\ LedgerStep
    BY <1>1, <1>2, <1>3, <2>1, <2>2, RecordProofKeeps DEF Salvage
  <2> QED
    BY <1>1, <1>2, <1>3, <2>3, LoopStepKeeps DEF Salvage, GoTo, Step
<1>4. ASSUME SalvageRepin(n)
      PROVE  IInv' /\ LedgerStep
  <2>1. GraphInv' /\ SameNodes /\ LedgerStep
    BY <1>1, <1>4, GraphUnchanged DEF SalvageRepin
  <2>2. pin' \in [Child -> Nat \cup {NoEdge}]
    BY <1>1, <1>4, EdgeTypes DEF SalvageRepin
  <2> QED
    BY <1>2, <1>4, <2>1, <2>2, LoopStepKeeps DEF SalvageRepin, GoTo, Step
<1>5. ASSUME CloseClaimedRows(n), SalvageClose(n) \/ CloseInterrupted(n)
      PROVE  IInv' /\ LedgerStep
  <2>1. GraphInv' /\ SameNodes /\ LedgerStep
    BY <1>1, <1>2, <1>5, CloseRowsKeeps DEF SalvageClose, CloseInterrupted
  <2> QED
    BY <1>1, <1>2, <1>5, <2>1, LoopStepKeeps DEF SalvageClose, CloseInterrupted, GoTo, Step
<1>6. ASSUME SetStatus(n, "open", FALSE), ReopenInterrupted(n) \/ ReopenStuck(n)
      PROVE  IInv' /\ LedgerStep
  <2>1. GraphInv' /\ SameNodes /\ LedgerStep
    BY <1>1, <1>2, <1>6, SetStatusKeeps DEF ReopenInterrupted, ReopenStuck
  <2> QED
    BY <1>1, <1>2, <1>6, <2>1, LoopStepKeeps DEF ReopenInterrupted, ReopenStuck
<1>7. ASSUME LeaveAlone(n)
      PROVE  IInv' /\ LedgerStep
  <2>1. GraphInv' /\ SameNodes /\ LedgerStep
    BY <1>1, <1>7, GraphUnchanged DEF LeaveAlone, graph
  <2> QED
    BY <1>1, <1>2, <1>7, <2>1, LoopStepKeeps DEF LeaveAlone, graph
<1> QED
  BY <1>3, <1>4, <1>5, <1>6, <1>7
     DEF ResumeStep, SalvageClose, CloseInterrupted, ReopenInterrupted, ReopenStuck

\* A proof that has been replayed is a proof of its node's statement.
LEMMA ReplayedTypes ==
    ASSUME GraphInv, NEW n \in Node, Present(n), body[n] # NoProof
    PROVE  Replayed(n) \in Proof /\ Replayed(n) # NoProof /\ Replayed(n).of = stmt[n]
<1>1. stmt[n] \in Stmt /\ \A d \in Child : stmt[d] \in Stmt \cup {NoStmt}
  BY DEF GraphInv, StatedOncePresent, Node
<1>2. Replayed(n) \in Proof
  BY <1>1 DEF Replayed, Proof
<1> QED
  BY <1>2, NoProofAssumption DEF Replayed

\* revalidate: a proof is replayed against the present statements, or goes.
LEMMA RevalidateKeeps ==
    ASSUME IInv, NEW n \in Node, RevalidateStep(n)
    PROVE  IInv' /\ LedgerStep
<1>1. GraphInv /\ ProcessInv /\ pin \in [Child -> Nat \cup {NoEdge}]
  BY DEF IInv, ProcessInv
<1>2. phase = "revalidate" /\ Present(n)
  BY <1>1 DEF RevalidateStep, ReplayHolds, ReplayRepin, ReplayFails, ReplayCannotRun,
       NothingToReplay, At, Turn, ProcessInv, LoopsVisitNodes
<1>3. ASSUME ReplayHolds(n)
      PROVE  IInv' /\ LedgerStep
  <2>1. Proved(n) /\ body[n] # NoProof /\ body[n].of = stmt[n]
    BY <1>1, <1>3 DEF ReplayHolds, GraphInv, BodyIsOfStatement
  <2>2. Replayed(n) \in Proof /\ Replayed(n) # NoProof /\ Replayed(n).of = stmt[n]
    BY <1>1, <1>2, <2>1, ReplayedTypes
  <2>3. body' = [body EXCEPT ![n] = Replayed(n)] /\ UNCHANGED <<status, epoch, stmt, rows>>
    BY <1>3 DEF ReplayHolds
  <2>4. GraphInv' /\ SameNodes
    BY <1>1, <2>1, <2>2, <2>3 DEF GraphInv, BodyIsOfStatement, StatedOncePresent,
         RowsKeepTheirEpoch, Proved, Present, SameNodes
  <2>5. UNCHANGED Ledger!ledger
    BY <1>1, <2>1, <2>2, <2>3 DEF Ledger!ledger, Proved, GraphInv
  <2> QED
    BY <1>1, <1>2, <1>3, <2>4, <2>5, LoopStepKeeps DEF LedgerStep, ReplayHolds, GoTo, Step
<1>4. ASSUME ReplayRepin(n)
      PROVE  IInv' /\ LedgerStep
  <2>1. GraphInv' /\ SameNodes /\ LedgerStep
    BY <1>1, <1>4, GraphUnchanged DEF ReplayRepin
  <2>2. pin' \in [Child -> Nat \cup {NoEdge}]
    BY <1>1, <1>4, EdgeTypes DEF ReplayRepin
  <2> QED
    BY <1>2, <1>4, <2>1, <2>2, LoopStepKeeps DEF ReplayRepin
<1>5. ASSUME ReplayFails(n)
      PROVE  IInv' /\ LedgerStep
  <2>1. GraphInv' /\ SameNodes /\ LedgerStep
    BY <1>1, <1>2, <1>5, SetStatusKeeps DEF ReplayFails
  <2> QED
    BY <1>1, <1>2, <1>5, <2>1, LoopStepKeeps DEF ReplayFails
<1>6. ASSUME ReplayCannotRun(n)
      PROVE  IInv' /\ LedgerStep
  BY <1>6, ExitKeeps DEF ReplayCannotRun, Ending
<1>7. ASSUME NothingToReplay(n)
      PROVE  IInv' /\ LedgerStep
  <2>1. GraphInv' /\ SameNodes /\ LedgerStep
    BY <1>1, <1>7, GraphUnchanged DEF NothingToReplay, graph
  <2> QED
    BY <1>1, <1>2, <1>7, <2>1, LoopStepKeeps DEF NothingToReplay, graph
<1> QED
  BY <1>3, <1>4, <1>5, <1>6, <1>7 DEF RevalidateStep

\* run_node: every write of a coroutine, whatever the others did in between.
LEMMA NodeKeeps ==
    ASSUME IInv, NEW n \in Node, NodeStep(n)
    PROVE  IInv' /\ LedgerStep
<1>1. GraphInv /\ ProcessInv /\ pin \in [Child -> Nat \cup {NoEdge}] /\ taken \in Proof \cup {NoProof}
  BY DEF IInv, ProcessInv
<1>2. PICK at \in Where \ {"idle"} : InDispatch(n, at)
  BY DEF NodeStep, BeginNode, GiveUp, ClaimNode, StartAttempt, AttemptProved,
       AttemptUnproved, RecordNode, RepinNode, RetryNode, ContestNode, LeaveOpen,
       ParkNode, Where
<1>3. phase = "dispatch" /\ Present(n) /\ \A m \in Node \ {n} : where[m] # "accepted"
  BY <1>1, <1>2 DEF InDispatch, Scheduled, Busy, ProcessInv, CoroutinesAreDispatched
<1>4. ASSUME GraphInv', SameNodes, LedgerStep, NEW to \in Where, Becomes(n, to),
             taken' \in Proof \cup {NoProof},
             to = "accepted" => taken' # NoProof /\ taken'.of = stmt[n],
             pin' \in [Child -> Nat \cup {NoEdge}],
             UNCHANGED <<stmt, plan, phase, todo, step, ending, runs>>
      PROVE  IInv' /\ LedgerStep
  <2>1. where' = [where EXCEPT ![n] = to]
    BY <1>4 DEF Becomes
  <2>2. ProcessInv'
    BY <1>1, <1>3, <1>4, <2>1, CoroutineKeeps
  <2> QED
    BY <1>4, <2>2 DEF IInv
<1>5. ASSUME BeginNode(n) \/ GiveUp(n) \/ RetryNode(n)
      PROVE  IInv' /\ LedgerStep
  <2>1. PICK to \in {"parking", "ready"} : Becomes(n, to)
    BY <1>5 DEF BeginNode, GiveUp, RetryNode
  <2>2. UNCHANGED <<graph, plan, phase, todo, step, taken, ending, runs>>
    BY <1>5 DEF BeginNode, GiveUp, RetryNode
  <2>3. GraphInv' /\ SameNodes /\ LedgerStep
    BY <1>1, <2>2, GraphUnchanged DEF graph
  <2> QED
    BY <1>1, <1>4, <2>1, <2>2, <2>3 DEF graph, Where
<1>6. ASSUME ClaimNode(n)
      PROVE  IInv' /\ LedgerStep
  <2>1. GraphInv' /\ SameNodes /\ LedgerStep
    BY <1>1, <1>3, <1>6, SetStatusKeeps DEF ClaimNode
  <2> QED
    BY <1>1, <1>4, <1>6, <2>1 DEF ClaimNode, Where
<1>7. ASSUME StartAttempt(n)
      PROVE  IInv' /\ LedgerStep
  <2>1. GraphInv' /\ SameNodes /\ LedgerStep
    BY <1>1, <1>3, <1>7, StartRowKeeps DEF StartAttempt
  <2> QED
    BY <1>1, <1>4, <1>7, <2>1 DEF StartAttempt, Where
<1>8. ASSUME AttemptProved(n)
      PROVE  IInv' /\ LedgerStep
  <2>1. PICK p \in GatedProof(n) : FinishRow(n, "qed", p) /\ taken' = p
    BY <1>8 DEF AttemptProved
  <2>2. p \in Proof /\ p # NoProof /\ p.of = stmt[n]
    BY <1>1, <1>3, GatedProofTypes
  <2>3. GraphInv' /\ SameNodes /\ LedgerStep
    BY <1>1, <1>3, <1>8, <2>1, <2>2, FinishRowKeeps DEF AttemptProved, RowStatus
  <2> QED
    BY <1>1, <1>4, <1>8, <2>1, <2>2, <2>3 DEF AttemptProved, Where
<1>9. ASSUME AttemptUnproved(n)
      PROVE  IInv' /\ LedgerStep
  <2>1. PICK o \in Unproved : FinishRow(n, o[1], NoProof) /\ Becomes(n, o[2])
    BY <1>9 DEF AttemptUnproved
  <2>2. o[1] \in RowStatus /\ o[2] \in Where \ {"accepted"}
    BY <2>1 DEF Unproved, RowStatus, Where
  <2>3. GraphInv' /\ SameNodes /\ LedgerStep
    BY <1>1, <1>3, <1>9, <2>1, <2>2, FinishRowKeeps DEF AttemptUnproved
  <2> QED
    BY <1>1, <1>4, <1>9, <2>1, <2>2, <2>3 DEF AttemptUnproved
<1>10. ASSUME RecordNode(n)
       PROVE  IInv' /\ LedgerStep
  <2>1. taken \in Proof /\ taken.of = stmt[n]
    BY <1>1, <1>10 DEF RecordNode, InDispatch, ProcessInv, HandIsOfStatement
  <2>2. GraphInv' /\ SameNodes /\ LedgerStep
    BY <1>1, <1>3, <1>10, <2>1, RecordProofKeeps DEF RecordNode
  <2> QED
    BY <1>1, <1>4, <1>10, <2>2 DEF RecordNode, Where
<1>11. ASSUME RepinNode(n)
       PROVE  IInv' /\ LedgerStep
  <2>1. GraphInv' /\ SameNodes /\ LedgerStep
    BY <1>1, <1>11, GraphUnchanged DEF RepinNode
  <2>2. pin' \in [Child -> Nat \cup {NoEdge}]
    BY <1>1, <1>11, EdgeTypes DEF RepinNode
  <2> QED
    BY <1>1, <1>4, <1>11, <2>1, <2>2 DEF RepinNode, Where
<1>12. ASSUME ContestNode(n) \/ LeaveOpen(n) \/ ParkNode(n)
       PROVE  IInv' /\ LedgerStep
  <2>1. PICK new \in {"contested", "open", "claimed", "stuck"} : SetStatus(n, new, FALSE)
    BY <1>12 DEF ContestNode, LeaveOpen, ParkNode
  <2>2. UNCHANGED <<stmt, rows, pin, plan, phase, todo, step, taken, ending, runs>>
    BY <1>12 DEF ContestNode, LeaveOpen, ParkNode
  <2>3. GraphInv' /\ SameNodes /\ LedgerStep
    BY <1>1, <1>3, <2>1, <2>2, SetStatusKeeps
  <2>4. CASE Becomes(n, "done")
    BY <1>1, <1>4, <2>2, <2>3, <2>4 DEF Where
  <2>5. CASE ParkNode(n) /\ UNCHANGED where
    <3>1. where[n] = "parking" /\ Becomes(n, "parking")
      BY <1>1, <2>5 DEF ParkNode, InDispatch, Becomes, ProcessInv
    <3> QED
      BY <1>1, <1>4, <2>2, <2>3, <3>1 DEF Where
  <2> QED
    BY <1>12, <2>4, <2>5 DEF ContestNode, LeaveOpen, ParkNode
<1> QED
  BY <1>5, <1>6, <1>7, <1>8, <1>9, <1>10, <1>11, <1>12 DEF NodeStep

\* Into the dispatch, and out of it.
LEMMA DispatchKeeps ==
    ASSUME IInv, Dispatch \/ Dispatched
    PROVE  IInv' /\ LedgerStep
<1>1. GraphInv' /\ SameNodes /\ LedgerStep
  BY GraphUnchanged DEF IInv, Dispatch, Dispatched, graph
<1>2. /\ phase' \in {"dispatch", "integrate"} /\ todo' = {} /\ step' = "look"
      /\ UNCHANGED <<pin, plan, taken, ending, runs>>
  BY DEF Dispatch, Dispatched, Enter, graph
<1>3. CASE where' = [n \in Node |-> IF status[n] = "open" THEN "queued" ELSE "idle"]
  <2>1. \A n \in Node : where'[n] # "idle" => Present(n)'
    BY <1>1, <1>3 DEF SameNodes, Present
  <2>2. CoroutinesAreDispatched' /\ HandIsOfStatement'
    BY <1>2, <1>3, <2>1 DEF CoroutinesAreDispatched, HandIsOfStatement
  <2> QED
    BY <1>1, <1>2, <1>3, <2>2 DEF IInv, ProcessInv, Phase, Step, Where, ReconciledSoFar,
         LoopsVisitNodes
<1>4. CASE phase = "dispatch" /\ UNCHANGED where /\ \A n \in Node : where[n] \in Resting
  <2>1. CoroutinesAreDispatched' /\ HandIsOfStatement'
    BY <1>1, <1>2, <1>4 DEF IInv, ProcessInv, CoroutinesAreDispatched, HandIsOfStatement,
         SameNodes, Resting
  <2> QED
    BY <1>1, <1>2, <1>4, <2>1 DEF IInv, ProcessInv, Phase, Step, ReconciledSoFar,
         LoopsVisitNodes
<1> QED
  BY <1>3, <1>4 DEF Dispatch, Dispatched

\* The integrating transaction proves nothing new and withdraws nothing.
LEMMA IntegrateKeeps ==
    ASSUME IInv, Integrate
    PROVE  IInv' /\ LedgerStep
<1> DEFINE D == LiveChild \cup {Root}
<1>1. GraphInv /\ ProcessInv /\ D \subseteq Node
  BY DEF IInv, LiveChild, Node
<1>2. \A n \in D : Proved(n) /\ Present(n) /\ body[n] # NoProof
  BY DEF Integrate, Integrable, Proved, Present, ProvedStatus
<1>3. \A n \in D : Replayed(n) \in Proof /\ Replayed(n) # NoProof /\ Replayed(n).of = stmt[n]
  BY <1>1, <1>2, ReplayedTypes
<1>4. /\ status' = [n \in Node |-> IF n \in D THEN "integrated" ELSE status[n]]
      /\ body' = [n \in Node |-> IF n \in D THEN Replayed(n) ELSE body[n]]
      /\ UNCHANGED <<epoch, stmt, rows, pin, plan, taken, runs>>
  BY DEF Integrate
<1> HIDE DEF D
<1>5. \A n \in Node : (Proved(n)' <=> Proved(n)) /\ (Present(n)' <=> Present(n))
  BY <1>1, <1>2, <1>4 DEF Proved, Present, ProvedStatus
<1>6. GraphInv'
  <2>1. BodyIsOfStatement'
    <3> SUFFICES ASSUME NEW n \in Node
                 PROVE  IF Proved(n)' THEN body'[n] # NoProof /\ body'[n].of = stmt'[n]
                                      ELSE body'[n] = NoProof
      BY DEF BodyIsOfStatement
    <3>1. CASE n \in D
      <4>1. body'[n] = Replayed(n) /\ stmt'[n] = stmt[n]
        BY <1>4, <3>1
      <4> QED
        BY <1>2, <1>3, <1>5, <3>1, <4>1
    <3>2. CASE n \notin D
      <4>1. body'[n] = body[n] /\ stmt'[n] = stmt[n]
        BY <1>4, <3>2
      <4> QED
        BY <1>1, <1>5, <4>1 DEF GraphInv, BodyIsOfStatement
    <3> QED
      BY <3>1, <3>2
  <2>2. StatedOncePresent' /\ RowsKeepTheirEpoch'
    BY <1>1, <1>4, <1>5 DEF GraphInv, StatedOncePresent, RowsKeepTheirEpoch
  <2> QED
    BY <1>1, <1>3, <1>4, <2>1, <2>2 DEF GraphInv, ProofStatus
<1>7. UNCHANGED Ledger!ledger
  <2>1. \A n \in Node : Proved(n) => body'[n].of = body[n].of
    BY <1>1, <1>3, <1>4 DEF GraphInv, BodyIsOfStatement
  <2> QED
    BY <1>4, <1>5, <2>1 DEF Ledger!ledger
<1>8. ProcessInv'
  BY <1>1, <1>4 DEF Integrate, Enter, ProcessInv, Phase, Step, Where, Ending,
       CoroutinesAreDispatched, HandIsOfStatement, ReconciledSoFar, LoopsVisitNodes
<1> QED
  BY <1>6, <1>7, <1>8 DEF IInv, LedgerStep

\* An empty graph, and no process.
LEMMA InitKeeps ==
    ASSUME Init
    PROVE  IInv /\ Ledger!Init
<1>1. \A p \in FirstPlans : p \in Plan /\ p[Root].stmt \in Stmt
  BY PlanAssumption
<1>2. \A n \in Node : ~Present(n) /\ ~Proved(n)
  BY DEF Init, Present, Proved, ProvedStatus
<1>3. GraphInv
  BY <1>2, EmptySeq DEF Init, GraphInv, BodyIsOfStatement, StatedOncePresent,
       RowsKeepTheirEpoch
<1>4. ProcessInv
  BY <1>1, BoundAssumption DEF Init, ProcessInv, Phase, Step, Where, Ending,
       CoroutinesAreDispatched, HandIsOfStatement, ReconciledSoFar, LoopsVisitNodes
<1>5. Ledger!Init
  BY <1>2 DEF Init, Ledger!Init
<1> QED
  BY <1>3, <1>4, <1>5 DEF IInv

\* Every step, kills and edits of the plan included, keeps the invariant and is a
\* step of the ledger or none.
LEMMA NextKeeps ==
    ASSUME IInv, [Next]_vars
    PROVE  IInv' /\ LedgerStep
<1>1. CASE StartRun
  BY <1>1, StartKeeps
<1>2. CASE Kill
  BY <1>2, ExitKeeps DEF Kill, Ending
<1>3. CASE EnsureRoot
  BY <1>3, RootKeeps
<1>4. CASE Reconciled \/ Retired \/ Resumed
  BY <1>4, PhaseKeeps
<1>5. CASE Dispatch \/ Dispatched
  BY <1>5, DispatchKeeps
<1>6. CASE Integrate
  BY <1>6, IntegrateKeeps
<1>7. CASE NotIntegrated
  BY <1>7, ExitKeeps DEF NotIntegrated, Ending
<1>8. CASE \E c \in Child : ReconcileStep(c)
  BY <1>8, ReconcileKeeps
<1>9. CASE \E n \in Node : ResumeStep(n) \/ RevalidateStep(n) \/ NodeStep(n)
  BY <1>9, ResumeKeeps, RevalidateKeeps, NodeKeeps
<1>10. CASE UNCHANGED vars
  <2>1. UNCHANGED <<status, epoch, stmt, body, rows>>
    BY <1>10 DEF vars, graph
  <2>2. GraphInv' /\ LedgerStep
    BY <2>1, GraphUnchanged DEF IInv
  <2>3. ProcessInv'
    BY <1>10 DEF vars, graph, process, IInv, ProcessInv, CoroutinesAreDispatched,
         HandIsOfStatement, ReconciledSoFar, LoopsVisitNodes, Stated, Turn, Before, Present
  <2> QED
    BY <2>2, <2>3 DEF IInv
<1> QED
  BY <1>1, <1>2, <1>3, <1>4, <1>5, <1>6, <1>7, <1>8, <1>9, <1>10
     DEF Next, Advance, Exhausted

-----------------------------------------------------------------------------
(* The theorems *)

\* The inductive invariant holds of every reachable state.
THEOREM Inductive == Spec => []IInv
<1>1. Init => IInv
  BY InitKeeps
<1>2. IInv /\ [Next]_vars => IInv'
  BY NextKeeps
<1> QED
  BY <1>1, <1>2, PTL DEF Spec

\* The tables and the process keep to their types, whatever the plan, the kills and
\* the edits.
THEOREM TypeCorrect == Spec => []TypeOK
<1>1. IInv => TypeOK
  BY DEF IInv, GraphInv, ProcessInv, TypeOK
<1> QED
  BY <1>1, Inductive, PTL

\* A proved node carries a proof the gate accepted for the statement it has now, and
\* no other node carries a body: the assertion in siblings_of never fires.
THEOREM BodiesAreOfStatements == Spec => []BodyIsOfStatement
<1>1. IInv => BodyIsOfStatement
  BY DEF IInv, GraphInv
<1> QED
  BY <1>1, Inductive, PTL

\* The processes implement the ledger: a proof is held only of the statement a node
\* has, and a restated or unproved node is a node at a new epoch.
THEOREM LedgerKept == Spec => KeepsLedger
<1>1. Init => Ledger!Init
  BY InitKeeps
<1>2. IInv /\ [Next]_vars => [Ledger!Next]_(Ledger!ledger)
  BY NextKeeps DEF LedgerStep
<1> QED
  BY <1>1, <1>2, Inductive, PTL DEF Spec, KeepsLedger, Ledger!Spec

-----------------------------------------------------------------------------
(* Contested nodes *)

ContestStep ==
    \A n \in Node : status[n] = "contested" /\ status'[n] # "contested" =>
        stmt'[n] # stmt[n] \/ status'[n] = "attic"

\* A status write that is not an adjudication leaves every contested node contested
\* or retires it.
LEMMA SetStatusContest ==
    ASSUME GraphInv, NEW n \in Node, NEW new, NEW human \in BOOLEAN,
           SetStatus(n, new, human), human => status[n] # "contested" \/ new = "attic"
    PROVE  ContestStep
BY DEF ContestStep, SetStatus, MayMove, Moves, HumanMoves, GraphInv

\* record_proof is refused on a contested node.
LEMMA RecordProofContest ==
    ASSUME GraphInv, NEW n \in Node, NEW p, RecordProof(n, p)
    PROVE  ContestStep
BY DEF ContestStep, RecordProof, MayMove, Moves, HumanMoves, GraphInv

\* Every step but the reconciliation's restatement and retirement leaves a contest
\* where it is.
LEMMA NextContest ==
    ASSUME IInv, Next
    PROVE  ContestStep
<1>1. GraphInv
  BY DEF IInv
<1>2. CASE UNCHANGED status
  BY <1>1, <1>2 DEF ContestStep
<1>3. ASSUME NEW how, Exit(how)
      PROVE  ContestStep
  BY <1>2, <1>3 DEF Exit, graph
<1>4. CASE StartRun \/ Kill \/ Reconciled \/ Retired \/ Resumed \/ Dispatch \/ Dispatched
           \/ NotIntegrated \/ Exhausted
  BY <1>2, <1>3, <1>4 DEF StartRun, Kill, Reconciled, Retired, Resumed, Dispatch,
       Dispatched, NotIntegrated, Exhausted, graph, vars
<1>5. CASE EnsureRoot
  BY <1>1, <1>2, <1>5 DEF EnsureRoot, AddNode, Restate, ContestStep, GraphInv, Present, Node
<1>6. CASE Integrate
  BY <1>1, <1>6 DEF Integrate, Integrable, Proved, ProvedStatus, ContestStep, GraphInv
<1>7. ASSUME NEW c \in Child, ReconcileStep(c)
      PROVE  ContestStep
  <2>1. c \in Node
    BY DEF Node
  <2>2. CASE AddChild(c)
    BY <1>1, <2>1, <2>2 DEF AddChild, AddNode, ContestStep, GraphInv, Present
  <2>3. CASE RestateChild(c)
    BY <1>1, <2>1, <2>3 DEF RestateChild, Restate, ContestStep, GraphInv
  <2>4. CASE KeepChild(c)
    BY <1>1, <1>2, <2>1, <2>4, SetStatusContest DEF KeepChild
  <2>5. CASE TakePlanProof(c)
    BY <1>1, <1>2, <2>1, <2>5, SetStatusContest DEF TakePlanProof
  <2>6. CASE RecordPlanProof(c)
    BY <1>1, <2>1, <2>6, RecordProofContest DEF RecordPlanProof
  <2>7. CASE RetireDropped(c)
    BY <1>1, <2>1, <2>7, SetStatusContest DEF RetireDropped
  <2>8. CASE DemandEdge(c) \/ NoPlanProof(c) \/ PlanProofRefused(c) \/ PlanProofRejected(c)
    BY <1>2, <1>3, <2>8 DEF DemandEdge, NoPlanProof, PlanProofRefused, PlanProofRejected, graph
  <2> QED
    BY <1>7, <2>2, <2>3, <2>4, <2>5, <2>6, <2>7, <2>8 DEF ReconcileStep
<1>8. ASSUME NEW n \in Node, ResumeStep(n) \/ RevalidateStep(n)
      PROVE  ContestStep
  <2>1. CASE Salvage(n)
    BY <1>1, <2>1, RecordProofContest DEF Salvage
  <2>2. CASE ReopenInterrupted(n) \/ ReopenStuck(n)
    BY <1>1, <2>2, SetStatusContest DEF ReopenInterrupted, ReopenStuck
  <2>3. CASE ReplayFails(n)
    BY <1>1, <2>3, SetStatusContest DEF ReplayFails, Proved, ProvedStatus
  <2>4. CASE UNCHANGED status
    BY <1>2, <2>4
  <2> QED
    BY <1>3, <1>8, <2>1, <2>2, <2>3, <2>4
       DEF ResumeStep, RevalidateStep, SalvageRepin, SalvageClose, CloseInterrupted,
           LeaveAlone, ReplayHolds, ReplayRepin, ReplayCannotRun, NothingToReplay, graph
<1>9. ASSUME NEW n \in Node, NodeStep(n)
      PROVE  ContestStep
  <2>1. CASE RecordNode(n)
    BY <1>1, <2>1, RecordProofContest DEF RecordNode
  <2>2. CASE ClaimNode(n) \/ ContestNode(n) \/ LeaveOpen(n) \/ ParkNode(n)
    BY <1>1, <2>2, SetStatusContest DEF ClaimNode, ContestNode, LeaveOpen, ParkNode
  <2>3. CASE UNCHANGED status
    BY <1>2, <2>3
  <2> QED
    BY <1>9, <2>1, <2>2, <2>3
       DEF NodeStep, BeginNode, GiveUp, StartAttempt, AttemptProved, AttemptUnproved,
           RepinNode, RetryNode, graph
<1> QED
  BY <1>4, <1>5, <1>6, <1>7, <1>8, <1>9 DEF Next, Advance

\* Only an edit of the plan takes a node out of its contest: no salvage, reopening,
\* replay, dispatch or integration does, whatever the interleaving.
THEOREM ContestsAreForTheHuman == Spec => ContestIsForTheHuman
<1>1. IInv /\ [Next]_vars => [ContestStep]_vars
  BY NextContest
<1> QED
  BY <1>1, Inductive, PTL DEF Spec, ContestIsForTheHuman, ContestStep

-----------------------------------------------------------------------------
(* Attempts charged, and proofs to salvage *)

\* The attempts charged to an epoch of a node.
ChargedAt(n, e) == {i \in DOMAIN rows[n] : rows[n][i].epoch = e /\ rows[n][i].status # "error"}

\* No epoch, past or to come, is charged more than the budget; a node that is claimed has
\* an attempt left, and one that is worked on is charged for it already.
BudgetInv ==
    /\ \A n \in Node : \A e \in Nat : Cardinality(ChargedAt(n, e)) <= MaxAttempts
    /\ \A n \in Node : \A e \in Nat :
        where[n] = "claimed" /\ epoch[n] = e => Cardinality(ChargedAt(n, e)) < MaxAttempts
    /\ \A n \in Node :
        where[n] = "working" => rows[n] # << >> /\ rows[n][Len(rows[n])].status = "claimed"

\* Attempts are counted among the rows of a node, which are finitely many.
LEMMA ChargedFinite ==
    ASSUME GraphInv, NEW n \in Node, NEW e
    PROVE  IsFiniteSet(ChargedAt(n, e)) /\ Cardinality(ChargedAt(n, e)) \in Nat
<1>1. rows[n] \in Seq(Row) /\ DOMAIN rows[n] = 1..Len(rows[n]) /\ Len(rows[n]) \in Nat
  BY LenProperties DEF GraphInv
<1> DEFINE k == Len(rows[n])
<1>2. k \in Int /\ 1 \in Int
  BY <1>1
<1> HIDE DEF k
<1>3. IsFiniteSet(1..k)
  BY <1>2, FS_Interval
<1>4. ChargedAt(n, e) \subseteq 1..k
  BY <1>1 DEF ChargedAt, k
<1> QED
  BY <1>3, <1>4, FS_Subset, FS_CardinalityType

\* Rows that stay are charged and salvaged as before; a new epoch has nothing to salvage.
LEMMA RowsStay ==
    ASSUME GraphInv, NEW n \in Node, rows'[n] = rows[n]
    PROVE  /\ \A e : ChargedAt(n, e)' = ChargedAt(n, e)
           /\ epoch'[n] = epoch[n] => (Salvageable(n)' <=> Salvageable(n))
           /\ epoch'[n] = epoch[n] + 1 => ~Salvageable(n)'
<1>1. \A i \in DOMAIN rows[n] : rows[n][i].epoch <= epoch[n] /\ rows[n][i].epoch \in Nat /\ epoch[n] \in Nat
  BY RowEpochs DEF GraphInv, RowsKeepTheirEpoch
<1>2. \A e : ChargedAt(n, e)' = ChargedAt(n, e)
  BY DEF ChargedAt
<1>3. ASSUME epoch'[n] = epoch[n] PROVE Salvageable(n)' <=> Salvageable(n)
  BY <1>3 DEF Salvageable, GatedRows
<1>4. ASSUME epoch'[n] = epoch[n] + 1 PROVE ~Salvageable(n)'
  BY <1>1, <1>4 DEF Salvageable, GatedRows
<1> QED
  BY <1>2, <1>3, <1>4

\* A status write gives nobody anything to salvage, and none to a node it takes out of a proof.
LEMMA SetStatusSalvage ==
    ASSUME GraphInv, NEW n \in Node, NEW new, NEW human, SetStatus(n, new, human), UNCHANGED rows
    PROVE  /\ \A m \in Node : m # n => status'[m] = status[m] /\ epoch'[m] = epoch[m]
           /\ status'[n] = new /\ (new # "open" => epoch'[n] = epoch[n])
           /\ \A m \in Node : Salvageable(m)' => Salvageable(m)
           /\ Proved(n) /\ new = "open" => ~Salvageable(n)'
<1>1. /\ status' = [status EXCEPT ![n] = new]
      /\ \/ Invalidates(status[n], new) /\ epoch' = [epoch EXCEPT ![n] = @ + 1]
         \/ ~Invalidates(status[n], new) /\ epoch' = epoch
  BY DEF SetStatus
<1>2. \A m \in Node : m # n => status'[m] = status[m] /\ epoch'[m] = epoch[m]
  BY <1>1 DEF GraphInv
<1>3. status'[n] = new /\ (epoch'[n] = epoch[n] \/ epoch'[n] = epoch[n] + 1)
      /\ (new # "open" => epoch'[n] = epoch[n])
      /\ (Proved(n) /\ new = "open" => epoch'[n] = epoch[n] + 1)
  BY <1>1 DEF GraphInv, Invalidates, Proved
<1> QED
  BY <1>2, <1>3, RowsStay

\* start_attempt charges its epoch one attempt, and salvages nothing.
LEMMA StartRowCharges ==
    ASSUME GraphInv, NEW n \in Node, StartRow(n), epoch' = epoch
    PROVE  /\ \A m \in Node : m # n => rows'[m] = rows[m]
           /\ \A e \in Nat : e # epoch[n] => ChargedAt(n, e)' = ChargedAt(n, e)
           /\ \A e \in Nat : e = epoch[n] => Cardinality(ChargedAt(n, e)') = Cardinality(ChargedAt(n, e)) + 1
           /\ Salvageable(n)' => Salvageable(n)
           /\ rows'[n] # << >> /\ rows'[n][Len(rows'[n])].status = "claimed"
<1> DEFINE r == [epoch |-> epoch[n], status |-> "claimed", proof |-> NoProof]
           t == Append(rows[n], r)
           k == Len(rows[n]) + 1
<1>1. r \in Row /\ rows[n] \in Seq(Row) /\ DOMAIN rows[n] = 1..Len(rows[n]) /\ Len(rows[n]) \in Nat
  BY LenProperties DEF GraphInv, Row, RowStatus
<1>2. rows'[n] = t /\ \A m \in Node : m # n => rows'[m] = rows[m]
  BY DEF StartRow, GraphInv
<1>3. /\ t \in Seq(Row) /\ Len(t) = k /\ DOMAIN t = 1..k /\ t[k] = r
      /\ \A i \in 1..Len(rows[n]) : t[i] = rows[n][i]
  BY <1>1, AppendProperties, LenProperties
<1>4. \A i \in 1..k : i \in 1..Len(rows[n]) \/ i = k
  BY <1>1
<1>5. 1..Len(rows[n]) \subseteq 1..k /\ k \in 1..k /\ k \notin 1..Len(rows[n])
  BY <1>1
<1>6. r.epoch = epoch[n] /\ r.status = "claimed" /\ r.proof = NoProof
  OBVIOUS
<1> HIDE DEF r, t, k
<1>7. \A e : ChargedAt(n, e)' = IF e = epoch[n] THEN ChargedAt(n, e) \cup {k} ELSE ChargedAt(n, e)
  <2>1. ASSUME NEW e, NEW i \in 1..k
        PROVE  i \in ChargedAt(n, e)' <=> i \in ChargedAt(n, e) \/ (i = k /\ e = epoch[n])
    BY <1>1, <1>2, <1>3, <1>4, <1>5, <1>6 DEF ChargedAt
  <2>2. \A e : ChargedAt(n, e)' \subseteq 1..k /\ ChargedAt(n, e) \subseteq 1..k
    BY <1>1, <1>2, <1>3, <1>5 DEF ChargedAt
  <2> QED
    BY <1>5, <2>1, <2>2
<1>8. ASSUME NEW e \in Nat, e = epoch[n]
      PROVE  Cardinality(ChargedAt(n, e)') = Cardinality(ChargedAt(n, e)) + 1
  <2>1. k \notin ChargedAt(n, e)
    BY <1>1, <1>5 DEF ChargedAt
  <2>2. Cardinality(ChargedAt(n, e) \cup {k}) = Cardinality(ChargedAt(n, e)) + 1
    BY <2>1, ChargedFinite, FS_AddElement
  <2>3. ChargedAt(n, e)' = ChargedAt(n, e) \cup {k}
    BY <1>7, <1>8
  <2> QED
    BY <2>2, <2>3
<1>9. Salvageable(n)' => Salvageable(n)
  BY <1>1, <1>2, <1>3, <1>4, <1>6 DEF Salvageable, GatedRows
<1>10. rows'[n] # << >> /\ rows'[n][Len(rows'[n])].status = "claimed"
  BY <1>2, <1>3, <1>5, <1>6
<1> QED
  BY <1>2, <1>7, <1>8, <1>9, <1>10

\* finish_attempt closes a row that was charged; one that is no qed salvages nothing.
LEMMA FinishRowCharges ==
    ASSUME GraphInv, NEW n \in Node, NEW o \in RowStatus, NEW p, FinishRow(n, o, p), epoch' = epoch,
           rows[n] # << >>, rows[n][Len(rows[n])].status = "claimed"
    PROVE  /\ \A m \in Node : m # n => rows'[m] = rows[m]
           /\ \A e : ChargedAt(n, e)' \subseteq ChargedAt(n, e)
           /\ o # "qed" => (Salvageable(n)' => Salvageable(n))
<1> DEFINE s == rows[n]
           r == [s[Len(s)] EXCEPT !.status = o, !.proof = p]
<1>1. s \in Seq(Row) /\ Len(s) \in Nat /\ DOMAIN s = 1..Len(s)
  BY LenProperties DEF GraphInv
<1>2. rows'[n] = [s EXCEPT ![Len(s)] = r] /\ \A m \in Node : m # n => rows'[m] = rows[m]
  BY DEF FinishRow, GraphInv
<1>3. Len(s) \in DOMAIN s /\ s[Len(s)] \in Row
  BY <1>1, EmptySeq, RowEpochs
<1>4. r.epoch = s[Len(s)].epoch /\ r.status = o
  BY <1>3 DEF Row
<1>5. DOMAIN rows'[n] = DOMAIN s /\ \A i \in DOMAIN s : rows'[n][i] = IF i = Len(s) THEN r ELSE s[i]
  BY <1>2
<1> HIDE DEF r
<1>6. \A e : ChargedAt(n, e)' \subseteq ChargedAt(n, e)
  BY <1>3, <1>4, <1>5 DEF ChargedAt
<1>7. o # "qed" => (Salvageable(n)' => Salvageable(n))
  BY <1>4, <1>5 DEF Salvageable, GatedRows
<1> QED
  BY <1>2, <1>6, <1>7

\* A claimed row that is closed was charged and stays so.
LEMMA CloseRowsCharges ==
    ASSUME GraphInv, NEW n \in Node, CloseClaimedRows(n), epoch' = epoch
    PROVE  /\ \A m \in Node : m # n => rows'[m] = rows[m]
           /\ \A e : ChargedAt(n, e)' = ChargedAt(n, e)
           /\ Salvageable(n)' => Salvageable(n)
<1> DEFINE s == rows[n]
<1>1. /\ rows'[n] = [i \in DOMAIN s |->
                       IF s[i].status = "claimed" THEN [s[i] EXCEPT !.status = "stuck"] ELSE s[i]]
      /\ \A m \in Node : m # n => rows'[m] = rows[m]
  BY DEF CloseClaimedRows, GraphInv
<1>2. ASSUME NEW i \in DOMAIN s
      PROVE  /\ rows'[n][i].epoch = s[i].epoch
             /\ s[i].status = "claimed" => rows'[n][i].status = "stuck"
             /\ s[i].status # "claimed" => rows'[n][i] = s[i]
  <2>1. s[i] \in Row
    BY RowEpochs
  <2> QED
    BY <1>1, <2>1 DEF Row
<1>3. DOMAIN rows'[n] = DOMAIN s
  BY <1>1
<1>4. \A e : ChargedAt(n, e)' = ChargedAt(n, e)
  BY <1>2, <1>3 DEF ChargedAt
<1>5. Salvageable(n)' => Salvageable(n)
  BY <1>2, <1>3 DEF Salvageable, GatedRows
<1> QED
  BY <1>1, <1>4, <1>5

-----------------------------------------------------------------------------
(* The budget *)

\* Steps that touch no row, and leave no coroutine with its claim or its worker, or that
\* leave both as they are.
LEMMA BudgetRowsStay ==
    ASSUME IInv, BudgetInv, UNCHANGED rows,
           \A n \in Node : where'[n] \in {"claimed", "working"} => where'[n] = where[n] /\ epoch'[n] = epoch[n]
    PROVE  BudgetInv'
<1>1. \A n \in Node : \A e : ChargedAt(n, e)' = ChargedAt(n, e)
  BY RowsStay DEF IInv
<1>2. \A n \in Node : \A e \in Nat : Cardinality(ChargedAt(n, e)') <= MaxAttempts
  BY <1>1 DEF BudgetInv
<1>3. \A n \in Node : \A e \in Nat :
        where'[n] = "claimed" /\ epoch'[n] = e => Cardinality(ChargedAt(n, e)') < MaxAttempts
  BY <1>1 DEF BudgetInv
<1>4. \A n \in Node : where'[n] = "working" => rows'[n] # << >> /\ rows'[n][Len(rows'[n])].status = "claimed"
  BY DEF BudgetInv
<1> QED
  BY <1>2, <1>3, <1>4 DEF BudgetInv

\* A step outside the dispatch finds and leaves no coroutine.
LEMMA IdleStays ==
    ASSUME IInv, phase \notin {"dispatch", "integrate"}, UNCHANGED where
    PROVE  \A n \in Node : where'[n] = "idle"
BY IdleBeforeDispatch DEF IInv

\* A step that leaves no coroutine with a claim touches no row.
LEMMA BudgetOutside ==
    ASSUME IInv, BudgetInv, UNCHANGED rows, \A n \in Node : where'[n] \in {"idle", "queued", "done"}
    PROVE  BudgetInv'
BY BudgetRowsStay

\* A coroutine claims only with an attempt left, and is charged when it starts one.
LEMMA BudgetNode ==
    ASSUME IInv, BudgetInv, NEW n \in Node, NodeStep(n)
    PROVE  BudgetInv'
<1>1. GraphInv /\ where \in [Node -> Where] /\ epoch[n] \in Nat
  BY DEF IInv, ProcessInv, GraphInv
<1>2. CASE UNCHANGED <<rows, epoch>> /\ \E to \in Where \ {"claimed", "working"} : Becomes(n, to)
  BY <1>1, <1>2, BudgetRowsStay DEF Becomes
<1>3. CASE BeginNode(n) \/ GiveUp(n) \/ RecordNode(n) \/ RepinNode(n) \/ RetryNode(n)
  BY <1>2, <1>3 DEF BeginNode, GiveUp, RecordNode, RecordProof, RepinNode, RetryNode, graph, Where
<1>4. CASE ContestNode(n) \/ LeaveOpen(n) \/ ParkNode(n)
  <2>1. UNCHANGED rows /\ \A m \in Node : m # n => epoch'[m] = epoch[m]
    BY <1>1, <1>4, SetStatusSalvage DEF ContestNode, LeaveOpen, ParkNode
  <2>2. /\ \A m \in Node : m # n => where'[m] = where[m]
        /\ where'[n] \notin {"claimed", "working"}
    BY <1>1, <1>4 DEF ContestNode, LeaveOpen, ParkNode, Becomes, InDispatch
  <2> QED
    BY <2>1, <2>2, BudgetRowsStay
<1>5. CASE ClaimNode(n)
  <2>1. UNCHANGED <<rows, epoch>> /\ where' = [where EXCEPT ![n] = "claimed"]
    BY <1>1, <1>5 DEF ClaimNode, SetStatus, Invalidates, Becomes
  <2>2. \A m \in Node : \A e : ChargedAt(m, e)' = ChargedAt(m, e)
    BY <1>1, <2>1, RowsStay
  <2>3. Cardinality(ChargedAt(n, epoch[n])) < MaxAttempts
    BY <1>5 DEF ClaimNode, Spent, ChargedRows, ChargedAt
  <2>4. \A m \in Node : \A e \in Nat : Cardinality(ChargedAt(m, e)') <= MaxAttempts
    BY <2>2 DEF BudgetInv
  <2>5. \A m \in Node : \A e \in Nat :
          where'[m] = "claimed" /\ epoch'[m] = e => Cardinality(ChargedAt(m, e)') < MaxAttempts
    BY <1>1, <2>1, <2>2, <2>3 DEF BudgetInv
  <2>6. \A m \in Node : where'[m] = "working" => rows'[m] # << >> /\ rows'[m][Len(rows'[m])].status = "claimed"
    BY <1>1, <2>1 DEF BudgetInv
  <2> QED
    BY <2>4, <2>5, <2>6 DEF BudgetInv
<1>6. CASE StartAttempt(n)
  <2>1. /\ UNCHANGED epoch /\ StartRow(n) /\ where[n] = "claimed" /\ where' = [where EXCEPT ![n] = "working"]
    BY <1>6 DEF StartAttempt, Becomes, InDispatch
  <2>2. /\ \A m \in Node : m # n => rows'[m] = rows[m]
        /\ \A e \in Nat : e # epoch[n] => ChargedAt(n, e)' = ChargedAt(n, e)
        /\ \A e \in Nat : e = epoch[n] => Cardinality(ChargedAt(n, e)') = Cardinality(ChargedAt(n, e)) + 1
        /\ rows'[n] # << >> /\ rows'[n][Len(rows'[n])].status = "claimed"
    BY <1>1, <2>1, StartRowCharges
  <2>3. \A m \in Node : m # n => \A e : ChargedAt(m, e)' = ChargedAt(m, e)
    BY <1>1, <2>2, RowsStay
  <2>4. \A e \in Nat : Cardinality(ChargedAt(n, e)) \in Nat
                        /\ (e = epoch[n] => Cardinality(ChargedAt(n, e)) < MaxAttempts)
    BY <1>1, <2>1, ChargedFinite DEF BudgetInv
  <2>5. ASSUME NEW e \in Nat PROVE Cardinality(ChargedAt(n, e)') <= MaxAttempts
    <3>1. CASE e = epoch[n]
      <4>1. /\ Cardinality(ChargedAt(n, e)) \in Nat
            /\ Cardinality(ChargedAt(n, e)) < MaxAttempts
            /\ Cardinality(ChargedAt(n, e)') = Cardinality(ChargedAt(n, e)) + 1
        BY <2>2, <2>4, <3>1
      <4> QED
        BY <4>1, BudgetAssumption
    <3>2. CASE e # epoch[n]
      BY <2>2, <3>2 DEF BudgetInv
    <3> QED
      BY <3>1, <3>2
  <2>6. \A m \in Node : \A e \in Nat : Cardinality(ChargedAt(m, e)') <= MaxAttempts
    BY <2>2, <2>3, <2>5 DEF BudgetInv
  <2>7. \A m \in Node : \A e \in Nat :
          where'[m] = "claimed" /\ epoch'[m] = e => Cardinality(ChargedAt(m, e)') < MaxAttempts
    BY <1>1, <2>1, <2>3 DEF BudgetInv
  <2>8. \A m \in Node : where'[m] = "working" => rows'[m] # << >> /\ rows'[m][Len(rows'[m])].status = "claimed"
    BY <1>1, <2>1, <2>2 DEF BudgetInv
  <2> QED
    BY <2>6, <2>7, <2>8 DEF BudgetInv
<1>7. CASE AttemptProved(n) \/ AttemptUnproved(n)
  <2>1. PICK o \in RowStatus : \E p : FinishRow(n, o, p)
    BY <1>7 DEF AttemptProved, AttemptUnproved, Unproved, RowStatus
  <2>2. PICK to \in Where \ {"claimed", "working"} : where' = [where EXCEPT ![n] = to]
    BY <1>7 DEF AttemptProved, AttemptUnproved, Unproved, Becomes, Where
  <2>3. UNCHANGED epoch /\ where[n] = "working"
    BY <1>7 DEF AttemptProved, AttemptUnproved, InDispatch
  <2>4. rows[n] # << >> /\ rows[n][Len(rows[n])].status = "claimed"
    BY <2>3 DEF BudgetInv
  <2>5. /\ \A m \in Node : m # n => rows'[m] = rows[m]
        /\ \A e : ChargedAt(n, e)' \subseteq ChargedAt(n, e)
    BY <1>1, <2>1, <2>3, <2>4, FinishRowCharges
  <2>6. \A m \in Node : m # n => \A e : ChargedAt(m, e)' = ChargedAt(m, e)
    BY <1>1, <2>5, RowsStay
  <2>7. \A e \in Nat : Cardinality(ChargedAt(n, e)') <= MaxAttempts
    <3>1. ASSUME NEW e \in Nat PROVE Cardinality(ChargedAt(n, e)') <= MaxAttempts
      <4>1. IsFiniteSet(ChargedAt(n, e)) /\ Cardinality(ChargedAt(n, e)) \in Nat
        BY <1>1, ChargedFinite
      <4>2. /\ Cardinality(ChargedAt(n, e)') \in Nat
            /\ Cardinality(ChargedAt(n, e)') <= Cardinality(ChargedAt(n, e))
        BY <2>5, <4>1, FS_Subset, FS_CardinalityType
      <4>3. Cardinality(ChargedAt(n, e)) <= MaxAttempts
        BY DEF BudgetInv
      <4> QED
        BY <4>1, <4>2, <4>3, BudgetAssumption
    <3> QED BY <3>1
  <2>8. \A m \in Node : \A e \in Nat : Cardinality(ChargedAt(m, e)') <= MaxAttempts
    BY <2>6, <2>7 DEF BudgetInv
  <2>9. \A m \in Node : \A e \in Nat :
          where'[m] = "claimed" /\ epoch'[m] = e => Cardinality(ChargedAt(m, e)') < MaxAttempts
    BY <1>1, <2>2, <2>3, <2>6 DEF BudgetInv
  <2>10. \A m \in Node : where'[m] = "working" => rows'[m] # << >> /\ rows'[m][Len(rows'[m])].status = "claimed"
    BY <1>1, <2>2, <2>5 DEF BudgetInv
  <2> QED
    BY <2>8, <2>9, <2>10 DEF BudgetInv
<1> QED
  BY <1>3, <1>4, <1>5, <1>6, <1>7 DEF NodeStep

\* Every step keeps the budget.
LEMMA BudgetNext ==
    ASSUME IInv, BudgetInv, [Next]_vars
    PROVE  BudgetInv'
<1>1. GraphInv /\ ProcessInv
  BY DEF IInv
<1>2. ASSUME NEW how, Exit(how) PROVE BudgetInv'
  BY <1>2, BudgetOutside DEF Exit, graph
<1>3. CASE phase \notin {"dispatch", "integrate"} /\ UNCHANGED <<rows, where>>
  BY <1>3, IdleStays, BudgetOutside
<1>4. CASE StartRun \/ EnsureRoot \/ Reconciled
  BY <1>3, <1>4 DEF StartRun, EnsureRoot, Reconciled, At, graph
<1>5. CASE Kill \/ NotIntegrated
  BY <1>2, <1>5 DEF Kill, NotIntegrated
<1>6. CASE Retired \/ Resumed
  BY <1>2, <1>3, <1>6 DEF Retired, Resumed, graph
<1>7. CASE Dispatch
  BY <1>7, BudgetOutside DEF Dispatch, graph
<1>8. CASE Dispatched \/ UNCHANGED vars
  BY <1>8, BudgetRowsStay DEF Dispatched, vars, graph, process
<1>9. CASE Integrate
  BY <1>9, BudgetOutside DEF Integrate
<1>10. ASSUME NEW c \in Child, ReconcileStep(c) PROVE BudgetInv'
  <2>1. CASE AddChild(c) \/ RestateChild(c) \/ DemandEdge(c) \/ KeepChild(c) \/ TakePlanProof(c)
             \/ RecordPlanProof(c) \/ NoPlanProof(c) \/ RetireDropped(c)
    BY <1>3, <2>1 DEF AddChild, RestateChild, DemandEdge, KeepChild, TakePlanProof, RecordPlanProof,
         NoPlanProof, RetireDropped, At, graph
  <2> QED
    BY <1>2, <1>10, <2>1 DEF ReconcileStep, PlanProofRefused, PlanProofRejected
<1>11. ASSUME NEW n \in Node, ResumeStep(n) \/ RevalidateStep(n) PROVE BudgetInv'
  <2>1. CASE SalvageClose(n) \/ CloseInterrupted(n)
    <3>1. UNCHANGED <<where, epoch>> /\ CloseClaimedRows(n) /\ phase = "resume"
      BY <2>1 DEF SalvageClose, CloseInterrupted, At
    <3>2. /\ \A m \in Node : m # n => rows'[m] = rows[m]
          /\ \A e : ChargedAt(n, e)' = ChargedAt(n, e)
      BY <1>1, <3>1, CloseRowsCharges
    <3>3. \A m \in Node : \A e : ChargedAt(m, e)' = ChargedAt(m, e)
      BY <1>1, <3>2, RowsStay
    <3>4. \A m \in Node : where'[m] = "idle"
      BY <3>1, IdleStays
    <3>5. \A m \in Node : \A e \in Nat : Cardinality(ChargedAt(m, e)') <= MaxAttempts
      BY <3>3 DEF BudgetInv
    <3> QED
      BY <3>4, <3>5 DEF BudgetInv
  <2>2. CASE Salvage(n) \/ SalvageRepin(n) \/ ReopenInterrupted(n) \/ ReopenStuck(n) \/ LeaveAlone(n)
             \/ ReplayHolds(n) \/ ReplayRepin(n) \/ ReplayFails(n) \/ NothingToReplay(n)
    BY <1>3, <2>2 DEF Salvage, SalvageRepin, ReopenInterrupted, ReopenStuck, LeaveAlone,
         ReplayHolds, ReplayRepin, ReplayFails, NothingToReplay, At, graph
  <2> QED
    BY <1>2, <1>11, <2>1, <2>2 DEF ResumeStep, RevalidateStep, ReplayCannotRun
<1>12. CASE \E n \in Node : NodeStep(n)
  BY <1>12, BudgetNode
<1> QED
  BY <1>4, <1>5, <1>6, <1>7, <1>8, <1>9, <1>10, <1>11, <1>12 DEF Next, Advance, Exhausted

\* A graph without rows is charged nothing.
LEMMA InitBudget ==
    ASSUME Init
    PROVE  BudgetInv
<1>1. \A n \in Node : where[n] = "idle" /\ \A e : ChargedAt(n, e) = {}
  BY EmptySeq DEF Init, ChargedAt
<1>2. Cardinality({}) = 0
  BY FS_EmptySet
<1>3. \A n \in Node : \A e : Cardinality(ChargedAt(n, e)) = 0
  BY <1>1, <1>2
<1> QED
  BY <1>1, <1>3, BudgetAssumption DEF BudgetInv

\* However often the command is killed and run again, and whatever is done to the plan, no
\* epoch of a statement is charged more attempts than the budget.
THEOREM BudgetIsRespected == Spec => []BudgetRespected
<1>1. Init => BudgetInv
  BY InitBudget
<1>2. IInv /\ BudgetInv /\ [Next]_vars => BudgetInv'
  BY BudgetNext
<1>3. IInv /\ BudgetInv => BudgetRespected
  <2> SUFFICES ASSUME IInv, BudgetInv, NEW n \in Node, NEW e \in 0..epoch[n]
               PROVE  Cardinality({i \in DOMAIN rows[n] :
                          rows[n][i].epoch = e /\ rows[n][i].status # "error"}) <= MaxAttempts
    BY DEF BudgetRespected
  <2>1. e \in Nat
    BY DEF IInv, GraphInv
  <2>2. Cardinality(ChargedAt(n, e)) <= MaxAttempts
    BY <2>1 DEF BudgetInv
  <2> QED
    BY <2>2 DEF ChargedAt
<1> QED
  BY <1>1, <1>2, <1>3, Inductive, PTL DEF Spec

-----------------------------------------------------------------------------
(* Where a process is *)

\* The graph is of the plan: what the plan states is stated so, and proved if the plan has a
\* proof of it; of the rest, what still counts is proved.
Agrees == \A c \in Stated(plan) : stmt[c] = plan[c].stmt /\ (plan[c].proof => Proved(c))
Trimmed == LiveChild # {} /\ \A c \in LiveChild \ Stated(plan) : Proved(c)

\* Reconciling and retiring bring the graph to the plan; nothing after them takes it away.
PlanSettles ==
    /\ phase # "down" => runs # 0
    /\ phase = "reconcile" =>
          /\ \A c \in Stated(plan) \ todo : stmt[c] = plan[c].stmt /\ (plan[c].proof => Proved(c))
          /\ step = "record" => \A c \in todo : Turn(c) => plan[c].proof /\ ~Proved(c)
    /\ phase \in {"retire", "resume", "revalidate", "dispatch", "integrate"} => Agrees
    /\ phase = "retire" => todo = {c \in LiveChild \ Stated(plan) : ~Proved(c)}
    /\ phase \in {"resume", "revalidate", "dispatch", "integrate"} => Trimmed

\* Who works on a node does so on a claim; resume reopens a claimed node it has found
\* nothing to salvage of, and goes on with one it has given its proof.
ClaimsAreOfHolders ==
    /\ \A n \in Node : where[n] \in {"claimed", "working", "accepted", "ungated"} => status[n] = "claimed"
    /\ phase = "resume" => \A n \in todo : Turn(n) =>
          /\ step = "reopen" => status[n] = "claimed" /\ ~Salvageable(n)
          /\ step \in {"repin", "close"} => Proved(n)

PlaceInv == PlanSettles /\ ClaimsAreOfHolders

\* A status write that does not prove.
LEMMA SetStatusMoves ==
    ASSUME GraphInv, NEW n \in Node, Present(n),
           NEW new \in {"open", "claimed", "stuck", "contested", "attic"}, NEW human \in BOOLEAN,
           SetStatus(n, new, human)
    PROVE  /\ \A m \in Node : (Present(m)' <=> Present(m)) /\ epoch'[m] \in {epoch[m], epoch[m] + 1}
           /\ \A m \in Node \ {n} : status'[m] = status[m] /\ epoch'[m] = epoch[m] /\ body'[m] = body[m]
           /\ status'[n] = new
           /\ Proved(n) => new = "open"
           /\ ~Proved(n) => epoch' = epoch /\ body' = body
<1>1. MayMove(status[n], new, human) /\ status' = [status EXCEPT ![n] = new]
  BY DEF SetStatus
<1>2. \/ Invalidates(status[n], new) /\ epoch' = [epoch EXCEPT ![n] = @ + 1]
                                     /\ body' = [body EXCEPT ![n] = NoProof]
      \/ ~Invalidates(status[n], new) /\ epoch' = epoch /\ body' = body
  BY DEF SetStatus
<1>3. Proved(n) => new = "open"
  BY <1>1 DEF MayMove, Moves, HumanMoves, Proved, ProvedStatus
<1>4. ~Proved(n) => epoch' = epoch /\ body' = body
  BY <1>2 DEF Invalidates, Proved
<1>5. status'[n] = new /\ \A m \in Node \ {n} : status'[m] = status[m]
  BY <1>1 DEF GraphInv
<1>6. /\ \A m \in Node : epoch'[m] \in {epoch[m], epoch[m] + 1}
      /\ \A m \in Node \ {n} : epoch'[m] = epoch[m] /\ body'[m] = body[m]
  BY <1>2 DEF GraphInv
<1> QED
  BY <1>3, <1>4, <1>5, <1>6 DEF Present

\* Taking a proof: the node alone moves, to gated, and has the proof for its body.
LEMMA RecordProofMoves ==
    ASSUME GraphInv, NEW n \in Node, NEW p, RecordProof(n, p)
    PROVE  /\ \A m \in Node \ {n} : status'[m] = status[m] /\ body'[m] = body[m]
           /\ status[n] \in {"claimed", "qed", "gated"} /\ status'[n] = "gated" /\ body'[n] = p
           /\ epoch' = epoch
BY DEF RecordProof, GraphInv, MayMove, Moves, HumanMoves

\* What a write of one node's status does to the children that count.
LEMMA ChildrenStand ==
    ASSUME NEW n \in Node, \A m \in Node \ {n} : status'[m] = status[m],
           \/ status'[n] = status[n]
           \/ status[n] \notin ProvedStatus \cup {"absent", "attic"} /\ status'[n] \notin {"absent", "attic"},
           UNCHANGED <<stmt, plan>>
    PROVE  /\ \A m \in Node : Present(m)' <=> Present(m)
           /\ \A m \in Node : Proved(m) => Proved(m)'
           /\ LiveChild' = LiveChild
           /\ Agrees => Agrees'
           /\ Trimmed => Trimmed'
<1>1. \A m \in Node : (Present(m)' <=> Present(m)) /\ (Proved(m) => Proved(m)')
                         /\ (status'[m] \in {"absent", "attic"} <=> status[m] \in {"absent", "attic"})
  BY DEF Present, Proved
<1>2. LiveChild' = LiveChild
  BY <1>1 DEF LiveChild, Node
<1>3. Stated(plan)' = Stated(plan) /\ Stated(plan) \subseteq Node
  BY DEF Stated, Node
<1>4. Agrees => Agrees'
  BY <1>1, <1>3 DEF Agrees
<1>5. Trimmed => Trimmed'
  BY <1>1, <1>2, <1>3 DEF Trimmed, LiveChild, Node
<1> QED
  BY <1>1, <1>2, <1>4, <1>5

\* A step of the reconciliation writes one child, and never takes it out of the graph.
LEMMA ReconcileMoves ==
    ASSUME IInv, NEW c \in Child, phase = "reconcile",
           AddChild(c) \/ RestateChild(c) \/ DemandEdge(c) \/ KeepChild(c)
             \/ TakePlanProof(c) \/ RecordPlanProof(c) \/ NoPlanProof(c)
    PROVE  /\ GraphInv /\ ProcessInv /\ UNCHANGED <<rows, plan, phase, where, runs, ending>> /\ Turn(c)
           /\ c \in Node /\ c # Root /\ Root \in Node /\ todo \subseteq Node /\ c \in todo
           /\ plan[c].stmt \in Stmt /\ c \in Stated(plan)
           /\ \A n \in Node : where[n] = "idle"
           /\ \A m \in Node \ {c} : /\ status'[m] = status[m] /\ epoch'[m] = epoch[m]
                                    /\ stmt'[m] = stmt[m] /\ body'[m] = body[m]
           /\ epoch'[c] \in {epoch[c], epoch[c] + 1}
           /\ Present(c) => Present(c)'
<1>1. /\ GraphInv /\ ProcessInv /\ UNCHANGED <<rows, plan, phase, where, runs, ending>> /\ Turn(c)
      /\ c \in Node /\ c # Root /\ Root \in Node /\ todo \subseteq Node /\ c \in todo
      /\ plan[c].stmt \in Stmt /\ c \in Stated(plan)
  BY RootAssumption DEF AddChild, RestateChild, DemandEdge, KeepChild, TakePlanProof, RecordPlanProof,
       NoPlanProof, At, graph, IInv, ProcessInv, ReconciledSoFar, Turn, Node, Stated, Plan
<1>2. \A n \in Node : where[n] = "idle"
  BY <1>1, IdleBeforeDispatch
<1>3. /\ \A m \in Node \ {c} : /\ status'[m] = status[m] /\ epoch'[m] = epoch[m]
                               /\ stmt'[m] = stmt[m] /\ body'[m] = body[m]
      /\ epoch'[c] \in {epoch[c], epoch[c] + 1}
      /\ Present(c) => Present(c)'
  <2>1. CASE AddChild(c)
    BY <1>1, <2>1 DEF AddChild, AddNode, GraphInv
  <2>2. CASE RestateChild(c)
    BY <1>1, <2>2 DEF RestateChild, Restate, GraphInv, Present
  <2>3. CASE RecordPlanProof(c)
    BY <1>1, <2>3 DEF RecordPlanProof, RecordProof, GraphInv, Present
  <2>4. CASE DemandEdge(c) \/ NoPlanProof(c)
    <3>1. UNCHANGED <<status, epoch, stmt, body>>
      BY <2>4 DEF DemandEdge, NoPlanProof, graph
    <3> QED
      BY <3>1 DEF Present
  <2>5. ASSUME NEW new \in {"open", "claimed"}, NEW human \in BOOLEAN, SetStatus(c, new, human), UNCHANGED stmt
        PROVE  /\ \A m \in Node \ {c} : /\ status'[m] = status[m] /\ epoch'[m] = epoch[m]
                                         /\ stmt'[m] = stmt[m] /\ body'[m] = body[m]
               /\ epoch'[c] \in {epoch[c], epoch[c] + 1}
               /\ Present(c) => Present(c)'
    BY <1>1, <2>5 DEF SetStatus, GraphInv, Present
  <2>6. CASE KeepChild(c) \/ TakePlanProof(c)
    <3>1. UNCHANGED stmt
          /\ \/ UNCHANGED <<status, epoch, body>>
             \/ SetStatus(c, "open", TRUE)
             \/ SetStatus(c, "claimed", FALSE)
      BY <2>6 DEF KeepChild, TakePlanProof
    <3>2. CASE UNCHANGED <<status, epoch, body>>
      BY <3>1, <3>2 DEF Present
    <3>3. CASE SetStatus(c, "open", TRUE) \/ SetStatus(c, "claimed", FALSE)
      BY <2>5, <3>1, <3>3
    <3> QED
      BY <3>1, <3>2, <3>3
  <2> QED
    BY <2>1, <2>2, <2>3, <2>4, <2>6
<1> QED
  BY <1>1, <1>2, <1>3

\* A process that ends, or starts, or has ensured its root, has all before it.
LEMMA PlaceAtEnds ==
    ASSUME IInv, PlaceInv, (\E how : Exit(how)) \/ StartRun \/ EnsureRoot \/ Integrate
    PROVE  PlaceInv'
<1>1. \A n \in Node : where'[n] = "idle"
  <2>1. CASE (\E how : Exit(how)) \/ Integrate
    BY <2>1 DEF Exit, Integrate
  <2>2. CASE StartRun \/ EnsureRoot
    BY <2>2, IdleBeforeDispatch DEF StartRun, EnsureRoot, At, IInv
  <2> QED
    BY <2>1, <2>2
<1>2. CASE (\E how : Exit(how)) \/ Integrate
  <2>1. phase' = "down"
    BY <1>2 DEF Exit, Integrate, Enter
  <2> QED
    BY <1>1, <2>1 DEF PlaceInv, PlanSettles, ClaimsAreOfHolders
<1>3. CASE StartRun
  <2>1. phase' = "root" /\ runs' # 0
    BY <1>3 DEF StartRun, Enter, IInv, ProcessInv
  <2> QED
    BY <1>1, <2>1 DEF PlaceInv, PlanSettles, ClaimsAreOfHolders
<1>4. CASE EnsureRoot
  <2>1. /\ phase = "root" /\ phase' = "reconcile" /\ step' = "look" /\ todo' = Stated(plan)
        /\ UNCHANGED <<plan, runs>>
    BY <1>4 DEF EnsureRoot, Enter, At
  <2> QED
    BY <1>1, <2>1 DEF PlaceInv, PlanSettles, ClaimsAreOfHolders, Stated
<1> QED
  BY <1>2, <1>3, <1>4

\* The reconciliation brings a child to the plan before it goes on.
LEMMA PlaceReconcile ==
    ASSUME IInv, PlaceInv, NEW c \in Child, phase = "reconcile",
           AddChild(c) \/ RestateChild(c) \/ DemandEdge(c) \/ KeepChild(c)
             \/ TakePlanProof(c) \/ RecordPlanProof(c) \/ NoPlanProof(c)
    PROVE  PlaceInv'
<1>1. /\ GraphInv /\ ProcessInv /\ UNCHANGED <<rows, plan, phase, where, runs, ending>> /\ Turn(c)
      /\ c \in Node /\ todo \subseteq Node /\ c \in todo /\ c \in Stated(plan)
      /\ \A n \in Node : where[n] = "idle"
      /\ \A m \in Node \ {c} : status'[m] = status[m] /\ stmt'[m] = stmt[m]
  BY ReconcileMoves
<1>8. /\ \A d \in Stated(plan) \ todo' : stmt'[d] = plan[d].stmt /\ (plan[d].proof => Proved(d)')
      /\ step' = "record" => todo' = todo /\ plan[c].proof /\ ~Proved(c)'
  <2>1. ASSUME NEW d \in Stated(plan) \ todo
        PROVE  stmt'[d] = plan[d].stmt /\ (plan[d].proof => Proved(d)')
    BY <1>1, <1>1, <2>1 DEF PlaceInv, PlanSettles, Stated, Node, Proved
  <2>2. CASE todo' = todo
    <3>1. step' = "record" => TakePlanProof(c)
      BY <1>1, <2>2 DEF AddChild, RestateChild, DemandEdge, KeepChild, RecordPlanProof, NoPlanProof,
           GoTo, NextNode
    <3>2. ASSUME TakePlanProof(c) PROVE plan[c].proof /\ ~Proved(c)'
      <4>1. plan[c].proof /\ ~Proved(c)
        BY <3>2 DEF TakePlanProof
      <4>2. status'[c] \in {status[c], "claimed"}
        BY <1>1, <3>2 DEF TakePlanProof, SetStatus, GraphInv
      <4> QED
        BY <4>1, <4>2 DEF Proved, ProvedStatus
    <3> QED
      BY <2>1, <2>2, <3>1, <3>2
  <2>3. CASE RecordPlanProof(c) \/ NoPlanProof(c)
    <3>1. todo' = todo \ {c} /\ step' = "look" /\ UNCHANGED stmt /\ step \in {"record", "take"}
      BY <2>3 DEF RecordPlanProof, NoPlanProof, NextNode, graph, At
    <3>2. stmt'[c] = plan[c].stmt
      BY <1>1, <3>1 DEF ProcessInv, ReconciledSoFar
    <3>3. plan[c].proof => Proved(c)'
      BY <1>1, <2>3 DEF RecordPlanProof, RecordProof, NoPlanProof, graph, Proved, ProvedStatus, GraphInv
    <3> QED
      BY <2>1, <3>1, <3>2, <3>3
  <2> QED
    BY <2>2, <2>3 DEF AddChild, RestateChild, DemandEdge, KeepChild, TakePlanProof, GoTo
<1>9. PlanSettles'
  <2>1. Stated(plan)' = Stated(plan)
    BY <1>1 DEF Stated
  <2>2. step' = "record" => \A d \in todo' : Turn(d)' => d = c
    <3> SUFFICES ASSUME step' = "record", NEW d \in todo', Turn(d)' PROVE d = c
      OBVIOUS
    <3>1. todo' = todo /\ Turn(d) /\ d \in Node
      BY <1>1, <1>8 DEF Turn
    <3> QED
      BY <1>1, <3>1, TurnUnique
  <2>3. phase' = "reconcile" /\ runs' # 0
    BY <1>1 DEF PlaceInv, PlanSettles
  <2> QED
    BY <1>1, <1>8, <2>1, <2>2, <2>3 DEF PlanSettles, Proved
<1>10. ClaimsAreOfHolders'
  BY <1>1 DEF ClaimsAreOfHolders
<1> QED
  BY <1>9, <1>10 DEF PlaceInv

\* What is retired neither the plan states nor anybody has proved.
LEMMA PlaceRetire ==
    ASSUME IInv, PlaceInv, NEW c \in Child, RetireDropped(c)
    PROVE  PlaceInv'
<1>1. /\ GraphInv /\ ProcessInv /\ UNCHANGED <<stmt, plan, phase, where, runs>>
      /\ phase = "retire" /\ todo' = todo \ {c} /\ SetStatus(c, "attic", TRUE)
      /\ c \in Node /\ c \in todo /\ Present(c)
  BY DEF RetireDropped, At, NextNode, Turn, IInv, ProcessInv, LoopsVisitNodes, Node
<1>2. \A n \in Node : where[n] = "idle"
  BY <1>1, IdleBeforeDispatch
<1>3. (\A m \in Node \ {c} : status'[m] = status[m]) /\ status'[c] = "attic"
  BY <1>1, SetStatusMoves
<1>4. todo = {d \in LiveChild \ Stated(plan) : ~Proved(d)} /\ Agrees /\ runs # 0
  BY <1>1 DEF PlaceInv, PlanSettles
<1>5. c \notin Stated(plan) /\ Stated(plan)' = Stated(plan) /\ LiveChild' = LiveChild \ {c}
  BY <1>1, <1>3, <1>4 DEF Stated, LiveChild, Node
<1>6. Agrees'
  BY <1>1, <1>3, <1>4, <1>5 DEF Agrees, Stated, Proved, Node
<1>7. todo' = {d \in LiveChild' \ Stated(plan)' : ~Proved(d)'}
  <2>1. \A d \in LiveChild : d \in Node
    BY DEF LiveChild, Node
  <2> QED
    BY <1>1, <1>3, <1>4, <1>5, <2>1 DEF Proved
<1>8. PlanSettles'
  BY <1>1, <1>4, <1>6, <1>7 DEF PlanSettles
<1>9. ClaimsAreOfHolders'
  BY <1>1, <1>2 DEF ClaimsAreOfHolders
<1> QED
  BY <1>8, <1>9 DEF PlaceInv

\* One phase gives way to the next: what the plan drops is retired before anything is resumed.
LEMMA PlacePhase ==
    ASSUME IInv, PlaceInv,
           Reconciled \/ (Retired /\ LiveChild # {}) \/ Resumed \/ Dispatch \/ Dispatched
    PROVE  PlaceInv'
<1>1. /\ GraphInv /\ ProcessInv /\ UNCHANGED <<status, epoch, stmt, rows, plan, runs>>
      /\ phase # "down" /\ runs # 0 /\ step' = "look"
      /\ phase' \in {"retire", "resume", "revalidate", "dispatch", "integrate"}
  BY DEF Reconciled, Retired, Resumed, Dispatch, Dispatched, Enter, graph, IInv, PlaceInv, PlanSettles
<1>2. \A n \in Node : where'[n] \in {"idle", "done", "queued"}
  <2>1. CASE Reconciled \/ (Retired /\ LiveChild # {}) \/ Resumed
    BY <1>1, <2>1, IdleBeforeDispatch DEF Reconciled, Retired, Resumed
  <2>2. CASE Dispatch
    BY <2>2 DEF Dispatch
  <2>3. CASE Dispatched
    BY <2>3 DEF Dispatched, Resting
  <2> QED
    BY <2>1, <2>2, <2>3
<1>3. (Agrees' <=> Agrees) /\ (Trimmed' <=> Trimmed)
  BY <1>1 DEF Proved, Agrees, Trimmed, Stated, LiveChild
<1>4. PlanSettles'
  <2>1. CASE Reconciled
    <3>1. Agrees
      BY <2>1 DEF Reconciled, PlaceInv, PlanSettles, Agrees
    <3>2. phase' = "retire" /\ todo' = {c \in LiveChild \ Stated(plan) : ~Proved(c)}
      BY <2>1 DEF Reconciled, Enter
    <3> QED
      BY <1>1, <1>3, <3>1, <3>2 DEF PlanSettles, Stated, LiveChild, Proved
  <2>2. CASE Retired /\ LiveChild # {}
    <3>1. phase = "retire" /\ todo = {} /\ phase' = "resume"
      BY <2>2 DEF Retired, Enter
    <3>2. Agrees /\ Trimmed
      BY <2>2, <3>1 DEF PlaceInv, PlanSettles, Trimmed
    <3> QED
      BY <1>1, <1>3, <3>1, <3>2 DEF PlanSettles
  <2>3. CASE Resumed \/ Dispatch \/ Dispatched
    <3>1. phase \in {"resume", "revalidate", "dispatch"} /\ phase' \in {"revalidate", "dispatch", "integrate"}
      BY <2>3 DEF Resumed, Dispatch, Dispatched, Enter
    <3> QED
      BY <1>1, <1>3, <3>1 DEF PlaceInv, PlanSettles
  <2> QED
    BY <2>1, <2>2, <2>3
<1>5. ClaimsAreOfHolders'
  BY <1>1, <1>2 DEF ClaimsAreOfHolders
<1> QED
  BY <1>4, <1>5 DEF PlaceInv

\* What a step of resume writes: one node's status, on a claim or after a failure.
LEMMA ResumeMoves ==
    ASSUME IInv, PlaceInv, NEW n \in Node, ResumeStep(n)
    PROVE  /\ phase = "resume" /\ UNCHANGED <<phase, plan, runs, ending, where, taken, stmt, epoch>>
           /\ Turn(n) /\ n \in todo /\ Present(n)
           /\ \A m \in Node \ {n} : status'[m] = status[m] /\ body'[m] = body[m] /\ rows'[m] = rows[m]
           /\ \/ status'[n] = status[n] /\ body'[n] = body[n]
              \/ status[n] \in {"claimed", "stuck"} /\ status'[n] \in {"gated", "open"}
           /\ UNCHANGED pin \/ RepinEdges(n)
<1>1. /\ phase = "resume" /\ UNCHANGED <<phase, plan, runs, ending, where, taken, stmt>> /\ Turn(n)
      /\ UNCHANGED pin \/ RepinEdges(n)
      /\ UNCHANGED rows \/ CloseClaimedRows(n)
  BY DEF ResumeStep, Salvage, SalvageRepin, SalvageClose, CloseInterrupted, ReopenInterrupted,
       ReopenStuck, LeaveAlone, At, graph
<1>2. GraphInv /\ n \in todo /\ Present(n)
  BY <1>1 DEF IInv, ProcessInv, LoopsVisitNodes, Turn
<1>3. \A m \in Node \ {n} : rows'[m] = rows[m]
  BY <1>1, <1>2 DEF CloseClaimedRows, GraphInv
<1>4. /\ epoch' = epoch
      /\ \A m \in Node \ {n} : status'[m] = status[m] /\ body'[m] = body[m]
      /\ \/ status'[n] = status[n] /\ body'[n] = body[n]
         \/ status[n] \in {"claimed", "stuck"} /\ status'[n] \in {"gated", "open"}
  <2>1. CASE Salvage(n)
    <3>1. PICK p : RecordProof(n, p) /\ status[n] = "claimed"
      BY <2>1 DEF Salvage
    <3> QED
      BY <1>2, <3>1, RecordProofMoves
  <2>2. CASE ReopenInterrupted(n) \/ ReopenStuck(n)
    <3>1. SetStatus(n, "open", FALSE) /\ status[n] \in {"claimed", "stuck"}
      BY <1>1, <1>2, <2>2 DEF ReopenInterrupted, ReopenStuck, At, PlaceInv, ClaimsAreOfHolders
    <3>2. ~Proved(n)
      BY <3>1 DEF Proved, ProvedStatus
    <3> QED
      BY <1>2, <3>1, <3>2, SetStatusMoves
  <2>3. CASE UNCHANGED <<status, epoch, body>>
    BY <2>3
  <2> QED
    BY <2>1, <2>2, <2>3 DEF ResumeStep, SalvageRepin, SalvageClose, CloseInterrupted, LeaveAlone, graph
<1> QED
  BY <1>1, <1>2, <1>3, <1>4

\* resume gives a node its proof, or closes its rows and reopens it, and does nothing between.
LEMMA PlaceResume ==
    ASSUME IInv, BudgetInv, PlaceInv, NEW n \in Node, ResumeStep(n)
    PROVE  PlaceInv' /\ (\A m \in Node : Salvageable(m)' => Salvageable(m))
<1>1. /\ phase = "resume" /\ UNCHANGED <<phase, plan, runs, where, stmt, epoch>>
      /\ Turn(n) /\ n \in todo
      /\ \A m \in Node \ {n} : status'[m] = status[m] /\ rows'[m] = rows[m]
      /\ \/ status'[n] = status[n]
         \/ status[n] \in {"claimed", "stuck"} /\ status'[n] \in {"gated", "open"}
  BY ResumeMoves
<1>2. GraphInv /\ ProcessInv /\ todo \subseteq Node /\ \A m \in Node : where[m] = "idle"
  BY <1>1, IdleBeforeDispatch DEF IInv, ProcessInv
<1>3. (Agrees => Agrees') /\ (Trimmed => Trimmed')
  <2>1. \/ status'[n] = status[n]
        \/ status[n] \notin ProvedStatus \cup {"absent", "attic"} /\ status'[n] \notin {"absent", "attic"}
    BY <1>1 DEF ProvedStatus
  <2> QED
    BY <1>1, <2>1, ChildrenStand
<1>4. PlanSettles'
  BY <1>1, <1>3 DEF PlaceInv, PlanSettles
<1>5. /\ step' \in {"repin", "close", "reopen"} => todo' = todo
      /\ step' = "repin" => Salvage(n)
      /\ step' = "close" => SalvageRepin(n)
      /\ step' = "reopen" => CloseInterrupted(n)
  BY DEF ResumeStep, Salvage, SalvageRepin, SalvageClose, CloseInterrupted, ReopenInterrupted,
       ReopenStuck, LeaveAlone, GoTo, NextNode
<1>6. \A m \in Node : Salvageable(m)' => Salvageable(m)
  <2>1. CASE UNCHANGED rows
    BY <1>1, <1>2, <2>1, RowsStay
  <2>2. CASE CloseClaimedRows(n)
    BY <1>1, <1>2, <2>2, CloseRowsCharges, RowsStay
  <2> QED
    BY <2>1, <2>2 DEF ResumeStep, Salvage, SalvageRepin, SalvageClose, CloseInterrupted,
         ReopenInterrupted, ReopenStuck, LeaveAlone, graph
<1>7. ASSUME step' \in {"repin", "close", "reopen"}, NEW m \in todo', Turn(m)' PROVE m = n
  <2>1. todo' = todo /\ Turn(m) /\ m \in Node
    BY <1>2, <1>5, <1>7 DEF Turn
  <2> QED
    BY <1>1, <1>2, <2>1, TurnUnique
<1>8. step' = "reopen" => status'[n] = "claimed" /\ ~Salvageable(n)'
  BY <1>5, <1>6 DEF CloseInterrupted
<1>9. step' = "repin" => Proved(n)'
  <2> SUFFICES ASSUME Salvage(n) PROVE Proved(n)'
    BY <1>5
  <2>1. PICK p : RecordProof(n, p)
    BY DEF Salvage
  <2> QED
    BY <1>2, <2>1, RecordProofMoves DEF Proved, ProvedStatus
<1>10. step' = "close" => Proved(n)'
  <2> SUFFICES ASSUME SalvageRepin(n) PROVE Proved(n)'
    BY <1>5
  <2>1. step = "repin" /\ UNCHANGED status
    BY DEF SalvageRepin, At
  <2> QED
    BY <1>1, <2>1 DEF PlaceInv, ClaimsAreOfHolders, Proved
<1>11. ClaimsAreOfHolders'
  BY <1>1, <1>2, <1>7, <1>8, <1>9, <1>10 DEF ClaimsAreOfHolders
<1> QED
  BY <1>4, <1>6, <1>11 DEF PlaceInv

\* A replay concerns the root only, so that the children stay as the plan has them.
LEMMA PlaceRevalidate ==
    ASSUME IInv, PlaceInv, NEW n \in Node, RevalidateStep(n)
    PROVE  PlaceInv'
<1>1. /\ phase = "revalidate" /\ GraphInv /\ ProcessInv /\ Present(n) /\ Agrees /\ Trimmed /\ runs # 0
  BY DEF RevalidateStep, ReplayHolds, ReplayRepin, ReplayFails, ReplayCannotRun, NothingToReplay, At, Turn,
       IInv, ProcessInv, LoopsVisitNodes, PlaceInv, PlanSettles
<1>2. \A m \in Node : where[m] = "idle"
  BY <1>1, IdleBeforeDispatch
<1>3. CASE ReplayCannotRun(n)
  BY <1>3, PlaceAtEnds DEF ReplayCannotRun
<1>4. CASE ReplayHolds(n) \/ ReplayRepin(n) \/ ReplayFails(n) \/ NothingToReplay(n)
  <2>1. UNCHANGED <<stmt, plan, phase, where, runs>>
    BY <1>4 DEF ReplayHolds, ReplayRepin, ReplayFails, NothingToReplay, graph
  <2>2. \A c \in Child : status'[c] = status[c]
    <3>1. CASE ReplayFails(n)
      <4>1. n = Root /\ SetStatus(n, "open", TRUE)
        BY <3>1 DEF ReplayFails, StaleEdges
      <4> QED
        BY <1>1, <4>1, SetStatusMoves, RootAssumption DEF Node
    <3> QED
      BY <1>4, <3>1 DEF ReplayHolds, ReplayRepin, NothingToReplay, graph
  <2>3. Agrees' /\ Trimmed'
    <3>1. LiveChild' = LiveChild /\ Stated(plan)' = Stated(plan) /\ \A c \in Child : Proved(c)' <=> Proved(c)
      BY <2>1, <2>2 DEF LiveChild, Stated, Proved
    <3> QED
      BY <1>1, <2>1, <3>1 DEF Agrees, Trimmed, Stated, LiveChild
  <2> QED
    BY <1>1, <1>2, <2>1, <2>3 DEF PlaceInv, PlanSettles, ClaimsAreOfHolders
<1> QED
  BY <1>3, <1>4 DEF RevalidateStep

\* What a step of a coroutine writes: its own node's status, while the node has no proof.
LEMMA NodeMoves ==
    ASSUME IInv, PlaceInv, NEW n \in Node, NodeStep(n)
    PROVE  /\ phase = "dispatch" /\ UNCHANGED <<phase, todo, step, plan, runs, ending, stmt, epoch>>
           /\ Scheduled(n)
           /\ \A m \in Node \ {n} : status'[m] = status[m] /\ body'[m] = body[m] /\ where'[m] = where[m]
           /\ \/ status'[n] = status[n] /\ body'[n] = body[n]
              \/ /\ status[n] \notin ProvedStatus \cup {"absent", "attic"}
                 /\ status'[n] \notin {"absent", "attic"}
                 /\ \/ RecordNode(n)
                    \/ status'[n] \notin ProvedStatus /\ body'[n] = body[n]
           /\ UNCHANGED pin \/ (RepinEdges(n) /\ RepinNode(n))
<1>1. /\ phase = "dispatch" /\ UNCHANGED <<phase, todo, step, plan, runs, ending, stmt>> /\ Scheduled(n)
      /\ UNCHANGED pin \/ (RepinEdges(n) /\ RepinNode(n))
      /\ where[n] # "idle"
      /\ UNCHANGED where \/ \E at : Becomes(n, at)
  BY DEF NodeStep, BeginNode, GiveUp, ClaimNode, StartAttempt, AttemptProved, AttemptUnproved,
       RecordNode, RepinNode, RetryNode, ContestNode, LeaveOpen, ParkNode, InDispatch, graph
<1>2. GraphInv /\ Present(n) /\ \A m \in Node \ {n} : where'[m] = where[m]
  BY <1>1 DEF IInv, ProcessInv, CoroutinesAreDispatched, Becomes
<1>3. CASE RecordNode(n)
  <2>1. RecordProof(n, taken) /\ where[n] = "accepted"
    BY <1>3 DEF RecordNode, InDispatch
  <2>2. status[n] = "claimed"
    BY <2>1 DEF PlaceInv, ClaimsAreOfHolders
  <2> QED
    BY <1>1, <1>2, <1>3, <2>1, <2>2, RecordProofMoves DEF ProvedStatus
<1>4. CASE ClaimNode(n) \/ ContestNode(n) \/ LeaveOpen(n) \/ ParkNode(n)
  <2>1. PICK new \in {"claimed", "contested", "open", "stuck"} : SetStatus(n, new, FALSE)
    BY <1>4 DEF ClaimNode, ContestNode, LeaveOpen, ParkNode
  <2>2. status[n] \notin {"gated", "integrated", "attic"} \/ status'[n] = status[n]
    <3>1. CASE ClaimNode(n)
      BY <3>1 DEF ClaimNode, SetStatus, MayMove, Moves, HumanMoves, GraphInv
    <3>2. CASE ContestNode(n)
      BY <3>2 DEF ContestNode, SetStatus, MayMove, Moves, HumanMoves
    <3>3. CASE LeaveOpen(n)
      BY <3>3 DEF LeaveOpen, InDispatch, PlaceInv, ClaimsAreOfHolders
    <3>4. CASE ParkNode(n)
      BY <3>4 DEF ParkNode
    <3> QED
      BY <1>4, <3>1, <3>2, <3>3, <3>4
  <2>3. status'[n] = new /\ (Proved(n) => new = "open")
        /\ \A m \in Node \ {n} : status'[m] = status[m] /\ body'[m] = body[m]
    BY <1>2, <2>1, SetStatusMoves
  <2>4. ~Proved(n)
    BY <2>2, <2>3 DEF Proved, ProvedStatus
  <2>5. epoch' = epoch /\ body' = body
    BY <1>2, <2>1, <2>4, SetStatusMoves
  <2> QED
    BY <1>1, <1>2, <2>2, <2>3, <2>4, <2>5 DEF Proved, ProvedStatus, Present
<1>5. CASE UNCHANGED <<status, epoch, body>>
  BY <1>1, <1>2, <1>5
<1> QED
  BY <1>3, <1>4, <1>5 DEF NodeStep, BeginNode, GiveUp, StartAttempt, AttemptProved, AttemptUnproved,
       RepinNode, RetryNode, graph

\* Where a step brings its coroutine: who works on the node has claimed it.
LEMMA NodeWhere ==
    ASSUME IInv, PlaceInv, NEW n \in Node, NodeStep(n)
    PROVE  /\ where'[n] \in {"claimed", "working", "accepted", "ungated"} => status'[n] = "claimed"
           /\ where'[n] = "accepted" => AttemptProved(n)
           /\ where'[n] = "recorded" => RecordNode(n)
           /\ where[n] = "accepted" => RecordNode(n)
           /\ where[n] = "recorded" => RepinNode(n)
<1>1. n \in DOMAIN where /\ n \in DOMAIN status
  BY DEF IInv, ProcessInv, GraphInv
<1>2. CASE ClaimNode(n)
  BY <1>1, <1>2 DEF ClaimNode, SetStatus, Becomes, InDispatch
<1>3. CASE StartAttempt(n)
  BY <1>1, <1>3 DEF StartAttempt, Becomes, InDispatch, PlaceInv, ClaimsAreOfHolders
<1>4. CASE AttemptProved(n) \/ AttemptUnproved(n)
  <2>1. status' = status /\ status[n] = "claimed" /\ where[n] = "working"
    BY <1>4 DEF AttemptProved, AttemptUnproved, InDispatch, PlaceInv, ClaimsAreOfHolders
  <2>2. CASE AttemptProved(n)
    BY <1>1, <2>1, <2>2 DEF AttemptProved, Becomes
  <2>3. CASE AttemptUnproved(n)
    <3>1. where'[n] \in {"failed", "contesting", "ungated", "parking"}
      BY <1>1, <2>3 DEF AttemptUnproved, Becomes, Unproved
    <3> QED
      BY <2>1, <3>1
  <2> QED
    BY <1>4, <2>2, <2>3
<1>5. CASE RecordNode(n) \/ RepinNode(n)
  BY <1>1, <1>5 DEF RecordNode, RepinNode, Becomes, InDispatch
<1>6. CASE BeginNode(n) \/ GiveUp(n) \/ RetryNode(n) \/ ContestNode(n) \/ LeaveOpen(n) \/ ParkNode(n)
  BY <1>1, <1>6 DEF BeginNode, GiveUp, RetryNode, ContestNode, LeaveOpen, ParkNode, Becomes, InDispatch
<1> QED
  BY <1>2, <1>3, <1>4, <1>5, <1>6 DEF NodeStep

\* The dispatch keeps the children as they are, and writes only what is claimed.
LEMMA PlaceNode ==
    ASSUME IInv, PlaceInv, NEW n \in Node, NodeStep(n)
    PROVE  PlaceInv'
<1>1. /\ phase = "dispatch" /\ UNCHANGED <<phase, plan, runs, stmt>>
      /\ \A m \in Node \ {n} : status'[m] = status[m] /\ where'[m] = where[m]
      /\ \/ status'[n] = status[n]
         \/ status[n] \notin ProvedStatus \cup {"absent", "attic"} /\ status'[n] \notin {"absent", "attic"}
  BY NodeMoves
<1>2. (Agrees => Agrees') /\ (Trimmed => Trimmed')
  BY <1>1, ChildrenStand
<1>3. PlanSettles'
  BY <1>1, <1>2 DEF PlaceInv, PlanSettles
<1>4. ClaimsAreOfHolders'
  BY <1>1, NodeWhere DEF PlaceInv, ClaimsAreOfHolders
<1> QED
  BY <1>3, <1>4 DEF PlaceInv

\* Every step leaves a process where its phase says, whatever is killed and edited.
LEMMA PlaceNext ==
    ASSUME IInv, BudgetInv, PlaceInv, [Next]_vars
    PROVE  PlaceInv'
<1>1. CASE StartRun \/ Kill \/ EnsureRoot \/ Integrate \/ NotIntegrated
  BY <1>1, PlaceAtEnds DEF Kill, NotIntegrated
<1>2. CASE Reconciled \/ Retired \/ Resumed \/ Dispatch \/ Dispatched
  BY <1>2, PlacePhase, PlaceAtEnds DEF Retired
<1>3. ASSUME NEW c \in Child, ReconcileStep(c) PROVE PlaceInv'
  <2>1. CASE PlanProofRefused(c) \/ PlanProofRejected(c)
    BY <2>1, PlaceAtEnds DEF PlanProofRefused, PlanProofRejected
  <2>2. CASE RetireDropped(c)
    BY <2>2, PlaceRetire
  <2>3. CASE AddChild(c) \/ RestateChild(c) \/ DemandEdge(c) \/ KeepChild(c) \/ TakePlanProof(c)
             \/ RecordPlanProof(c) \/ NoPlanProof(c)
    <3>1. phase = "reconcile"
      BY <2>3 DEF AddChild, RestateChild, DemandEdge, KeepChild, TakePlanProof, RecordPlanProof,
           NoPlanProof, At
    <3> QED
      BY <2>3, <3>1, PlaceReconcile
  <2> QED
    BY <1>3, <2>1, <2>2, <2>3 DEF ReconcileStep
<1>4. ASSUME NEW n \in Node, ResumeStep(n) \/ RevalidateStep(n) \/ NodeStep(n) PROVE PlaceInv'
  BY <1>4, PlaceResume, PlaceRevalidate, PlaceNode
<1>5. CASE UNCHANGED vars
  <2>1. PlanSettles'
    BY <1>5 DEF vars, graph, process, PlaceInv, PlanSettles, Agrees, Trimmed, Stated, LiveChild, Proved, Turn
  <2>2. ClaimsAreOfHolders'
    BY <1>5 DEF vars, graph, process, PlaceInv, ClaimsAreOfHolders, Proved, Turn, Salvageable, GatedRows
  <2> QED
    BY <2>1, <2>2 DEF PlaceInv
<1> QED
  BY <1>1, <1>2, <1>3, <1>4, <1>5 DEF Next, Advance, Exhausted

\* With that, a process is where its phase says in every state.
LEMMA PlaceHolds == Spec => [](BudgetInv /\ PlaceInv)
<1>1. Init => PlaceInv
  BY DEF Init, PlaceInv, PlanSettles, ClaimsAreOfHolders, Node
<1>2. IInv /\ BudgetInv /\ PlaceInv /\ [Next]_vars => BudgetInv' /\ PlaceInv'
  BY BudgetNext, PlaceNext
<1>3. Init => BudgetInv
  BY InitBudget
<1> QED
  BY <1>1, <1>2, <1>3, Inductive, PTL DEF Spec

-----------------------------------------------------------------------------
(* The salvage *)

\* A proof is due: a row holds it, of the present statement, and the node does not.  A kill
\* is between the two, or the moment before it.
Due(n) == ~Proved(n) /\ Salvageable(n)

\* A node its proof is due to stays claimed and in the plan, resume has yet to come to it,
\* and nobody works on it again before.
DueIsHeld ==
    \A n \in Node : Due(n) =>
        /\ status[n] = "claimed" /\ runs # 0
        /\ n \in Stated(plan) \cup {Root}
        /\ phase = "resume" => n \in todo
        /\ phase = "dispatch" => where[n] = "accepted"
        /\ phase \notin {"revalidate", "integrate"}

\* Where no plan is edited after a kill, the plan is then still the one that was dispatched,
\* so that no process is refused or has anything to retire before the proof is given.
DueIsSettled ==
    ~EditAfterKill =>
        \A n \in Node : Due(n) => Agrees /\ Trimmed /\ (phase = "down" => ending = "killed")

SalvageInv == DueIsHeld /\ DueIsSettled

\* A step that makes nothing due, while the process goes on.
LEMMA DueStays ==
    ASSUME SalvageInv, PlaceInv', UNCHANGED <<plan, runs>>,
           phase' \in {"root", "reconcile", "retire", "resume", "dispatch"},
           \A n \in Node : Due(n)' =>
               /\ Due(n) /\ status'[n] = status[n]
               /\ phase' = "resume" => n \in todo'
               /\ phase' = "dispatch" => where'[n] = "accepted",
           phase' \in {"root", "reconcile", "retire"} =>
               \A n \in Node : ~EditAfterKill /\ Due(n) => Agrees' /\ Trimmed'
    PROVE  SalvageInv'
<1>1. DueIsHeld'
  BY DEF SalvageInv, DueIsHeld, Stated
<1>2. ASSUME ~EditAfterKill, NEW n \in Node, Due(n)' PROVE Agrees' /\ Trimmed'
  <2>1. CASE phase' \in {"root", "reconcile", "retire"}
    BY <1>2, <2>1
  <2>2. CASE phase' \in {"resume", "dispatch"}
    BY <2>2 DEF PlaceInv, PlanSettles
  <2> QED
    BY <2>1, <2>2
<1>3. DueIsSettled'
  BY <1>2 DEF DueIsSettled
<1> QED
  BY <1>1, <1>3 DEF SalvageInv

\* Where nothing is due, nothing is asked.
LEMMA NothingDue ==
    ASSUME \A n \in Node : ~Due(n)'
    PROVE  SalvageInv'
BY DEF SalvageInv, DueIsHeld, DueIsSettled

\* A process that is killed leaves what is due where it was; one that ends by itself leaves
\* nothing due, unless the plan was edited over a kill.
LEMMA SalvageExit ==
    ASSUME IInv, SalvageInv, NEW how, Exit(how),
           how # "killed" /\ ~EditAfterKill => \A n \in Node : ~Due(n)
    PROVE  SalvageInv'
<1>1. UNCHANGED <<status, epoch, rows, stmt, plan, runs>> /\ phase' = "down" /\ ending' = how
  BY DEF Exit, graph
<1>2. \A n \in Node : Due(n)' <=> Due(n)
  BY <1>1 DEF Due, Proved, Salvageable, GatedRows
<1>3. (Agrees' <=> Agrees) /\ (Trimmed' <=> Trimmed)
  BY <1>1 DEF Agrees, Trimmed, Stated, LiveChild, Proved
<1>4. DueIsHeld'
  BY <1>1, <1>2 DEF SalvageInv, DueIsHeld, Stated
<1>5. DueIsSettled'
  BY <1>1, <1>2, <1>3 DEF SalvageInv, DueIsSettled
<1> QED
  BY <1>4, <1>5 DEF SalvageInv

\* An edit that drops nothing leaves in the plan what it states.
LEMMA StatedKept ==
    ASSUME "drop" \notin EditKinds, plan \in Plan, plan' \in Plan, Edit(plan, plan'),
           NEW c \in Stated(plan)
    PROVE  c \in Stated(plan')
<1>1. PICK n \in Node :
          /\ \A m \in Node \ {n} : plan'[m] = plan[m]
          /\ \/ plan'[n] = plan[n]
             \/ {plan[n].stmt, plan'[n].stmt} \subseteq Stmt
             \/ n = Root
             \/ plan'[n] = [plan[n] EXCEPT !.proof = TRUE]
  BY DEF Edit
<1>2. c \in Child /\ c \in Node /\ c # Root /\ plan[c].stmt # NoStmt
      /\ plan[c] \in [stmt : Stmt \cup {NoStmt}, proof : BOOLEAN]
  BY RootAssumption DEF Plan, Stated, Node
<1>3. CASE c # n
  BY <1>1, <1>2, <1>3 DEF Stated
<1>4. CASE c = n
  <2>1. plan'[c].stmt = plan[c].stmt \/ plan'[c].stmt \in Stmt
    BY <1>1, <1>2, <1>4
  <2> QED
    BY <1>2, <2>1, StmtAssumption DEF Stated
<1> QED
  BY <1>3, <1>4

\* A new process reads a plan that still states what is due.
LEMMA SalvageStart ==
    ASSUME "drop" \notin EditKinds \/ ~EditAfterKill, IInv, SalvageInv, StartRun
    PROVE  SalvageInv'
<1>1. /\ UNCHANGED <<status, epoch, rows, stmt, where>> /\ phase = "down" /\ phase' = "root"
      /\ runs \in Nat /\ runs' = runs + 1
  BY DEF StartRun, Enter, graph, IInv, ProcessInv
<1>2. \A n \in Node : Due(n)' <=> Due(n)
  BY <1>1 DEF Due, Proved, Salvageable, GatedRows
<1>3. ASSUME NEW n \in Node, Due(n) PROVE n \in Stated(plan') \cup {Root}
  <2>1. runs # 0 /\ n \in Stated(plan) \cup {Root} /\ (~EditAfterKill => ending = "killed")
    BY <1>1, <1>3 DEF SalvageInv, DueIsHeld, DueIsSettled
  <2>2. CASE plan' = plan
    BY <2>1, <2>2
  <2>3. CASE EditAfterKill /\ plan' \in Plan /\ Edit(plan, plan')
    BY <2>1, <2>3, StatedKept DEF IInv, ProcessInv
  <2>4. CASE ~EditAfterKill /\ plan' # plan
    BY <2>1, <2>4 DEF StartRun
  <2>5. CASE EditAfterKill /\ plan' # plan
    BY <2>1, <2>3, <2>5 DEF StartRun
  <2> QED
    BY <2>2, <2>4, <2>5
<1>4. ASSUME ~EditAfterKill, NEW n \in Node, Due(n) PROVE Agrees' /\ Trimmed'
  <2>1. ending = "killed" /\ runs # 0 /\ Agrees /\ Trimmed
    BY <1>1, <1>4 DEF SalvageInv, DueIsHeld, DueIsSettled
  <2>2. plan' = plan
    BY <1>4, <2>1 DEF StartRun
  <2> QED
    BY <1>1, <2>1, <2>2 DEF Agrees, Trimmed, Stated, LiveChild, Proved
<1>5. DueIsHeld'
  <2>1. runs' # 0
    BY <1>1
  <2> QED
    BY <1>1, <1>2, <1>3, <2>1 DEF SalvageInv, DueIsHeld
<1>6. DueIsSettled'
  BY <1>1, <1>2, <1>4 DEF DueIsSettled
<1> QED
  BY <1>5, <1>6 DEF SalvageInv

\* A new statement, or a new node, has nothing to salvage.
LEMMA RestateSalvage ==
    ASSUME GraphInv, NEW n \in Node, NEW s, Restate(n, s), UNCHANGED rows
    PROVE  /\ \A m \in Node \ {n} : status'[m] = status[m] /\ (Salvageable(m)' => Salvageable(m))
           /\ ~Salvageable(n)'
<1>1. \A m \in Node \ {n} : status'[m] = status[m] /\ epoch'[m] = epoch[m]
  BY DEF Restate, GraphInv
<1>2. epoch'[n] = epoch[n] + 1
  BY DEF Restate, GraphInv
<1> QED
  BY <1>1, <1>2, RowsStay

\* A node that is added has no rows.
LEMMA AddSalvage ==
    ASSUME GraphInv, NEW n \in Node, ~Present(n), NEW s, NEW new, NEW p, AddNode(n, s, new, p), UNCHANGED rows
    PROVE  /\ \A m \in Node \ {n} : status'[m] = status[m] /\ (Salvageable(m)' => Salvageable(m))
           /\ ~Salvageable(n)'
<1>1. \A m \in Node \ {n} : status'[m] = status[m]
  BY DEF AddNode, GraphInv
<1>2. \A m \in Node : epoch'[m] = epoch[m]
  BY DEF AddNode
<1>3. ~Salvageable(n)
  BY EmptySeq DEF GraphInv, StatedOncePresent, Salvageable, GatedRows
<1> QED
  BY <1>1, <1>2, <1>3, RowsStay

\* A root stated anew is due nothing.
LEMMA SalvageRoot ==
    ASSUME IInv, SalvageInv, PlaceInv', EnsureRoot
    PROVE  SalvageInv'
<1>1. /\ GraphInv /\ Root \in Node /\ UNCHANGED <<rows, plan, runs>>
      /\ phase = "root" /\ phase' = "reconcile"
  BY DEF IInv, EnsureRoot, At, Enter, Node
<1>2. /\ \A m \in Node \ {Root} : status'[m] = status[m] /\ stmt'[m] = stmt[m]
                                    /\ (Salvageable(m)' => Salvageable(m))
      /\ Salvageable(Root)' => status'[Root] = status[Root] /\ Salvageable(Root)
  <2>1. CASE ~Present(Root) /\ AddNode(Root, plan[Root].stmt, "open", NoProof)
    BY <1>1, <2>1, AddSalvage DEF AddNode, GraphInv
  <2>2. CASE Restate(Root, plan[Root].stmt)
    BY <1>1, <2>2, RestateSalvage DEF Restate, GraphInv
  <2>3. CASE UNCHANGED <<status, stmt, epoch>>
    BY <1>1, <2>3, RowsStay
  <2> QED
    BY <2>1, <2>2, <2>3 DEF EnsureRoot
<1>3. \A n \in Node : Due(n)' => Due(n) /\ status'[n] = status[n]
  BY <1>1, <1>2 DEF Due, Proved
<1>4. (Agrees => Agrees') /\ (Trimmed => Trimmed')
  <2>1. \A c \in Child : status'[c] = status[c] /\ stmt'[c] = stmt[c]
    BY <1>2, RootAssumption DEF Node
  <2> QED
    BY <1>1, <2>1 DEF Agrees, Trimmed, Stated, LiveChild, Proved
<1>5. \A n \in Node : ~EditAfterKill /\ Due(n) => Agrees' /\ Trimmed'
  BY <1>4 DEF SalvageInv, DueIsSettled
<1> QED
  BY <1>1, <1>3, <1>5, DueStays

\* The reconciliation: what it claims or opens again was due nothing, or is stated anew.
LEMMA SalvageReconcile ==
    ASSUME IInv, SalvageInv, PlaceInv', NEW c \in Child, phase = "reconcile",
           AddChild(c) \/ RestateChild(c) \/ DemandEdge(c) \/ KeepChild(c)
             \/ TakePlanProof(c) \/ RecordPlanProof(c) \/ NoPlanProof(c)
    PROVE  SalvageInv'
<1>1. /\ GraphInv /\ ProcessInv /\ UNCHANGED <<rows, plan, phase, where, runs, ending>> /\ Turn(c)
      /\ c \in Node /\ c # Root /\ Root \in Node /\ todo \subseteq Node /\ c \in todo
      /\ plan[c].stmt \in Stmt /\ c \in Stated(plan)
      /\ \A m \in Node \ {c} : status'[m] = status[m] /\ epoch'[m] = epoch[m] /\ stmt'[m] = stmt[m]
  BY ReconcileMoves
<1>2. \A m \in Node \ {c} : Due(m)' => Due(m) /\ status'[m] = status[m]
  BY <1>1, RowsStay DEF Due, Proved
<1>3. Due(c)' => Due(c) /\ status'[c] = status[c]
  <2>1. CASE AddChild(c)
    BY <1>1, <2>1, AddSalvage DEF AddChild, Due
  <2>2. CASE RestateChild(c)
    BY <1>1, <2>2, RestateSalvage DEF RestateChild, Due
  <2>3. CASE \E new, human : SetStatus(c, new, human) /\ status[c] \in {"attic", "open"}
    <3>1. Salvageable(c)' => Salvageable(c)
      BY <1>1, <2>3, SetStatusSalvage
    <3>2. ~Due(c) /\ ~Proved(c)
      BY <1>1, <2>3 DEF SalvageInv, DueIsHeld, Proved, ProvedStatus
    <3> QED
      BY <3>1, <3>2 DEF Due
  <2>4. CASE RecordPlanProof(c)
    BY <1>1, <2>4, RecordProofMoves DEF RecordPlanProof, Due, Proved, ProvedStatus
  <2>5. CASE UNCHANGED <<status, epoch>>
    BY <1>1, <2>5, RowsStay DEF Due, Proved
  <2> QED
    BY <2>1, <2>2, <2>3, <2>4, <2>5 DEF DemandEdge, KeepChild, TakePlanProof, NoPlanProof, graph
<1>4. ASSUME ~EditAfterKill, NEW n \in Node, Due(n) PROVE Agrees' /\ Trimmed'
  <2>2. Agrees /\ Trimmed
    BY <1>4 DEF SalvageInv, DueIsSettled
  <2>3. stmt[c] = plan[c].stmt /\ Present(c)
    BY <1>1, <2>2, StmtAssumption DEF Agrees, GraphInv, StatedOncePresent
  <2>4. ~AddChild(c) /\ ~RestateChild(c)
    BY <2>3 DEF AddChild, RestateChild
  <2>5. UNCHANGED stmt
    BY <2>4 DEF DemandEdge, KeepChild, TakePlanProof, RecordPlanProof, NoPlanProof, graph
  <2>7. Proved(c) => Proved(c)'
    <3>1. CASE status'[c] = status[c] \/ RecordPlanProof(c)
      BY <1>1, <3>1 DEF Proved, RecordPlanProof, RecordProof, GraphInv, ProvedStatus
    <3>2. CASE KeepChild(c) /\ status[c] = "attic"
      BY <3>2 DEF Proved, ProvedStatus
    <3>3. CASE TakePlanProof(c)
      BY <3>3 DEF TakePlanProof
    <3> QED
      BY <2>4, <3>1, <3>2, <3>3 DEF DemandEdge, KeepChild, NoPlanProof, graph
  <2>8. Agrees'
    BY <1>1, <2>2, <2>5, <2>7 DEF Agrees, Stated, Node, Proved
  <2>9. LiveChild \subseteq LiveChild' /\ LiveChild' \subseteq LiveChild \cup {c}
    <3>1. status'[c] = status[c] \/ status'[c] \in {"open", "claimed", "gated"}
      BY <1>1, <2>4 DEF DemandEdge, KeepChild, TakePlanProof, RecordPlanProof, NoPlanProof, graph,
           SetStatus, RecordProof, GraphInv
    <3> QED
      BY <1>1, <3>1 DEF LiveChild, Node
  <2>10. Trimmed'
    BY <1>1, <2>2, <2>9 DEF Trimmed, LiveChild, Stated, Node, Proved
  <2> QED
    BY <2>8, <2>10
<1> QED
  BY <1>1, <1>2, <1>3, <1>4, DueStays

\* No plan's proof is refused, or fails, while a proof is due: the plan is the one the
\* graph has been brought to.
LEMMA SalvageRefused ==
    ASSUME IInv, PlaceInv, SalvageInv, NEW c \in Child, PlanProofRefused(c) \/ PlanProofRejected(c)
    PROVE  SalvageInv'
<1>1. /\ phase = "reconcile" /\ c \in Stated(plan) /\ c \in todo /\ Turn(c) /\ c \in Node
      /\ \/ step = "record"
         \/ step = "look" /\ ~Present(c)
         \/ step = "take" /\ ~Proved(c) /\ plan[c].proof
  BY DEF PlanProofRefused, PlanProofRejected, At, Turn, IInv, ProcessInv, ReconciledSoFar, Node
<1>2. ASSUME ~EditAfterKill, NEW n \in Node, Due(n) PROVE FALSE
  <2>1. stmt[c] = plan[c].stmt /\ (plan[c].proof => Proved(c))
    BY <1>1, <1>2 DEF SalvageInv, DueIsSettled, Agrees
  <2>2. stmt[c] # NoStmt
    BY <1>1, <2>1 DEF Stated
  <2>3. Present(c)
    BY <1>1, <2>2 DEF IInv, GraphInv, StatedOncePresent
  <2>4. step = "record" => plan[c].proof /\ ~Proved(c)
    BY <1>1 DEF PlaceInv, PlanSettles
  <2> QED
    BY <1>1, <2>1, <2>3, <2>4
<1> QED
  BY <1>2, SalvageExit DEF PlanProofRefused, PlanProofRejected

\* What is retired is due nothing: the plan states what is.
LEMMA SalvageRetire ==
    ASSUME IInv, PlaceInv, PlaceInv', SalvageInv, NEW c \in Child, RetireDropped(c)
    PROVE  SalvageInv'
<1>1. /\ GraphInv /\ UNCHANGED <<rows, plan, phase, runs>>
      /\ phase = "retire" /\ SetStatus(c, "attic", TRUE) /\ c \in Node /\ c # Root /\ c \in todo
      /\ todo = {d \in LiveChild \ Stated(plan) : ~Proved(d)}
  BY RootAssumption DEF RetireDropped, At, Turn, IInv, Node, PlaceInv, PlanSettles
<1>2. /\ \A m \in Node : m # c => status'[m] = status[m]
      /\ \A m \in Node : Salvageable(m)' => Salvageable(m)
  BY <1>1, SetStatusSalvage
<1>3. ~Salvageable(c)
  BY <1>1 DEF SalvageInv, DueIsHeld, Due
<1>4. \A n \in Node : Due(n)' => Due(n) /\ status'[n] = status[n]
  BY <1>2, <1>3 DEF Due, Proved
<1>5. \A n \in Node : ~EditAfterKill /\ Due(n) => FALSE
  BY <1>1 DEF SalvageInv, DueIsSettled, Trimmed
<1> QED
  BY <1>1, <1>4, <1>5, DueStays

\* One phase gives way to the next: what is due is given before anything is dispatched.
LEMMA SalvagePhase ==
    ASSUME IInv, SalvageInv, PlaceInv', Reconciled \/ Retired \/ Resumed \/ Dispatch \/ Dispatched
    PROVE  SalvageInv'
<1>1. CASE Retired /\ LiveChild = {}
  <2>1. ~EditAfterKill => \A n \in Node : ~Due(n)
    BY <1>1 DEF SalvageInv, DueIsSettled, Trimmed
  <2> QED
    BY <1>1, <2>1, SalvageExit DEF Retired
<1>2. CASE Reconciled \/ (Retired /\ LiveChild # {})
  <2>1. /\ UNCHANGED <<status, epoch, stmt, rows, plan, runs>> /\ phase' \in {"retire", "resume"}
        /\ phase' = "resume" => todo' = {n \in Node : Present(n)}
    BY <1>2 DEF Reconciled, Retired, Enter, graph
  <2>2. \A n \in Node : Due(n)' <=> Due(n)
    BY <2>1 DEF Due, Proved, Salvageable, GatedRows
  <2>3. (Agrees' <=> Agrees) /\ (Trimmed' <=> Trimmed)
    BY <2>1 DEF Agrees, Trimmed, Stated, LiveChild, Proved
  <2>4. \A n \in Node : Due(n) => Present(n) /\ (~EditAfterKill => Agrees /\ Trimmed)
    BY DEF SalvageInv, DueIsHeld, DueIsSettled, Present
  <2> QED
    BY <2>1, <2>2, <2>3, <2>4, DueStays
<1>3. CASE Resumed \/ Dispatch \/ Dispatched
  <2>1. UNCHANGED <<status, epoch, rows>>
    BY <1>3 DEF Resumed, Dispatch, Dispatched, graph
  <2>2. \A n \in Node : ~Due(n)
    BY <1>3 DEF Resumed, Dispatch, Dispatched, Resting, SalvageInv, DueIsHeld
  <2>3. \A n \in Node : ~Due(n)'
    BY <2>1, <2>2 DEF Due, Proved, Salvageable, GatedRows
  <2> QED
    BY <2>3, NothingDue
<1> QED
  BY <1>1, <1>2, <1>3

\* resume goes by no node its proof is due to without giving it.
LEMMA SalvageResume ==
    ASSUME IInv, BudgetInv, PlaceInv, PlaceInv', SalvageInv, NEW n \in Node, ResumeStep(n)
    PROVE  SalvageInv'
<1>1. /\ phase = "resume" /\ UNCHANGED <<phase, plan, runs, where, epoch>>
      /\ Turn(n) /\ n \in todo
      /\ \A m \in Node \ {n} : status'[m] = status[m]
      /\ \/ status'[n] = status[n]
         \/ status[n] \in {"claimed", "stuck"} /\ status'[n] \in {"gated", "open"}
  BY ResumeMoves
<1>2. \A m \in Node : Salvageable(m)' => Salvageable(m)
  BY PlaceResume
<1>3. todo' \in {todo, todo \ {n}}
  BY DEF ResumeStep, Salvage, SalvageRepin, SalvageClose, CloseInterrupted, ReopenInterrupted,
       ReopenStuck, LeaveAlone, GoTo, NextNode
<1>4. ASSUME Due(n)' PROVE FALSE
  <2>1. ~Proved(n) /\ Salvageable(n) /\ ~Proved(n)'
    BY <1>1, <1>2, <1>4 DEF Due, Proved, ProvedStatus
  <2>2. status[n] = "claimed"
    BY <2>1 DEF SalvageInv, DueIsHeld, Due
  <2>3. step \notin {"reopen", "repin", "close"}
    BY <1>1, <2>1 DEF PlaceInv, ClaimsAreOfHolders
  <2>4. ~Salvage(n)
    <3> SUFFICES ASSUME Salvage(n) PROVE FALSE
      OBVIOUS
    <3>1. PICK p : RecordProof(n, p)
      BY DEF Salvage
    <3> QED
      BY <2>1, <3>1, RecordProofMoves DEF IInv, Proved, ProvedStatus
  <2> QED
    BY <2>1, <2>2, <2>3, <2>4 DEF ResumeStep, SalvageRepin, SalvageClose, CloseInterrupted,
         ReopenInterrupted, ReopenStuck, LeaveAlone, At
<1>5. \A m \in Node : Due(m)' => m # n /\ Due(m) /\ status'[m] = status[m]
  BY <1>1, <1>2, <1>4 DEF Due, Proved
<1>6. \A m \in Node : Due(m)' => m \in todo'
  BY <1>1, <1>3, <1>5 DEF SalvageInv, DueIsHeld
<1> QED
  BY <1>1, <1>5, <1>6, DueStays

\* revalidate: a proof that no longer holds goes under a new epoch, and nothing becomes due.
LEMMA SalvageRevalidate ==
    ASSUME IInv, SalvageInv, NEW n \in Node, RevalidateStep(n)
    PROVE  SalvageInv'
<1>1. phase = "revalidate"
  BY DEF RevalidateStep, ReplayHolds, ReplayRepin, ReplayFails, ReplayCannotRun, NothingToReplay, At
<1>2. GraphInv /\ \A m \in Node : ~Due(m)
  BY <1>1 DEF IInv, SalvageInv, DueIsHeld
<1>3. CASE ReplayCannotRun(n)
  BY <1>2, <1>3, SalvageExit DEF ReplayCannotRun
<1>4. CASE ReplayHolds(n) \/ ReplayRepin(n) \/ ReplayFails(n) \/ NothingToReplay(n)
  <2>1. CASE UNCHANGED <<status, epoch, rows>>
    <3>1. \A m \in Node : ~Due(m)'
      BY <1>2, <2>1 DEF Due, Proved, Salvageable, GatedRows
    <3> QED
      BY <3>1, NothingDue
  <2>2. CASE ReplayFails(n)
    <3>1. Proved(n) /\ SetStatus(n, "open", TRUE) /\ UNCHANGED rows
      BY <2>2 DEF ReplayFails
    <3>2. /\ \A m \in Node : m # n => status'[m] = status[m]
          /\ \A m \in Node : Salvageable(m)' => Salvageable(m)
          /\ ~Salvageable(n)'
      BY <1>2, <3>1, SetStatusSalvage
    <3>3. \A m \in Node : ~Due(m)'
      BY <1>2, <3>2 DEF Due, Proved
    <3> QED
      BY <3>3, NothingDue
  <2> QED
    BY <1>4, <2>1, <2>2 DEF ReplayHolds, ReplayRepin, NothingToReplay, graph
<1> QED
  BY <1>3, <1>4 DEF RevalidateStep

\* The dispatch: only what a gate accepts becomes due, and recording it is next.
LEMMA SalvageNode ==
    ASSUME IInv, BudgetInv, PlaceInv, PlaceInv', SalvageInv, NEW n \in Node, NodeStep(n)
    PROVE  SalvageInv'
<1>1. /\ phase = "dispatch" /\ UNCHANGED <<phase, plan, runs, epoch>>
      /\ \A m \in Node \ {n} : status'[m] = status[m] /\ where'[m] = where[m]
      /\ \/ status'[n] = status[n]
         \/ status[n] \notin ProvedStatus \cup {"absent", "attic"}
  BY NodeMoves
<1>2. GraphInv /\ where \in [Node -> Where]
  BY DEF IInv, ProcessInv
<1>3. /\ \A m \in Node \ {n} : Salvageable(m)' => Salvageable(m)
      /\ ~AttemptProved(n) => (Salvageable(n)' => Salvageable(n))
  <2>1. CASE StartAttempt(n)
    BY <1>1, <1>2, <2>1, StartRowCharges, RowsStay DEF StartAttempt
  <2>2. CASE AttemptProved(n)
    <3>1. \A m \in Node \ {n} : rows'[m] = rows[m]
      BY <1>2, <2>2 DEF AttemptProved, FinishRow, GraphInv
    <3> QED
      BY <1>1, <1>2, <2>2, <3>1, RowsStay
  <2>3. CASE AttemptUnproved(n)
    <3>1. PICK o \in RowStatus : FinishRow(n, o, NoProof) /\ o # "qed"
      BY <2>3 DEF AttemptUnproved, Unproved, RowStatus
    <3>2. rows[n] # << >> /\ rows[n][Len(rows[n])].status = "claimed"
      BY <2>3 DEF BudgetInv, AttemptUnproved, InDispatch
    <3> QED
      BY <1>1, <1>2, <3>1, <3>2, FinishRowCharges, RowsStay
  <2>4. CASE UNCHANGED rows
    BY <1>1, <1>2, <2>4, RowsStay
  <2> QED
    BY <2>1, <2>2, <2>3, <2>4 DEF NodeStep, BeginNode, GiveUp, ClaimNode, RecordNode, RepinNode, RetryNode,
         ContestNode, LeaveOpen, ParkNode, graph
<1>4. \A m \in Node \ {n} : Due(m)' => Due(m)
  BY <1>1, <1>3 DEF Due, Proved
<1>5. CASE ~AttemptProved(n)
  <2>1. ASSUME Due(n)' PROVE FALSE
    <3>1. ~Proved(n) /\ Salvageable(n) /\ ~Proved(n)'
      BY <1>1, <1>3, <1>5, <2>1 DEF Due, Proved
    <3>2. RecordNode(n)
      BY <1>1, <3>1, NodeWhere DEF SalvageInv, DueIsHeld, Due
    <3> QED
      BY <1>2, <3>1, <3>2, RecordProofMoves DEF RecordNode, Proved, ProvedStatus
  <2>2. \A m \in Node : Due(m)' => m # n /\ Due(m) /\ where[m] = "accepted"
    BY <1>1, <1>4, <2>1 DEF SalvageInv, DueIsHeld
  <2> QED
    BY <1>1, <2>2, DueStays
<1>6. CASE AttemptProved(n)
  <2>1. where[n] = "working" /\ where'[n] = "accepted" /\ status' = status
    BY <1>2, <1>6 DEF AttemptProved, InDispatch, Becomes
  <2>2. status[n] = "claimed" /\ Trimmed /\ runs # 0
    BY <1>1, <2>1 DEF PlaceInv, PlanSettles, ClaimsAreOfHolders
  <2>3. n \in Stated(plan) \cup {Root}
    BY <2>2 DEF Trimmed, LiveChild, Node, Proved, ProvedStatus
  <2>4. DueIsHeld'
    BY <1>1, <1>4, <2>1, <2>2, <2>3 DEF SalvageInv, DueIsHeld, Stated
  <2>5. DueIsSettled'
    BY <1>1 DEF DueIsSettled, PlaceInv, PlanSettles
  <2> QED
    BY <2>4, <2>5 DEF SalvageInv
<1> QED
  BY <1>5, <1>6

\* Every step keeps what is due, where nothing due is dropped.
LEMMA SalvageNext ==
    ASSUME "drop" \notin EditKinds \/ ~EditAfterKill, IInv, BudgetInv, PlaceInv, SalvageInv, [Next]_vars
    PROVE  SalvageInv'
<1> PlaceInv'
  BY PlaceNext
<1>1. CASE StartRun
  BY <1>1, SalvageStart
<1>2. CASE Kill \/ NotIntegrated
  BY <1>2, SalvageExit DEF Kill, NotIntegrated, SalvageInv, DueIsHeld
<1>3. CASE EnsureRoot
  BY <1>3, SalvageRoot
<1>4. CASE Reconciled \/ Retired \/ Resumed \/ Dispatch \/ Dispatched
  BY <1>4, SalvagePhase
<1>5. CASE Integrate
  <2>1. /\ UNCHANGED <<epoch, rows>> /\ phase = "integrate"
        /\ \A n \in Node : status'[n] \in {status[n], "integrated"}
    BY <1>5 DEF Integrate
  <2>2. \A n \in Node : ~Due(n)
    BY <2>1 DEF SalvageInv, DueIsHeld
  <2>3. \A n \in Node : ~Due(n)'
    BY <2>1, <2>2 DEF Due, Proved, ProvedStatus, Salvageable, GatedRows
  <2> QED
    BY <2>3, NothingDue
<1>6. ASSUME NEW c \in Child, ReconcileStep(c) PROVE SalvageInv'
  <2>1. CASE PlanProofRefused(c) \/ PlanProofRejected(c)
    BY <2>1, SalvageRefused
  <2>2. CASE RetireDropped(c)
    BY <2>2, SalvageRetire
  <2>3. CASE AddChild(c) \/ RestateChild(c) \/ DemandEdge(c) \/ KeepChild(c) \/ TakePlanProof(c)
             \/ RecordPlanProof(c) \/ NoPlanProof(c)
    <3>1. phase = "reconcile"
      BY <2>3 DEF AddChild, RestateChild, DemandEdge, KeepChild, TakePlanProof, RecordPlanProof,
           NoPlanProof, At
    <3> QED
      BY <2>3, <3>1, SalvageReconcile
  <2> QED
    BY <1>6, <2>1, <2>2, <2>3 DEF ReconcileStep
<1>7. ASSUME NEW n \in Node, ResumeStep(n) \/ RevalidateStep(n) \/ NodeStep(n) PROVE SalvageInv'
  BY <1>7, SalvageResume, SalvageRevalidate, SalvageNode
<1>8. CASE UNCHANGED vars
  BY <1>8 DEF vars, graph, process, SalvageInv, DueIsHeld, DueIsSettled, Due, Proved, Salvageable, GatedRows,
       Agrees, Trimmed, Stated, LiveChild
<1> QED
  BY <1>1, <1>2, <1>3, <1>4, <1>5, <1>6, <1>7, <1>8 DEF Next, Advance, Exhausted

\* With that, what is due is kept in every state.
LEMMA SalvageHolds ==
    ASSUME "drop" \notin EditKinds \/ ~EditAfterKill
    PROVE  Spec => []SalvageInv
<1>1. Init => SalvageInv
  <2> SUFFICES ASSUME Init PROVE SalvageInv
    OBVIOUS
  <2>1. \A n \in Node : ~Due(n)
    BY EmptySeq DEF Init, Due, Salvageable, GatedRows
  <2> QED
    BY <2>1 DEF SalvageInv, DueIsHeld, DueIsSettled
<1>2. IInv /\ BudgetInv /\ PlaceInv /\ SalvageInv /\ [Next]_vars => SalvageInv'
  BY SalvageNext
<1> QED
  BY <1>1, <1>2, Inductive, PlaceHolds, PTL DEF Spec

\* Wherever the processes are killed, no worker is spent on a statement some attempt row
\* already holds a gated proof of: as long as the user drops no obligation from the plan, or
\* edits it only after a process that has returned.
THEOREM NoProofIsEverLost ==
    ASSUME "drop" \notin EditKinds \/ ~EditAfterKill
    PROVE  Spec => []NoProofIsLost
<1>1. IInv /\ PlaceInv /\ SalvageInv => NoProofIsLost
  <2> SUFFICES ASSUME IInv, PlaceInv, SalvageInv, NEW n \in Node, where[n] = "working", Salvageable(n)
               PROVE  FALSE
    BY DEF NoProofIsLost
  <2>1. status[n] = "claimed"
    BY DEF PlaceInv, ClaimsAreOfHolders
  <2>2. Due(n)
    BY <2>1 DEF Due, Proved, ProvedStatus
  <2>3. phase \in {"dispatch", "integrate"}
    BY DEF IInv, ProcessInv, CoroutinesAreDispatched
  <2> QED
    BY <2>2, <2>3 DEF SalvageInv, DueIsHeld
<1> QED
  BY <1>1, Inductive, PlaceHolds, SalvageHolds, PTL

-----------------------------------------------------------------------------
(* The pins *)

\* Every child a proof cites has a demand edge, and has the statement the proof was gated with.
Demanded(p) == \A c \in Cited(p) : pin[c] # NoEdge
Fresh(p) == \A c \in Cited(p) : p.uses[c] = stmt[c]

\* An edge is of a child of the graph and pins an epoch it has had; only a child just added
\* has none.
EdgesFollow ==
    \A c \in Child :
        /\ pin[c] # NoEdge => Present(c) /\ pin[c] <= epoch[c]
        /\ Present(c) /\ pin[c] = NoEdge => phase = "reconcile" /\ step = "edge" /\ Turn(c)

RowsAreDemanded ==
    \A i \in DOMAIN rows[Root] : rows[Root][i].proof # NoProof => Demanded(rows[Root][i].proof)
GatedAreFresh == \A i \in GatedRows(Root) : Fresh(rows[Root][i].proof)

\* Whatever proof the root has, had, or is about to get, cites demanded children.
CitesAreDemanded ==
    /\ Proved(Root) => Demanded(body[Root])
    /\ where[Root] = "accepted" => Demanded(taken)
    /\ RowsAreDemanded

\* What the edges are pinned for was gated with the statements the graph has.
FreshBeforeRepin ==
    /\ where[Root] = "accepted" => Fresh(taken)
    /\ where[Root] = "recorded" => Proved(Root) /\ Fresh(body[Root])
    /\ phase \in {"resume", "revalidate"} /\ step \in {"repin", "close"} /\ Turn(Root)
          => Proved(Root) /\ Fresh(body[Root])

\* No statement has changed since a proof that is due the root was gated: nothing is stated
\* anew between the kill and the salvage.
DueIsFresh == Due(Root) => GatedAreFresh

PinInv ==
    /\ PinsAreHonest
    /\ EdgesFollow
    /\ CitesAreDemanded
    /\ FreshBeforeRepin
    /\ DueIsFresh

\* A proof the gate has just accepted, or replayed, is of the statements of the graph.
LEMMA GatedIsFresh ==
    ASSUME EdgesFollow, phase = "dispatch", NEW p \in GatedProof(Root)
    PROVE  Fresh(p) /\ Demanded(p)
<1>1. PICK S \in SUBSET Citable(Root) :
        p = [of |-> stmt[Root],
             uses |-> [c \in Child |-> IF c \in S THEN stmt[c] ELSE NoStmt]]
  BY DEF GatedProof
<1>2. \A c \in Cited(p) : c \in S /\ c \in Child /\ p.uses[c] = stmt[c]
  BY <1>1 DEF Cited
<1>3. \A c \in S : Present(c)
  BY DEF Citable, LiveChild, Present
<1> QED
  BY <1>2, <1>3 DEF Fresh, Demanded, EdgesFollow

\* A replayed proof cites what it did, in the statements of now.
LEMMA ReplayedIsFresh ==
    ASSUME NEW n \in Node
    PROVE  Fresh(Replayed(n)) /\ Cited(Replayed(n)) \subseteq Cited(body[n])
BY DEF Fresh, Replayed, Cited

\* A fresh proof makes every pin honest.
LEMMA FreshIsHonest ==
    ASSUME Proved(Root) => Fresh(body[Root])
    PROVE  PinsAreHonest
BY DEF Fresh, PinsAreHonest

\* Pins stay honest where neither the root's proof nor a statement changes.
LEMMA HonestStays ==
    ASSUME GraphInv, PinsAreHonest, EdgesFollow, body'[Root] = body[Root], Proved(Root)' => Proved(Root),
           \A c \in Child : stmt'[c] = stmt[c] /\ pin'[c] = pin[c] /\ epoch'[c] \in {epoch[c], epoch[c] + 1}
    PROVE  PinsAreHonest'
<1> SUFFICES ASSUME Proved(Root), NEW c \in Cited(body[Root]), pin[c] = epoch'[c]
             PROVE  body[Root].uses[c] = stmt[c]
  BY DEF PinsAreHonest, Cited
<1>1. c \in Child /\ c \in Node
  BY DEF Cited, Node
<1>2. epoch[c] \in Nat
  BY <1>1 DEF GraphInv
<1>3. epoch'[c] \in {epoch[c], epoch[c] + 1} /\ epoch'[c] \in Nat
  BY <1>1, <1>2
<1>4. pin[c] # NoEdge
  BY <1>3 DEF NoEdge
<1>5. pin[c] <= epoch[c]
  BY <1>1, <1>4 DEF EdgesFollow
<1>6. pin[c] = epoch[c]
  BY <1>2, <1>3, <1>5
<1> QED
  BY <1>6 DEF PinsAreHonest

\* Edges follow their children where children are neither added nor lost.
LEMMA EdgesStay ==
    ASSUME GraphInv, ProcessInv, EdgesFollow, ~(phase = "reconcile" /\ step = "edge"),
           \A c \in Child : Present(c)' <=> Present(c),
           \A c \in Child : epoch'[c] \in {epoch[c], epoch[c] + 1},
           pin' = pin \/ (UNCHANGED epoch /\ \E n \in Node : RepinEdges(n))
    PROVE  EdgesFollow' /\ \A p : Demanded(p) => Demanded(p)'
<1>1. \A c \in Child : epoch[c] \in Nat /\ epoch[c] # NoEdge /\ pin[c] \in Nat \cup {NoEdge}
  BY DEF GraphInv, ProcessInv, Node, NoEdge
<1>2. ASSUME NEW c \in Child
      PROVE  /\ pin'[c] # NoEdge <=> pin[c] # NoEdge
             /\ pin'[c] # NoEdge => pin'[c] <= epoch'[c]
  <2>1. CASE pin' = pin
    BY <1>1, <2>1 DEF EdgesFollow, NoEdge
  <2>2. CASE UNCHANGED epoch /\ \E n \in Node : RepinEdges(n)
    <3>1. pin'[c] \in {pin[c], epoch[c]} /\ (pin'[c] = NoEdge <=> pin[c] = NoEdge)
      BY <1>1, <2>2 DEF RepinEdges
    <3> QED
      BY <1>1, <2>2, <3>1 DEF EdgesFollow
  <2> QED
    BY <2>1, <2>2
<1>3. \A p : Demanded(p) => Demanded(p)'
  BY <1>2 DEF Demanded, Cited
<1> QED
  BY <1>2, <1>3 DEF EdgesFollow

\* Rows that are added, closed, or finished without a proof bring none.
LEMMA RowsBringNone ==
    ASSUME GraphInv, NEW n \in Node,
           \/ StartRow(n)
           \/ CloseClaimedRows(n)
           \/ \E o \in RowStatus : FinishRow(n, o, NoProof) /\ rows[n] # << >>
    PROVE  \A m \in Node : \A i \in DOMAIN rows'[m] : rows'[m][i].proof # NoProof =>
               /\ i \in DOMAIN rows[m] /\ rows'[m][i].proof = rows[m][i].proof
               /\ rows'[m][i].epoch = rows[m][i].epoch
               /\ rows'[m][i].status = "qed" => rows[m][i].status = "qed"
<1> DEFINE s == rows[n]
<1>1. s \in Seq(Row) /\ Len(s) \in Nat /\ DOMAIN s = 1..Len(s) /\ \A i \in DOMAIN s : s[i] \in Row
  BY LenProperties, RowEpochs DEF GraphInv
<1>2. \A m \in Node \ {n} : rows'[m] = rows[m]
  BY DEF GraphInv, StartRow, CloseClaimedRows, FinishRow
<1> SUFFICES ASSUME NEW i \in DOMAIN rows'[n], rows'[n][i].proof # NoProof
             PROVE  /\ i \in DOMAIN s /\ rows'[n][i].proof = s[i].proof
                    /\ rows'[n][i].epoch = s[i].epoch
                    /\ rows'[n][i].status = "qed" => s[i].status = "qed"
  BY <1>2
<1>3. CASE StartRow(n)
  <2> DEFINE r == [epoch |-> epoch[n], status |-> "claimed", proof |-> NoProof]
  <2>1. rows'[n] = Append(s, r) /\ r \in Row /\ r.proof = NoProof
    BY <1>3 DEF StartRow, GraphInv, Row, RowStatus
  <2> HIDE DEF r
  <2>2. /\ DOMAIN rows'[n] = 1..(Len(s) + 1) /\ rows'[n][Len(s) + 1] = r
        /\ \A j \in 1..Len(s) : rows'[n][j] = s[j]
    BY <1>1, <2>1, AppendProperties, LenProperties
  <2>3. i # Len(s) + 1
    BY <2>1, <2>2
  <2>4. i \in 1..Len(s)
    BY <1>1, <2>2, <2>3
  <2> QED
    BY <1>1, <2>2, <2>4
<1>4. CASE CloseClaimedRows(n)
  <2>1. rows'[n] = [j \in DOMAIN s |->
                       IF s[j].status = "claimed" THEN [s[j] EXCEPT !.status = "stuck"] ELSE s[j]]
    BY <1>4 DEF CloseClaimedRows, GraphInv
  <2>2. i \in DOMAIN s /\ s[i] \in Row
    BY <1>1, <2>1
  <2>3. rows'[n][i] = IF s[i].status = "claimed" THEN [s[i] EXCEPT !.status = "stuck"] ELSE s[i]
    BY <2>1, <2>2
  <2> QED
    BY <2>2, <2>3 DEF Row
<1>5. CASE \E o \in RowStatus : FinishRow(n, o, NoProof) /\ rows[n] # << >>
  <2>1. PICK o \in RowStatus : FinishRow(n, o, NoProof)
    BY <1>5
  <2> DEFINE r == [s[Len(s)] EXCEPT !.status = o, !.proof = NoProof]
  <2>2. Len(s) \in DOMAIN s /\ s[Len(s)] \in Row
    BY <1>1, <1>5, EmptySeq
  <2>3. rows'[n] = [s EXCEPT ![Len(s)] = r] /\ r.proof = NoProof
    BY <2>1, <2>2 DEF FinishRow, GraphInv, Row
  <2> HIDE DEF r
  <2>4. i \in DOMAIN s /\ i # Len(s) /\ rows'[n][i] = s[i]
    BY <2>2, <2>3
  <2> QED
    BY <2>4
<1> QED
  BY <1>3, <1>4, <1>5

\* The proofs among the root's rows, and those of the present epoch, are among what they were.
LEMMA RowsStayDemanded ==
    ASSUME CitesAreDemanded, DueIsFresh, \A p : Demanded(p) => Demanded(p)', UNCHANGED stmt,
           epoch'[Root] = epoch[Root],
           \A i \in DOMAIN rows'[Root] : rows'[Root][i].proof # NoProof =>
               /\ i \in DOMAIN rows[Root] /\ rows'[Root][i].proof = rows[Root][i].proof
               /\ rows'[Root][i].epoch = rows[Root][i].epoch
               /\ rows'[Root][i].status = "qed" => rows[Root][i].status = "qed"
    PROVE  RowsAreDemanded' /\ (Salvageable(Root)' => Salvageable(Root)) /\ (Due(Root) => GatedAreFresh')
<1>1. RowsAreDemanded'
  <2> SUFFICES ASSUME NEW i \in DOMAIN rows'[Root], rows'[Root][i].proof # NoProof,
                      NEW p, p = rows'[Root][i].proof
               PROVE  Demanded(p)'
    BY DEF RowsAreDemanded, Demanded, Cited
  <2>1. i \in DOMAIN rows[Root] /\ rows[Root][i].proof = p
    OBVIOUS
  <2>2. Demanded(p)
    BY <2>1 DEF CitesAreDemanded, RowsAreDemanded
  <2> QED
    BY <2>2
<1>2. \A i \in GatedRows(Root)' : i \in GatedRows(Root) /\ rows'[Root][i].proof = rows[Root][i].proof
  BY DEF GatedRows
<1>3. Salvageable(Root)' => Salvageable(Root)
  BY <1>2 DEF Salvageable
<1>4. ASSUME Due(Root) PROVE GatedAreFresh'
  BY <1>2, <1>4 DEF DueIsFresh, GatedAreFresh, Fresh, Cited
<1> QED
  BY <1>1, <1>3, <1>4

\* The end of a process, by a kill or by itself, leaves the graph as it is.
LEMMA PinExit ==
    ASSUME IInv, PinInv, NEW how, Exit(how),
           \A c \in Child : ~(phase = "reconcile" /\ step = "edge" /\ Turn(c))
    PROVE  PinInv'
<1>1. /\ UNCHANGED <<status, epoch, stmt, body, rows, pin, plan, runs>> /\ phase' = "down" /\ step' = "look"
      /\ ending' = how /\ \A n \in Node : where'[n] = "idle"
  BY DEF Exit, graph
<1>2. PinsAreHonest' /\ DueIsFresh'
  BY <1>1 DEF PinInv, PinsAreHonest, DueIsFresh, Due, Proved, Salvageable, GatedRows, GatedAreFresh, Fresh
<1>3. EdgesFollow'
  BY <1>1 DEF PinInv, EdgesFollow, Present
<1>4. CitesAreDemanded'
  BY <1>1, RootAssumption DEF PinInv, CitesAreDemanded, RowsAreDemanded, Demanded, Proved, Node
<1>5. FreshBeforeRepin'
  BY <1>1 DEF FreshBeforeRepin, Node
<1> QED
  BY <1>2, <1>3, <1>4, <1>5 DEF PinInv

\* So does the edit of a plan.
LEMMA PinStart ==
    ASSUME IInv, PinInv, StartRun
    PROVE  PinInv'
<1>1. /\ UNCHANGED <<status, epoch, stmt, body, rows, pin, where, taken>> /\ phase = "down" /\ phase' = "root"
      /\ step' = "look" /\ todo' = {Root} /\ runs' = runs + 1 /\ runs \in Nat
  BY DEF StartRun, Enter, graph, IInv, ProcessInv
<1>2. \A n \in Node : where'[n] = "idle"
  BY <1>1, IdleBeforeDispatch DEF IInv
<1>3. PinsAreHonest' /\ DueIsFresh'
  BY <1>1 DEF PinInv, PinsAreHonest, DueIsFresh, Due, Proved, Salvageable, GatedRows, GatedAreFresh, Fresh
<1>4. EdgesFollow'
  BY <1>1 DEF PinInv, EdgesFollow, Present
<1>5. CitesAreDemanded'
  BY <1>1 DEF PinInv, CitesAreDemanded, RowsAreDemanded, Demanded, Proved
<1>6. FreshBeforeRepin'
  BY <1>1, <1>2 DEF FreshBeforeRepin, Node
<1> QED
  BY <1>3, <1>4, <1>5, <1>6 DEF PinInv

\* A root stated anew has no proof, and none is due to it.
LEMMA PinRoot ==
    ASSUME IInv, PinInv, EnsureRoot
    PROVE  PinInv'
<1>1. /\ UNCHANGED <<rows, pin, plan, where, taken, runs>> /\ phase = "root" /\ phase' = "reconcile"
      /\ step' = "look" /\ todo' = Stated(plan) /\ GraphInv /\ Root \in Node
  BY DEF EnsureRoot, Enter, At, IInv, Node
<1>2. \A n \in Node : where'[n] = "idle"
  BY <1>1, IdleBeforeDispatch DEF IInv
<1>3. /\ \A c \in Child : c \in Node /\ status'[c] = status[c] /\ stmt'[c] = stmt[c] /\ epoch'[c] = epoch[c]
      /\ \/ UNCHANGED <<status, epoch, stmt, body>>
         \/ ~Proved(Root)' /\ ~Due(Root)'
  <2>1. \A c \in Child : c \in Node /\ c # Root
    BY RootAssumption DEF Node
  <2>2. CASE ~Present(Root) /\ AddNode(Root, plan[Root].stmt, "open", NoProof)
    <3>1. ~Salvageable(Root)' /\ status'[Root] = "open"
      BY <1>1, <2>2, AddSalvage DEF AddNode, GraphInv
    <3> QED
      BY <1>1, <2>1, <2>2, <3>1 DEF AddNode, GraphInv, Due, Proved, ProvedStatus
  <2>3. CASE Restate(Root, plan[Root].stmt)
    <3>1. ~Salvageable(Root)' /\ status'[Root] = "open"
      BY <1>1, <2>3, RestateSalvage DEF Restate, GraphInv
    <3> QED
      BY <1>1, <2>1, <2>3, <3>1 DEF Restate, GraphInv, Due, Proved, ProvedStatus
  <2> QED
    BY <2>1, <2>2, <2>3 DEF EnsureRoot
<1>4. PinsAreHonest'
  BY <1>1, <1>3 DEF PinInv, PinsAreHonest, Proved, Cited
<1>5. EdgesFollow'
  BY <1>1, <1>3 DEF PinInv, EdgesFollow, Present
<1>6. CitesAreDemanded'
  BY <1>1, <1>2, <1>3 DEF PinInv, CitesAreDemanded, RowsAreDemanded, Demanded, Proved
<1>7. FreshBeforeRepin'
  BY <1>1, <1>2 DEF FreshBeforeRepin, Node
<1>8. DueIsFresh'
  BY <1>1, <1>3 DEF PinInv, DueIsFresh, Due, Proved, Salvageable, GatedRows, GatedAreFresh, Fresh
<1> QED
  BY <1>4, <1>5, <1>6, <1>7, <1>8 DEF PinInv

\* The reconciliation of a child leaves the root's columns alone, and brings the child to the
\* plan before it goes on.
LEMMA PinReconcile ==
    ASSUME ~EditAfterKill, IInv, SalvageInv, PinInv, NEW c \in Child, phase = "reconcile",
           AddChild(c) \/ RestateChild(c) \/ DemandEdge(c) \/ KeepChild(c)
             \/ TakePlanProof(c) \/ RecordPlanProof(c) \/ NoPlanProof(c)
    PROVE  PinInv'
<1>1. /\ GraphInv /\ ProcessInv /\ UNCHANGED <<rows, plan, phase, where, runs, ending>> /\ Turn(c)
      /\ c \in Node /\ c # Root /\ Root \in Node /\ todo \subseteq Node /\ c \in todo
      /\ plan[c].stmt \in Stmt /\ c \in Stated(plan)
      /\ \A m \in Node \ {c} : /\ status'[m] = status[m] /\ epoch'[m] = epoch[m]
                               /\ stmt'[m] = stmt[m] /\ body'[m] = body[m]
      /\ epoch'[c] \in {epoch[c], epoch[c] + 1}
      /\ Present(c) => Present(c)'
  BY ReconcileMoves
<1>2. \A n \in Node : where[n] = "idle"
  BY <1>1, IdleBeforeDispatch
<1>4. EdgesFollow' /\ \A p : Demanded(p) => Demanded(p)'
  <2>0. pin' = pin \/ pin' = [pin EXCEPT ![c] = IF @ = NoEdge THEN epoch[c] ELSE @]
    BY DEF AddChild, RestateChild, DemandEdge, KeepChild, TakePlanProof, RecordPlanProof,
         NoPlanProof, graph, EnsureEdge
  <2>1. ASSUME NEW d \in Child, d # c
        PROVE  /\ pin'[d] = pin[d] /\ (Present(d)' <=> Present(d)) /\ epoch'[d] = epoch[d]
               /\ Present(d) => pin[d] # NoEdge
    <3>1. d \in Node /\ ~Turn(d)
      BY <1>1, <2>1, TurnUnique DEF Node
    <3>2. pin'[d] = pin[d]
      BY <1>1, <2>1, <2>0 DEF ProcessInv
    <3> QED
      BY <1>1, <2>1, <3>1, <3>2 DEF Present, PinInv, EdgesFollow
  <2>2. /\ pin[c] # NoEdge => pin'[c] = pin[c] /\ Present(c)'
        /\ pin'[c] # NoEdge => Present(c)' /\ pin'[c] <= epoch'[c]
        /\ pin'[c] = NoEdge => ~Present(c)' \/ (step' = "edge" /\ todo' = todo)
    <3>1. /\ epoch[c] \in Nat /\ pin[c] \in Nat \cup {NoEdge} /\ NoEdge \notin Nat
          /\ pin[c] # NoEdge => pin[c] <= epoch[c] /\ Present(c)
          /\ Present(c) /\ pin[c] = NoEdge => step = "edge"
      BY <1>1 DEF GraphInv, ProcessInv, NoEdge, PinInv, EdgesFollow
    <3>2. CASE DemandEdge(c)
      <4>1. pin'[c] = IF pin[c] = NoEdge THEN epoch[c] ELSE pin[c]
        BY <1>1, <3>2 DEF DemandEdge, EnsureEdge, ProcessInv
      <4>2. UNCHANGED epoch /\ Present(c) /\ Present(c)'
        BY <1>1, <3>2 DEF DemandEdge, At, ReconciledSoFar, ProcessInv, Present
      <4> QED
        BY <3>1, <4>1, <4>2
    <3>3. CASE ~DemandEdge(c)
      <4>1. pin' = pin /\ ((step' = "edge" /\ todo' = todo) \/ (Present(c) /\ step # "edge"))
        BY <1>1, <3>3 DEF AddChild, RestateChild, KeepChild, TakePlanProof, RecordPlanProof,
             NoPlanProof, graph, At, GoTo, ReconciledSoFar, ProcessInv
      <4> QED
        BY <1>1, <3>1, <4>1
    <3> QED
      BY <3>2, <3>3
  <2>3. \A p : Demanded(p) => Demanded(p)'
    BY <2>1, <2>2 DEF Demanded, Cited
  <2>4. EdgesFollow'
    BY <1>1, <2>1, <2>2 DEF PinInv, EdgesFollow, Turn
  <2> QED
    BY <2>3, <2>4
<1>5. PinsAreHonest'
  <2> SUFFICES ASSUME Proved(Root), NEW d \in Cited(body[Root]), pin'[d] = epoch'[d]
               PROVE  body[Root].uses[d] = stmt'[d]
    BY <1>1 DEF PinsAreHonest, Proved, Cited
  <2>1. d \in Child /\ d \in Node /\ epoch[d] \in Nat /\ pin[d] # NoEdge /\ pin[d] <= epoch[d]
    BY DEF Cited, Node, IInv, GraphInv, PinInv, CitesAreDemanded, Demanded, EdgesFollow
  <2>2. CASE d # c
    <3>1. pin'[d] = pin[d]
      BY <2>1, <2>2 DEF AddChild, RestateChild, DemandEdge, KeepChild, TakePlanProof, RecordPlanProof,
           NoPlanProof, graph, EnsureEdge, IInv, ProcessInv
    <3> QED
      BY <1>1, <2>1, <2>2, <3>1 DEF PinInv, PinsAreHonest
  <2>3. CASE d = c
    <3>1. pin'[d] = pin[d]
      BY <2>1, <2>3 DEF AddChild, RestateChild, DemandEdge, KeepChild, TakePlanProof, RecordPlanProof,
           NoPlanProof, graph, EnsureEdge, IInv, ProcessInv
    <3>2. epoch'[d] = epoch[d]
      BY <1>1, <2>1, <2>3, <3>1
    <3>3. ~AddChild(c)
      BY <2>1, <2>3 DEF AddChild, PinInv, EdgesFollow
    <3>4. ~RestateChild(c)
      <4>1. RestateChild(c) => epoch'[c] = epoch[c] + 1
        BY <1>1 DEF RestateChild, Restate, GraphInv
      <4> QED
        BY <2>1, <2>3, <3>2, <4>1
    <3>5. stmt'[d] = stmt[d]
      BY <3>3, <3>4 DEF DemandEdge, KeepChild, TakePlanProof, RecordPlanProof, NoPlanProof, graph
    <3> QED
      BY <3>1, <3>2, <3>5 DEF PinInv, PinsAreHonest
  <2> QED
    BY <2>2, <2>3
<1>6. CitesAreDemanded'
  <2>1. /\ body'[Root] = body[Root] /\ (Proved(Root)' <=> Proved(Root))
        /\ where'[Root] = "idle" /\ rows' = rows
    BY <1>1, <1>2 DEF Proved
  <2>2. RowsAreDemanded'
    <3> SUFFICES ASSUME NEW i \in DOMAIN rows[Root], NEW p, p = rows[Root][i].proof, p # NoProof
                 PROVE  Demanded(p)'
      BY <2>1 DEF RowsAreDemanded, Demanded, Cited
    <3> QED
      BY <1>4 DEF PinInv, CitesAreDemanded, RowsAreDemanded
  <2>3. ASSUME Proved(Root) PROVE Demanded(body[Root])'
    <3> SUFFICES ASSUME NEW p, p = body[Root] PROVE Demanded(p)'
      BY <2>1 DEF Demanded, Cited
    <3> QED
      BY <1>4, <2>3 DEF PinInv, CitesAreDemanded
  <2> QED
    BY <2>1, <2>2, <2>3 DEF CitesAreDemanded
<1>7. FreshBeforeRepin'
  BY <1>1, <1>2 DEF FreshBeforeRepin
<1>8. DueIsFresh'
  <2> SUFFICES ASSUME Due(Root)' PROVE GatedAreFresh'
    BY DEF DueIsFresh
  <2>1. /\ Due(Root) /\ (\A i : i \in GatedRows(Root)' <=> i \in GatedRows(Root))
    BY <1>1 DEF Due, Proved, Salvageable, GatedRows
  <2>2. GatedAreFresh /\ Agrees
    BY <1>1, <2>1 DEF PinInv, DueIsFresh, SalvageInv, DueIsSettled
  <2>3. stmt[c] = plan[c].stmt /\ Present(c)
    BY <1>1, <2>2, StmtAssumption DEF Agrees, GraphInv, StatedOncePresent
  <2>4. ~AddChild(c) /\ ~RestateChild(c)
    BY <2>3 DEF AddChild, RestateChild
  <2>5. UNCHANGED stmt
    BY <2>4 DEF DemandEdge, KeepChild, TakePlanProof, RecordPlanProof, NoPlanProof, graph
  <2> QED
    BY <1>1, <2>1, <2>2, <2>5 DEF GatedAreFresh, Fresh
<1> QED
  BY <1>4, <1>5, <1>6, <1>7, <1>8 DEF PinInv

\* A child is retired that neither the plan states nor anybody has proved.
LEMMA PinRetire ==
    ASSUME IInv, PinInv, NEW c \in Child, RetireDropped(c)
    PROVE  PinInv'
<1>1. /\ GraphInv /\ ProcessInv /\ UNCHANGED <<stmt, rows, pin, plan, phase, where, runs, ending>>
      /\ phase = "retire" /\ todo' = todo \ {c} /\ step' = "look" /\ SetStatus(c, "attic", TRUE)
      /\ c \in Node /\ c # Root /\ Root \in Node /\ c \in todo /\ Present(c)
  BY RootAssumption DEF RetireDropped, At, NextNode, Turn, IInv, ProcessInv, LoopsVisitNodes, Node
<1>2. \A n \in Node : where[n] = "idle"
  BY <1>1, IdleBeforeDispatch
<1>3. /\ \A m \in Node : Present(m)' <=> Present(m)
      /\ \A m \in Node \ {c} : status'[m] = status[m]
      /\ status'[c] = "attic" /\ epoch' = epoch /\ body' = body
  BY <1>1, SetStatusMoves
<1>4. EdgesFollow' /\ \A p : Demanded(p) => Demanded(p)'
  BY <1>1, <1>3, EdgesStay DEF PinInv, Node
<1>5. PinsAreHonest'
  BY <1>1, <1>3, HonestStays DEF PinInv, Proved
<1>6. CitesAreDemanded'
  BY <1>1, <1>2, <1>3 DEF PinInv, CitesAreDemanded, RowsAreDemanded, Demanded, Proved
<1>7. FreshBeforeRepin'
  BY <1>1, <1>2 DEF FreshBeforeRepin
<1>8. DueIsFresh'
  BY <1>1, <1>3 DEF PinInv, DueIsFresh, Due, Proved, Salvageable, GatedRows, GatedAreFresh, Fresh
<1> QED
  BY <1>4, <1>5, <1>6, <1>7, <1>8 DEF PinInv

\* One phase gives way to the next, and the graph is as it was.
LEMMA PinPhase ==
    ASSUME IInv, PinInv,
           Reconciled \/ (Retired /\ LiveChild # {}) \/ Resumed \/ Dispatch \/ Dispatched
    PROVE  PinInv'
<1>1. /\ GraphInv /\ ProcessInv /\ UNCHANGED <<status, epoch, stmt, body, rows, pin, plan, taken, runs, ending>>
      /\ phase # "down" /\ step' = "look" /\ Root \in Node
      /\ phase' \in {"retire", "resume", "revalidate", "dispatch", "integrate"}
      /\ ~(phase = "reconcile" /\ todo # {})
  BY DEF Reconciled, Retired, Resumed, Dispatch, Dispatched, Enter, graph, IInv, Node
<1>2. \A n \in Node : where'[n] \in {"idle", "done", "queued"} /\ where'[n] # "accepted"
  <2>1. CASE Reconciled \/ (Retired /\ LiveChild # {}) \/ Resumed
    BY <1>1, <2>1, IdleBeforeDispatch DEF Reconciled, Retired, Resumed
  <2>2. CASE Dispatch
    BY <2>2 DEF Dispatch
  <2>3. CASE Dispatched
    BY <2>3 DEF Dispatched, Resting
  <2> QED
    BY <2>1, <2>2, <2>3
<1>3. PinsAreHonest' /\ DueIsFresh'
  BY <1>1 DEF PinInv, PinsAreHonest, DueIsFresh, Due, Proved, Salvageable, GatedRows, GatedAreFresh, Fresh
<1>4. EdgesFollow'
  <2>1. \A c \in todo : ~(phase = "reconcile" /\ step = "edge" /\ Turn(c))
    BY <1>1
  <2> QED
    BY <1>1, <2>1 DEF PinInv, EdgesFollow, Present, Turn
<1>5. CitesAreDemanded'
  BY <1>1, <1>2 DEF PinInv, CitesAreDemanded, RowsAreDemanded, Demanded, Proved
<1>6. FreshBeforeRepin'
  BY <1>1, <1>2 DEF FreshBeforeRepin
<1> QED
  BY <1>3, <1>4, <1>5, <1>6 DEF PinInv

\* resume gives the root what is due to it, and pins its edges for a proof that is fresh: nothing
\* has been stated anew since the row was written.
LEMMA PinResume ==
    ASSUME IInv, BudgetInv, PlaceInv, PinInv, NEW n \in Node, ResumeStep(n)
    PROVE  PinInv'
<1>1. /\ phase = "resume" /\ UNCHANGED <<phase, plan, runs, ending, where, taken, stmt, epoch>>
      /\ Turn(n) /\ n \in todo /\ Present(n)
      /\ \A m \in Node \ {n} : status'[m] = status[m] /\ body'[m] = body[m] /\ rows'[m] = rows[m]
      /\ \/ status'[n] = status[n] /\ body'[n] = body[n]
         \/ status[n] \in {"claimed", "stuck"} /\ status'[n] \in {"gated", "open"}
      /\ UNCHANGED pin \/ RepinEdges(n)
  BY ResumeMoves
<1>2. GraphInv /\ ProcessInv /\ todo \subseteq Node /\ Root \in Node /\ \A m \in Node : where[m] = "idle"
  BY <1>1, IdleBeforeDispatch DEF IInv, ProcessInv, Node
<1>3. /\ \A m \in Node : Present(m)' <=> Present(m)
      /\ \A m \in Node : Proved(m) => Proved(m)'
  <2>1. \/ status'[n] = status[n]
        \/ status[n] \notin ProvedStatus \cup {"absent", "attic"} /\ status'[n] \notin {"absent", "attic"}
    BY <1>1 DEF ProvedStatus
  <2> QED
    BY <1>1, <2>1, ChildrenStand
<1>4. EdgesFollow' /\ \A p : Demanded(p) => Demanded(p)'
  BY <1>1, <1>2, <1>3, EdgesStay DEF PinInv, Node, GraphInv
<1>5. /\ todo' \in {todo, todo \ {n}}
      /\ step' \in {"repin", "close", "reopen"} => todo' = todo
      /\ step' = "repin" => Salvage(n)
      /\ step' = "close" => SalvageRepin(n)
      /\ step' = "reopen" => CloseInterrupted(n)
  BY DEF ResumeStep, Salvage, SalvageRepin, SalvageClose, CloseInterrupted, ReopenInterrupted,
       ReopenStuck, LeaveAlone, GoTo, NextNode
<1>6. \A m \in todo : Turn(m) <=> m = n
  BY <1>1, <1>2, TurnUnique
<1>7. /\ \A i \in DOMAIN rows'[Root] : rows'[Root][i].proof # NoProof =>
             /\ i \in DOMAIN rows[Root] /\ rows'[Root][i].proof = rows[Root][i].proof
             /\ rows'[Root][i].epoch = rows[Root][i].epoch
             /\ rows'[Root][i].status = "qed" => rows[Root][i].status = "qed"
      /\ \A m \in Node : Salvageable(m)' => Salvageable(m)
  <2>1. CASE UNCHANGED rows
    BY <1>1, <1>2, <2>1, RowsStay
  <2>2. CASE CloseClaimedRows(n)
    BY <1>1, <1>2, <2>2, RowsBringNone, CloseRowsCharges, RowsStay
  <2> QED
    BY <2>1, <2>2 DEF ResumeStep, Salvage, SalvageRepin, SalvageClose, CloseInterrupted,
         ReopenInterrupted, ReopenStuck, LeaveAlone, graph
<1>8. RowsAreDemanded' /\ (Due(Root) => GatedAreFresh')
  BY <1>1, <1>4, <1>7, RowsStayDemanded DEF PinInv
<1>9. ASSUME NEW i \in GatedRows(Root), ~Proved(Root)
       PROVE  Fresh(rows[Root][i].proof) /\ Demanded(rows[Root][i].proof)
  <2>1. Due(Root)
    BY <1>9 DEF Due, Salvageable
  <2> QED
    BY <1>9, <2>1 DEF PinInv, DueIsFresh, GatedAreFresh, CitesAreDemanded, RowsAreDemanded, GatedRows
<1>10. ASSUME Salvage(n), n = Root
       PROVE  Proved(Root)' /\ Fresh(body[Root])' /\ Demanded(body[Root])'
  <2>1. PICK i \in GatedRows(Root) : RecordProof(Root, rows[Root][i].proof)
    BY <1>10 DEF Salvage
  <2>2. ~Proved(Root)
    BY <1>10 DEF Salvage, Proved, ProvedStatus
  <2> DEFINE p == rows[Root][i].proof
  <2>3. status'[Root] = "gated" /\ body'[Root] = p
    BY <1>2, <2>1, RecordProofMoves
  <2>4. Fresh(p) /\ Demanded(p)
    BY <1>9, <2>2
  <2> HIDE DEF p
  <2>5. Fresh(body[Root])'
    BY <1>1, <2>3, <2>4 DEF Fresh, Cited
  <2>6. Demanded(body[Root])'
    BY <1>4, <2>3, <2>4 DEF Demanded, Cited
  <2> QED
    BY <2>3, <2>5, <2>6 DEF Proved, ProvedStatus
<1>11. ASSUME Turn(Root), step \in {"repin", "close"} PROVE Proved(Root) /\ Fresh(body[Root])
  BY <1>1, <1>11 DEF PinInv, FreshBeforeRepin
<1>12. Proved(Root)' =>
         \/ Salvage(n) /\ n = Root
         \/ Proved(Root) /\ body'[Root] = body[Root]
  <2> SUFFICES ASSUME Proved(Root)', ~(Salvage(n) /\ n = Root)
               PROVE  Proved(Root) /\ body'[Root] = body[Root]
    OBVIOUS
  <2>1. CASE n # Root
    BY <1>1, <1>2, <2>1 DEF Proved
  <2>2. CASE n = Root /\ status'[n] # "open"
    <3>1. ~Salvage(n) /\ ~ReopenInterrupted(n) /\ ~ReopenStuck(n)
      BY <1>2, <2>2 DEF ReopenInterrupted, ReopenStuck, SetStatus, GraphInv
    <3>2. UNCHANGED <<status, body>>
      BY <3>1 DEF ResumeStep, SalvageRepin, SalvageClose, CloseInterrupted, LeaveAlone, graph
    <3> QED
      BY <2>2, <3>2 DEF Proved
  <2>3. CASE n = Root /\ status'[n] = "open"
    BY <2>3 DEF Proved, ProvedStatus
  <2> QED
    BY <2>1, <2>2, <2>3
<1>13. PinsAreHonest'
  <2>1. CASE Salvage(n) /\ n = Root
    BY <1>10, <2>1 DEF Fresh, PinsAreHonest
  <2>2. CASE ~Proved(Root)'
    BY <2>2 DEF PinsAreHonest
  <2>3. CASE Proved(Root) /\ body'[Root] = body[Root]
    <3>1. CASE UNCHANGED pin
      BY <1>1, <1>2, <2>3, <3>1, HonestStays DEF PinInv, Node
    <3>2. CASE ~UNCHANGED pin
      <4>1. SalvageRepin(n) /\ n = Root
        BY <3>2 DEF ResumeStep, Salvage, SalvageRepin, SalvageClose, CloseInterrupted,
             ReopenInterrupted, ReopenStuck, LeaveAlone, graph, RepinEdges
      <4>2. Fresh(body[Root])
        BY <1>11, <4>1 DEF SalvageRepin, At
      <4> QED
        BY <1>1, <2>3, <4>2 DEF Fresh, PinsAreHonest, Cited
    <3> QED
      BY <3>1, <3>2
  <2> QED
    BY <1>12, <2>1, <2>2, <2>3
<1>14. CitesAreDemanded'
  <2>1. ASSUME Proved(Root), body'[Root] = body[Root] PROVE Demanded(body[Root])'
    <3> SUFFICES ASSUME NEW p, p = body[Root] PROVE Demanded(p)'
      BY <2>1 DEF Demanded, Cited
    <3> QED
      BY <1>4, <2>1 DEF PinInv, CitesAreDemanded
  <2> QED
    BY <1>1, <1>2, <1>8, <1>10, <1>12, <2>1 DEF CitesAreDemanded
<1>15. FreshBeforeRepin'
  <2>1. where'[Root] = "idle"
    BY <1>1, <1>2
  <2>2. ASSUME step' \in {"repin", "close"}, Turn(Root)'
        PROVE  Proved(Root)' /\ Fresh(body[Root])'
    <3>1. n = Root
      BY <1>5, <1>6, <2>2 DEF Turn
    <3>2. CASE Salvage(n)
      BY <1>10, <3>1, <3>2
    <3>3. CASE SalvageRepin(n)
      <4>1. Proved(Root) /\ Fresh(body[Root]) /\ UNCHANGED <<status, body>>
        BY <1>11, <3>1, <3>3 DEF SalvageRepin, At
      <4> QED
        BY <1>1, <4>1 DEF Proved, Fresh, Cited
    <3> QED
      BY <1>5, <2>2, <3>2, <3>3
  <2> QED
    BY <2>1, <2>2 DEF FreshBeforeRepin
<1>16. DueIsFresh'
  BY <1>3, <1>7, <1>8, <1>2 DEF DueIsFresh, Due
<1> QED
  BY <1>4, <1>13, <1>14, <1>15, <1>16 DEF PinInv

\* A replay concerns the root, which alone has edges; it leaves it with a fresh proof or none.
LEMMA PinRevalidate ==
    ASSUME IInv, SalvageInv, PinInv, NEW n \in Node, RevalidateStep(n)
    PROVE  PinInv'
<1>1. /\ phase = "revalidate" /\ GraphInv /\ ProcessInv /\ Root \in Node /\ n \in todo /\ Turn(n) /\ Present(n)
      /\ ~Due(Root) /\ todo \subseteq Node
  BY DEF RevalidateStep, ReplayHolds, ReplayRepin, ReplayFails, ReplayCannotRun, NothingToReplay, At, Turn,
       IInv, ProcessInv, LoopsVisitNodes, Node, SalvageInv, DueIsHeld
<1>2. \A m \in Node : where[m] = "idle"
  BY <1>1, IdleBeforeDispatch
<1>3. CASE ReplayCannotRun(n)
  BY <1>1, <1>3, PinExit DEF ReplayCannotRun
<1>4. CASE ReplayHolds(n) \/ ReplayRepin(n) \/ ReplayFails(n) \/ NothingToReplay(n)
  <2>1. /\ UNCHANGED <<stmt, rows, plan, phase, where, taken, ending, runs>>
        /\ todo' \in {todo, todo \ {n}} /\ (step' = "repin" => ReplayHolds(n) /\ todo' = todo)
        /\ step' \in {"look", "repin"}
    BY <1>4 DEF ReplayHolds, ReplayRepin, ReplayFails, NothingToReplay, GoTo, NextNode, graph
  <2>2. /\ \A m \in Node \ {Root} : status'[m] = status[m]
        /\ \A m \in Node : (Present(m)' <=> Present(m)) /\ epoch'[m] \in {epoch[m], epoch[m] + 1}
        /\ UNCHANGED pin \/ (UNCHANGED epoch /\ RepinEdges(n))
        /\ \/ UNCHANGED <<status, epoch, body>>
           \/ /\ UNCHANGED <<status, epoch, pin>> /\ ReplayHolds(n) /\ n = Root
              /\ body'[Root] = Replayed(Root) /\ Proved(Root)
           \/ UNCHANGED pin /\ ~Proved(Root)' /\ ~Due(Root)'
    <3>1. CASE ReplayHolds(n)
      <4>1. n = Root /\ Proved(n) /\ body' = [body EXCEPT ![n] = Replayed(n)]
        BY <3>1 DEF ReplayHolds, StaleEdges
      <4> QED
        BY <1>1, <3>1, <4>1 DEF ReplayHolds, Present, GraphInv
    <3>2. CASE ReplayRepin(n)
      BY <3>2 DEF ReplayRepin, Present
    <3>3. CASE ReplayFails(n)
      <4>1. n = Root /\ Proved(n) /\ SetStatus(n, "open", TRUE)
        BY <3>3 DEF ReplayFails, StaleEdges
      <4>2. UNCHANGED <<pin, rows>>
        BY <3>3 DEF ReplayFails
      <4>3. status'[n] = "open" /\ ~Salvageable(n)'
        BY <1>1, <4>1, <4>2, SetStatusSalvage
      <4> QED
        BY <1>1, <4>1, <4>2, <4>3, SetStatusMoves DEF Proved, ProvedStatus, Due
    <3>4. CASE NothingToReplay(n)
      BY <3>4 DEF NothingToReplay, graph, Present
    <3> QED
      BY <1>4, <3>1, <3>2, <3>3, <3>4
  <2>3. EdgesFollow' /\ \A p : Demanded(p) => Demanded(p)'
    BY <1>1, <2>2, EdgesStay DEF PinInv, Node
  <2>4. ~Due(Root)'
    <3>1. CASE UNCHANGED <<status, epoch>>
      BY <1>1, <2>1, <3>1 DEF Due, Proved, Salvageable, GatedRows
    <3> QED
      BY <2>2, <3>1
  <2>5. ASSUME ReplayHolds(n), n = Root, body'[Root] = Replayed(Root)
        PROVE  Fresh(body[Root])' /\ Cited(body[Root])' \subseteq Cited(body[Root])
    BY <1>1, <2>1, <2>5, ReplayedIsFresh DEF Fresh, Cited
  <2>6. ASSUME ReplayRepin(n), n = Root PROVE Fresh(body[Root])
    BY <1>1, <2>6 DEF PinInv, FreshBeforeRepin, ReplayRepin, At
  <2>7. PinsAreHonest'
    <3>1. CASE UNCHANGED <<status, epoch, body>>
      <4>1. CASE UNCHANGED pin
        BY <1>1, <2>1, <3>1, <4>1, HonestStays DEF PinInv, Proved, Node
      <4>2. CASE ~UNCHANGED pin
        <5>1. ReplayRepin(n) /\ n = Root
          BY <1>4, <4>2 DEF ReplayHolds, ReplayRepin, ReplayFails, NothingToReplay, graph, RepinEdges
        <5> QED
          BY <2>1, <2>6, <3>1, <5>1 DEF Fresh, PinsAreHonest, Cited
      <4> QED
        BY <4>1, <4>2
    <3>2. CASE Fresh(body[Root])'
      BY <3>2 DEF Fresh, PinsAreHonest
    <3>3. CASE ~Proved(Root)'
      BY <3>3 DEF PinsAreHonest
    <3> QED
      BY <2>2, <2>5, <3>1, <3>2, <3>3
  <2>8. CitesAreDemanded'
    <3>1. RowsAreDemanded'
      <4> SUFFICES ASSUME NEW i \in DOMAIN rows[Root], NEW p, p = rows[Root][i].proof, p # NoProof
                   PROVE  Demanded(p)'
        BY <2>1 DEF RowsAreDemanded, Demanded, Cited
      <4> QED
        BY <2>3 DEF PinInv, CitesAreDemanded, RowsAreDemanded
    <3>2. ASSUME Proved(Root), Cited(body[Root])' \subseteq Cited(body[Root]) PROVE Demanded(body[Root])'
      <4>1. Demanded(body[Root])
        BY <3>2 DEF PinInv, CitesAreDemanded
      <4>2. \A c \in Cited(body[Root]) : pin'[c] # NoEdge
        <5> SUFFICES ASSUME NEW p, p = body[Root] PROVE \A c \in Cited(p) : pin'[c] # NoEdge
          OBVIOUS
        <5> QED
          BY <2>3, <4>1 DEF Demanded, Cited
      <4> QED
        BY <3>2, <4>2 DEF Demanded
    <3>3. Proved(Root)' => Proved(Root) /\ Cited(body[Root])' \subseteq Cited(body[Root])
      BY <2>2, <2>5 DEF Proved, Cited
    <3> QED
      BY <1>1, <1>2, <2>1, <3>1, <3>2, <3>3 DEF CitesAreDemanded
  <2>9. FreshBeforeRepin'
    <3>1. where'[Root] = "idle"
      BY <1>1, <1>2, <2>1
    <3>2. ASSUME step' = "repin", Turn(Root)' PROVE Proved(Root)' /\ Fresh(body[Root])'
      <4>1. n = Root
        BY <1>1, <2>1, <3>2, TurnUnique DEF Turn
      <4>2. ReplayHolds(n) /\ Proved(Root) /\ UNCHANGED status /\ body'[Root] = Replayed(Root)
        BY <1>1, <2>1, <3>2, <4>1 DEF ReplayHolds, GraphInv
      <4> QED
        BY <2>5, <4>1, <4>2 DEF Proved
    <3> QED
      BY <2>1, <3>1, <3>2 DEF FreshBeforeRepin
  <2>10. DueIsFresh'
    BY <2>4 DEF DueIsFresh
  <2> QED
    BY <2>3, <2>7, <2>8, <2>9, <2>10 DEF PinInv
<1> QED
  BY <1>3, <1>4 DEF RevalidateStep

\* Only an attempt at the root that is proved brings the root's rows a proof.
LEMMA NodeRows ==
    ASSUME IInv, BudgetInv, NEW n \in Node, NodeStep(n), n # Root \/ ~AttemptProved(n)
    PROVE  \A i \in DOMAIN rows'[Root] : rows'[Root][i].proof # NoProof =>
               /\ i \in DOMAIN rows[Root] /\ rows'[Root][i].proof = rows[Root][i].proof
               /\ rows'[Root][i].epoch = rows[Root][i].epoch
               /\ rows'[Root][i].status = "qed" => rows[Root][i].status = "qed"
<1>1. GraphInv /\ Root \in Node /\ rows \in [Node -> Seq(Row)]
  BY DEF IInv, GraphInv, Node
<1>2. CASE rows'[Root] = rows[Root]
  BY <1>2
<1>3. CASE StartAttempt(n)
  <2>1. StartRow(n)
    BY <1>3 DEF StartAttempt
  <2> QED
    BY <1>1, <2>1, RowsBringNone
<1>4. CASE AttemptUnproved(n)
  <2>1. \E o \in RowStatus : FinishRow(n, o, NoProof)
    BY <1>4 DEF AttemptUnproved, Unproved, RowStatus
  <2>2. rows[n] # << >>
    BY <1>4 DEF AttemptUnproved, InDispatch, BudgetInv
  <2> QED
    BY <1>1, <2>1, <2>2, RowsBringNone
<1>5. CASE AttemptProved(n)
  <2>1. PICK p : FinishRow(n, "qed", p)
    BY <1>5 DEF AttemptProved
  <2>2. rows'[Root] = rows[Root]
    BY <1>1, <1>5, <2>1 DEF FinishRow
  <2> QED
    BY <1>2, <2>2
<1> QED
  BY <1>2, <1>3, <1>4, <1>5 DEF NodeStep, BeginNode, GiveUp, ClaimNode, RecordNode, RepinNode, RetryNode,
       ContestNode, LeaveOpen, ParkNode, graph

\* A step of a coroutine that neither accepts nor records a proof of the root, nor pins its
\* edges.
LEMMA PinQuiet ==
    ASSUME IInv, BudgetInv, PlaceInv, SalvageInv, PinInv, NEW n \in Node, NodeStep(n), UNCHANGED pin,
           n # Root \/ ~(AttemptProved(n) \/ RecordNode(n) \/ RepinNode(n))
    PROVE  PinInv'
<1>1. /\ phase = "dispatch" /\ UNCHANGED <<phase, todo, step, plan, runs, ending, stmt, epoch>> /\ Scheduled(n)
      /\ \A m \in Node \ {n} : status'[m] = status[m] /\ body'[m] = body[m] /\ where'[m] = where[m]
      /\ \/ status'[n] = status[n] /\ body'[n] = body[n]
         \/ /\ status[n] \notin ProvedStatus \cup {"absent", "attic"}
            /\ status'[n] \notin {"absent", "attic"}
            /\ \/ RecordNode(n)
               \/ status'[n] \notin ProvedStatus /\ body'[n] = body[n]
  BY NodeMoves
<1>2. GraphInv /\ ProcessInv /\ Root \in Node /\ Child \subseteq Node
  BY DEF IInv, Node
<1>3. \A m \in Node : Present(m)' <=> Present(m)
  BY <1>1, ChildrenStand
<1>4. where[Root] \notin {"accepted", "recorded"} /\ where'[Root] \notin {"accepted", "recorded"}
  BY <1>1, <1>2, NodeWhere DEF Scheduled, Busy
<1>5. EdgesFollow' /\ \A p : Demanded(p) => Demanded(p)'
  BY <1>1, <1>2, <1>3, EdgesStay DEF PinInv
<1>6. body'[Root] = body[Root] /\ (Proved(Root)' <=> Proved(Root))
  BY <1>1, <1>2 DEF Proved
<1>7. PinsAreHonest'
  BY <1>1, <1>2, <1>6, HonestStays DEF PinInv
<1>8. RowsAreDemanded' /\ (Salvageable(Root)' => Salvageable(Root))
  BY <1>1, <1>2, <1>5, NodeRows, RowsStayDemanded DEF PinInv
<1>9. CitesAreDemanded'
  <2>1. Proved(Root)' => Demanded(body[Root])'
    <3> SUFFICES ASSUME Proved(Root), NEW p, p = body[Root] PROVE Demanded(body[Root])'
      BY <1>6
    <3>1. Demanded(p)'
      BY <1>5 DEF PinInv, CitesAreDemanded
    <3> QED
      BY <1>6, <3>1 DEF Demanded, Cited
  <2> QED
    BY <1>4, <1>8, <2>1 DEF CitesAreDemanded
<1>10. FreshBeforeRepin'
  BY <1>1, <1>4 DEF FreshBeforeRepin
<1>11. DueIsFresh'
  <2>1. ~Due(Root)
    BY <1>1, <1>2, <1>4 DEF SalvageInv, DueIsHeld
  <2> QED
    BY <1>6, <1>8, <2>1 DEF DueIsFresh, Due
<1> QED
  BY <1>5, <1>7, <1>9, <1>10, <1>11 DEF PinInv

\* What the gate accepts for the root is of the statements the graph has, and is all that is
\* due to the root.
LEMMA PinProved ==
    ASSUME IInv, BudgetInv, PlaceInv, SalvageInv, PinInv, AttemptProved(Root)
    PROVE  PinInv'
<1>1. /\ GraphInv /\ ProcessInv /\ Root \in Node /\ Child \subseteq Node /\ phase = "dispatch"
      /\ UNCHANGED <<status, epoch, stmt, body, pin, plan, phase, todo, step, ending, runs>>
      /\ where[Root] = "working" /\ where' = [where EXCEPT ![Root] = "accepted"]
  BY DEF IInv, Node, AttemptProved, InDispatch, Becomes
<1>2. PICK p \in GatedProof(Root) : FinishRow(Root, "qed", p) /\ taken' = p
  BY DEF AttemptProved
<1>3. Fresh(p) /\ Demanded(p)
  BY <1>1, <1>2, GatedIsFresh DEF PinInv
<1>4. status[Root] = "claimed" /\ ~Proved(Root) /\ ~Salvageable(Root)
  <2>1. status[Root] = "claimed"
    BY <1>1 DEF PlaceInv, ClaimsAreOfHolders
  <2>2. ~Due(Root)
    BY <1>1 DEF SalvageInv, DueIsHeld
  <2> QED
    BY <2>1, <2>2 DEF Due, Proved, ProvedStatus
<1>5. where \in [Node -> Where]
  BY <1>1 DEF ProcessInv
<1> DEFINE s == rows[Root]
           r == [s[Len(s)] EXCEPT !.status = "qed", !.proof = p]
<1>6. s \in Seq(Row) /\ Len(s) \in DOMAIN s /\ DOMAIN s = 1..Len(s) /\ s[Len(s)] \in Row
  <2>1. s \in Seq(Row) /\ s # << >>
    BY <1>1 DEF GraphInv, BudgetInv
  <2>2. Len(s) \in Nat /\ DOMAIN s = 1..Len(s)
    BY <2>1, LenProperties
  <2>3. Len(s) \in DOMAIN s
    BY <2>1, <2>2, EmptySeq
  <2> QED
    BY <1>1, <2>1, <2>2, <2>3, RowEpochs
<1>7. rows'[Root] = [s EXCEPT ![Len(s)] = r] /\ r.proof = p
  BY <1>1, <1>2, <1>6 DEF FinishRow, GraphInv, Row
<1> HIDE DEF r
<1>8. \A i \in DOMAIN rows'[Root] : i \in DOMAIN s /\ (i # Len(s) => rows'[Root][i] = s[i])
                                      /\ (i = Len(s) => rows'[Root][i].proof = p)
  BY <1>6, <1>7
<1>9. \A i \in GatedRows(Root)' : i = Len(s)
  BY <1>1, <1>4, <1>8 DEF Salvageable, GatedRows
<1>10. CitesAreDemanded'
  <2>1. ASSUME NEW i \in DOMAIN rows'[Root], rows'[Root][i].proof # NoProof
        PROVE  Demanded(rows[Root][i].proof)'
    <3> SUFFICES ASSUME NEW q, q = rows'[Root][i].proof PROVE Demanded(q)
      BY <1>1 DEF Demanded, Cited
    <3>1. CASE i = Len(s)
      BY <1>3, <1>8, <3>1
    <3>2. CASE i # Len(s)
      <4>1. i \in DOMAIN s /\ s[i].proof = q /\ q # NoProof
        BY <1>8, <2>1, <3>2
      <4> QED
        BY <4>1 DEF PinInv, CitesAreDemanded, RowsAreDemanded
    <3> QED
      BY <3>1, <3>2
  <2>2. RowsAreDemanded'
    BY <2>1 DEF RowsAreDemanded
  <2>3. Demanded(taken)'
    <3> SUFFICES ASSUME TRUE PROVE \A c \in Cited(taken') : pin'[c] # NoEdge
      BY DEF Demanded, Cited
    <3> QED
      BY <1>1, <1>2, <1>3 DEF Demanded
  <2> QED
    BY <1>1, <1>4, <2>2, <2>3 DEF CitesAreDemanded, Proved
<1>11. PinsAreHonest' /\ EdgesFollow'
  BY <1>1 DEF PinInv, PinsAreHonest, EdgesFollow, Proved, Present
<1>12. FreshBeforeRepin'
  <2>1. Fresh(taken)'
    BY <1>1, <1>2, <1>3 DEF Fresh, Cited
  <2> QED
    BY <1>1, <1>5, <2>1 DEF FreshBeforeRepin
<1>13. DueIsFresh'
  <2>1. GatedAreFresh'
    <3> SUFFICES ASSUME NEW i \in GatedRows(Root)' PROVE Fresh(rows[Root][i].proof)'
      BY DEF GatedAreFresh
    <3>1. i = Len(s) /\ i \in DOMAIN rows'[Root]
      BY <1>9 DEF GatedRows
    <3>2. rows'[Root][i].proof = p
      BY <1>8, <3>1
    <3> QED
      BY <1>1, <1>3, <3>2 DEF Fresh, Cited
  <2> QED
    BY <2>1 DEF DueIsFresh
<1> QED
  BY <1>10, <1>11, <1>12, <1>13 DEF PinInv

\* A step of a coroutine.
LEMMA PinNode ==
    ASSUME IInv, BudgetInv, PlaceInv, SalvageInv, PinInv, NEW n \in Node, NodeStep(n)
    PROVE  PinInv'
<1>1. GraphInv /\ ProcessInv /\ Root \in Node /\ Child \subseteq Node
  BY DEF IInv, Node
<1>2. CASE n = Root /\ RecordNode(n)
  <2>1. /\ phase = "dispatch" /\ UNCHANGED <<stmt, rows, pin, plan, phase, todo, step, ending, runs>>
        /\ where[Root] = "accepted" /\ where' = [where EXCEPT ![Root] = "recorded"] /\ RecordProof(Root, taken)
    BY <1>2 DEF RecordNode, InDispatch, Becomes
  <2>2. /\ \A m \in Node \ {Root} : status'[m] = status[m] /\ body'[m] = body[m]
        /\ status[Root] = "claimed" /\ status'[Root] = "gated" /\ body'[Root] = taken /\ epoch' = epoch
    BY <1>1, <2>1, RecordProofMoves DEF PlaceInv, ClaimsAreOfHolders
  <2>3. \A m \in Node : Present(m)' <=> Present(m)
    BY <1>1, <2>1, <2>2, ChildrenStand DEF ProvedStatus
  <2>4. EdgesFollow' /\ \A p : Demanded(p) => Demanded(p)'
    BY <1>1, <2>1, <2>2, <2>3, EdgesStay DEF PinInv
  <2>5. Fresh(taken) /\ Demanded(taken)
    BY <2>1 DEF PinInv, FreshBeforeRepin, CitesAreDemanded
  <2>6. Proved(Root)' /\ Fresh(body[Root])' /\ Demanded(body[Root])'
    BY <2>1, <2>2, <2>5 DEF Proved, ProvedStatus, Fresh, Demanded, Cited
  <2>7. PinsAreHonest'
    BY <2>6 DEF PinsAreHonest, Fresh
  <2>8. where \in [Node -> Where]
    BY <1>1 DEF ProcessInv
  <2>9. CitesAreDemanded' /\ FreshBeforeRepin'
    <3>1. RowsAreDemanded'
      BY <2>1 DEF PinInv, CitesAreDemanded, RowsAreDemanded, Demanded
    <3> QED
      BY <2>1, <2>6, <2>8, <3>1, <1>1 DEF CitesAreDemanded, FreshBeforeRepin
  <2>10. DueIsFresh'
    BY <2>6 DEF DueIsFresh, Due
  <2> QED
    BY <2>4, <2>7, <2>9, <2>10 DEF PinInv
<1>3. CASE n = Root /\ RepinNode(n)
  <2>1. /\ phase = "dispatch"
        /\ UNCHANGED <<status, epoch, stmt, body, rows, plan, phase, todo, step, taken, ending, runs>>
        /\ where[Root] = "recorded" /\ where' = [where EXCEPT ![Root] = "done"] /\ RepinEdges(Root)
    BY <1>3 DEF RepinNode, InDispatch, Becomes
  <2>2. \A m \in Node : Present(m)' <=> Present(m)
    BY <2>1 DEF Present
  <2>3. EdgesFollow' /\ \A p : Demanded(p) => Demanded(p)'
    BY <1>1, <2>1, <2>2, EdgesStay DEF PinInv, Node
  <2>4. Proved(Root) /\ Fresh(body[Root])
    BY <2>1 DEF PinInv, FreshBeforeRepin
  <2>5. PinsAreHonest' /\ Proved(Root)'
    BY <2>1, <2>4 DEF PinsAreHonest, Fresh, Proved, Cited
  <2>6. where \in [Node -> Where]
    BY <1>1 DEF ProcessInv
  <2>7. CitesAreDemanded' /\ FreshBeforeRepin'
    <3>1. RowsAreDemanded'
      <4> SUFFICES ASSUME NEW i \in DOMAIN rows[Root], NEW p, p = rows[Root][i].proof, p # NoProof
                   PROVE  Demanded(p)'
        BY <2>1 DEF RowsAreDemanded, Demanded, Cited
      <4> QED
        BY <2>3 DEF PinInv, CitesAreDemanded, RowsAreDemanded
    <3>2. Demanded(body[Root])'
      <4> SUFFICES ASSUME NEW p, p = body[Root] PROVE Demanded(p)'
        BY <2>1 DEF Demanded, Cited
      <4> QED
        BY <2>3, <2>4 DEF PinInv, CitesAreDemanded
    <3> QED
      BY <1>1, <2>1, <2>6, <3>1, <3>2 DEF CitesAreDemanded, FreshBeforeRepin
  <2>8. DueIsFresh'
    BY <2>5 DEF DueIsFresh, Due
  <2> QED
    BY <2>3, <2>5, <2>7, <2>8 DEF PinInv
<1>4. CASE n = Root /\ AttemptProved(n)
  BY <1>4, PinProved
<1>5. CASE n # Root \/ ~(AttemptProved(n) \/ RecordNode(n) \/ RepinNode(n))
  <2>1. UNCHANGED pin
    BY <1>5, NodeMoves DEF RepinEdges
  <2> QED
    BY <1>5, <2>1, PinQuiet
<1> QED
  BY <1>2, <1>3, <1>4, <1>5

\* The integration leaves every proof checked against the statements there are.
LEMMA PinIntegrate ==
    ASSUME IInv, PinInv, Integrate
    PROVE  PinInv'
<1> DEFINE D == LiveChild \cup {Root}
<1>1. /\ GraphInv /\ ProcessInv /\ Root \in Node /\ Child \subseteq Node /\ D \subseteq Node
      /\ UNCHANGED <<epoch, stmt, rows, pin, plan, taken, runs>> /\ phase = "integrate" /\ phase' = "down"
      /\ \A n \in Node : where'[n] = "idle"
      /\ step' = "look" /\ todo' = {}
  BY DEF IInv, Node, LiveChild, Integrate, Enter
<1>2. /\ \A n \in Node : status'[n] = IF n \in D THEN "integrated" ELSE status[n]
      /\ body'[Root] = Replayed(Root) /\ status'[Root] = "integrated" /\ Proved(Root)
  BY <1>1 DEF Integrate, Integrable
<1>3. Fresh(Replayed(Root)) /\ Cited(Replayed(Root)) \subseteq Cited(body[Root])
  BY <1>1, ReplayedIsFresh
<1>4. Proved(Root)' /\ Fresh(body[Root])'
  BY <1>1, <1>2, <1>3 DEF Proved, ProvedStatus, Fresh, Cited
<1>5. \A n \in Node : Present(n)' <=> Present(n)
  BY <1>1, <1>2 DEF Present, LiveChild, Integrate, Integrable, Proved, ProvedStatus
<1>6. EdgesFollow' /\ \A p : Demanded(p) => Demanded(p)'
  BY <1>1, <1>5, EdgesStay DEF PinInv
<1>7. PinsAreHonest'
  BY <1>4 DEF PinsAreHonest, Fresh
<1>8. CitesAreDemanded'
  <2>1. RowsAreDemanded'
    BY <1>1 DEF PinInv, CitesAreDemanded, RowsAreDemanded, Demanded
  <2>2. Demanded(body[Root])
    BY <1>2 DEF PinInv, CitesAreDemanded
  <2>3. Demanded(body[Root])'
    BY <1>1, <1>2, <1>3, <2>2 DEF Demanded, Cited
  <2> QED
    BY <1>1, <2>1, <2>3 DEF CitesAreDemanded
<1>9. FreshBeforeRepin'
  BY <1>1 DEF FreshBeforeRepin
<1>10. DueIsFresh'
  BY <1>4 DEF DueIsFresh, Due
<1> QED
  BY <1>6, <1>7, <1>8, <1>9, <1>10 DEF PinInv

\* A step that touches neither the graph nor the process.
LEMMA PinStutter ==
    ASSUME PinInv, UNCHANGED vars
    PROVE  PinInv'
<1>1. /\ PinsAreHonest' /\ EdgesFollow' /\ CitesAreDemanded'
  BY DEF vars, graph, process, PinInv, PinsAreHonest, EdgesFollow, CitesAreDemanded, RowsAreDemanded,
       Demanded, Proved, Present, Turn
<1>2. FreshBeforeRepin' /\ DueIsFresh'
  BY DEF vars, graph, process, PinInv, FreshBeforeRepin, DueIsFresh, Due, GatedAreFresh, Fresh, Proved, Turn,
       Salvageable, GatedRows
<1> QED
  BY <1>1, <1>2 DEF PinInv

\* Every step keeps what the pins rest on.
LEMMA PinNext ==
    ASSUME "reconcile" \notin KillPhases, ~EditAfterKill, IInv, BudgetInv,
           PlaceInv, SalvageInv, PinInv, [Next]_vars
    PROVE  PinInv'
<1>1. CASE StartRun
  BY <1>1, PinStart
<1>2. CASE Kill
  BY <1>2, PinExit DEF Kill
<1>3. CASE EnsureRoot
  BY <1>3, PinRoot
<1>4. CASE Reconciled \/ Resumed \/ Dispatch \/ Dispatched
  BY <1>4, PinPhase
<1>5. CASE Retired
  <2>1. CASE LiveChild = {}
    BY <1>5, <2>1, PinExit DEF Retired
  <2>2. CASE LiveChild # {}
    BY <1>5, <2>2, PinPhase
  <2> QED
    BY <2>1, <2>2
<1>6. CASE NotIntegrated
  BY <1>6, PinExit DEF NotIntegrated
<1>7. CASE Integrate
  BY <1>7, PinIntegrate
<1>8. ASSUME NEW c \in Child, ReconcileStep(c) PROVE PinInv'
  <2>1. CASE PlanProofRefused(c) \/ PlanProofRejected(c)
    <3>1. step # "edge"
      BY <2>1 DEF PlanProofRefused, PlanProofRejected, At
    <3> QED
      BY <2>1, <3>1, PinExit DEF PlanProofRefused, PlanProofRejected
  <2>2. CASE RetireDropped(c)
    BY <2>2, PinRetire
  <2>3. CASE AddChild(c) \/ RestateChild(c) \/ DemandEdge(c) \/ KeepChild(c) \/ TakePlanProof(c)
             \/ RecordPlanProof(c) \/ NoPlanProof(c)
    <3>1. phase = "reconcile"
      BY <2>3 DEF AddChild, RestateChild, DemandEdge, KeepChild, TakePlanProof, RecordPlanProof,
           NoPlanProof, At
    <3> QED
      BY <2>3, <3>1, PinReconcile
  <2> QED
    BY <1>8, <2>1, <2>2, <2>3 DEF ReconcileStep
<1>9. ASSUME NEW n \in Node, ResumeStep(n) \/ RevalidateStep(n) \/ NodeStep(n) PROVE PinInv'
  BY <1>9, PinResume, PinRevalidate, PinNode
<1>10. CASE UNCHANGED vars
  BY <1>10, PinStutter
<1> QED
  BY <1>1, <1>2, <1>3, <1>4, <1>5, <1>6, <1>7, <1>8, <1>9, <1>10 DEF Next, Advance, Exhausted

\* A graph without nodes has no pins.
LEMMA InitPins ==
    ASSUME Init
    PROVE  PinInv
<1>1. /\ Root \in Node /\ rows[Root] = << >> /\ status[Root] = "absent" /\ Child \subseteq Node
      /\ phase = "down" /\ step = "look"
      /\ \A n \in Node : status[n] = "absent" /\ where[n] = "idle"
      /\ \A c \in Child : pin[c] = NoEdge
  BY DEF Init, Node
<1>2. ~Proved(Root) /\ ~Salvageable(Root)
  BY <1>1, EmptySeq DEF Proved, ProvedStatus, Salvageable, GatedRows
<1>3. RowsAreDemanded
  BY <1>1, EmptySeq DEF RowsAreDemanded
<1>4. PinsAreHonest /\ CitesAreDemanded /\ DueIsFresh
  BY <1>1, <1>2, <1>3 DEF PinsAreHonest, CitesAreDemanded, DueIsFresh, Due
<1>5. EdgesFollow
  BY <1>1 DEF EdgesFollow, Present
<1>6. FreshBeforeRepin
  BY <1>1 DEF FreshBeforeRepin
<1> QED
  BY <1>4, <1>5, <1>6 DEF PinInv

\* An edge that is current is not believed in vain: as long as no process is killed between
\* a child and its demand edge, and no plan is edited after a kill, the root's proof was
\* checked against the statement that every child with a current pin has now.
THEOREM PinsTellTheTruth ==
    ASSUME "reconcile" \notin KillPhases, ~EditAfterKill
    PROVE  Spec => []PinsAreHonest
<1>1. Init => PinInv
  BY InitPins
<1>2. IInv /\ BudgetInv /\ PlaceInv /\ SalvageInv /\ PinInv /\ [Next]_vars => PinInv'
  BY PinNext
<1>3. Spec => []SalvageInv
  BY SalvageHolds
<1>4. PinInv => PinsAreHonest
  BY DEF PinInv
<1> QED
  BY <1>1, <1>2, <1>3, <1>4, Inductive, PlaceHolds, PTL DEF Spec
=============================================================================
