-------------------------------- MODULE Gate --------------------------------
(***************************************************************************)
(* The integrity gate (src/pcp/orch/gate.py) and the design contract        *)
(* (src/pcp/orch/contract.py): a proof body, written a sentence at a time,  *)
(* is gated against the frozen development with its siblings proved or      *)
(* stubbed; when every obligation has passed, the whole file is integrated. *)
(* A design is the development's file itself, edited and gated whole.       *)
(* Compilers that fail to run are in WorkerAttempt.                         *)
(***************************************************************************)
EXTENDS RocqText

CONSTANTS
    Plan,              \* the obligations before the root, in plan order
    Whitelist,         \* axioms a proof may rest on
    Words,             \* sentences a body is written with
    ContractResults,   \* names the design contract holds
    Mutable,           \* names it lets a design rewrite
    Draft,             \* the text a designer starts from
    Edits,             \* sentences a design edit may put in
    MaxBody,           \* bound: sentences of the first body gated
    MaxLater,          \* bound: sentences of a body gated after it
    MaxEdits           \* bound: edits of a design

ASSUME AnchorAssumption == \E i \in DOMAIN Source : Source[i].k = "lemma" /\ Source[i].n = Anchor
ASSUME PlanAssumption == Plan \in Seq(Path \ {None}) /\ Anchor # None /\ Words \subseteq Line /\ Draft \in Seq(Line)
ASSUME BoundAssumption == {MaxBody, MaxLater, MaxEdits} \subseteq Nat

VARIABLES
    target,       \* the obligation being worked on, None between two
    draft,        \* its body so far
    accepted,     \* Node.body: what passed the gate
    verdict,      \* the last GateResult: what was asked, its kind and whether it passed
    candidate,    \* the design under edit, and how many edits made it
    edits

gateVars == <<target, draft, accepted, verdict, candidate, edits>>

Obligations == Append(Plan, Anchor)
NoVerdict == [kind |-> "none", ok |-> FALSE, text |-> <<>>, proved |-> <<>>]

Qualify(name) == AnchorBlock.modules \o name

-----------------------------------------------------------------------------
(* The checks *)

StaticChecks(bodies) == \A body \in bodies : Violations(body) = {}

Named(bs) == [i \in DOMAIN bs |-> QualifiedName(bs[i])]

\* A faulty variant: the target is looked for by name and has to end in Qed.
RecheckByName(bs, rs, name, statement, body) == \E i \in DOMAIN bs : bs[i].name = name /\ bs[i].ender = "qed"

\* structural_recheck: the blocks of the assembly against those of the same assembly
\* carrying `admit.`
StructuralRecheck(bs, rs, name, statement, body) ==
    /\ body # <<>>
    /\ Named(bs) = Named(rs)
    /\ \E i \in DOMAIN rs :
          /\ rs[i].name = name /\ rs[i].body = <<S("admit", None, "")>>
          /\ bs[i].statement = statement /\ bs[i].body = Lex(body) /\ bs[i].ender = "qed"

\* _assumption_checks
Clean(report, stubs) == \A n \in DOMAIN report : Offending(report[n], Whitelist \cup stubs) = {}
AssumptionsClean(rocq, proved, stubs) == ~rocq.err /\ Clean(ParseAssumptions(rocq.out, proved), stubs)

-----------------------------------------------------------------------------
(* Gate.run *)

Specs(bodies, names) == [i \in DOMAIN names |-> [name |-> names[i], t |-> "", body |-> bodies[names[i]]]]
WithBody(bodies, name, body) == [bodies EXCEPT ![name] = body]
Assembled(bodies, truncate, trailer) == Assemble(Specs(bodies, Plan), bodies[Anchor], truncate, trailer)

ProvedIn(bodies) == FlattenSeq([i \in DOMAIN Obligations |-> IF bodies[Obligations[i]] = NoBody THEN <<>> ELSE <<Obligations[i]>>])
QualifiedAll(names) == [i \in DOMAIN names |-> Qualify(names[i])]

\* A faulty variant: whatever the file declares before the anchor counts as a stub.
StubsAll(bodies, truncate) ==
    {Qualify(n) : n \in {m \in ToSet(Obligations) : bodies[m] = NoBody}}
    \cup IF truncate THEN {QualifiedName(b) : b \in ToSet(ParseBlocks(Kept))} ELSE {}

Stubs(bodies, truncate) ==
    {Qualify(n) : n \in {m \in ToSet(Obligations) : bodies[m] = NoBody}} \cup IF truncate THEN StubbedNames ELSE {}

Recheck(bodies, name, truncate) ==
    StructuralRecheck(
        ParseBlocks(Lex(Assembled(bodies, truncate, <<>>))),
        ParseBlocks(Lex(Assembled(WithBody(bodies, name, <<S("admit", None, "")>>), truncate, <<>>))),
        name, S("lemma", name, ""), bodies[name])

\* Gate.run for `name`, whose body `bodies` holds: a per-node gate cuts the file after
\* the anchor and stubs what is before it, the integration does neither.
Passes(bodies, name, truncate) ==
    /\ StaticChecks({bodies[n] : n \in ToSet(ProvedIn(bodies))})
    /\ Recheck(bodies, name, truncate)
    /\ AssumptionsClean(Rocq(Assembled(bodies, truncate, QualifiedAll(ProvedIn(bodies)))),
                        QualifiedAll(ProvedIn(bodies)), Stubs(bodies, truncate))

-----------------------------------------------------------------------------
(* Gate.run_design, and DesignContract.violations *)

Scripts(bs) == {bs[i] : i \in {j \in DOMAIN bs : bs[j].kind = "script"}}
Proven(b) == b.kind = "term" \/ (b.kind = "script" /\ b.ender \in {"qed", "defined"})

\* static_checks over the scripts, by _block_key: of the blocks with one qualified name
\* the last is read, and it may use `admit` if any of them is left unproved.
SameKey(b, c) == b = c \/ (b.name # None /\ QualifiedName(b) = QualifiedName(c))
ScriptsClean(bs) ==
    \A b \in Scripts(bs) :
        LET keyed == {c \in Scripts(bs) : SameKey(b, c)} IN
        (\A c \in keyed : c.at <= b.at) =>
            Violations(b.body) \subseteq IF \A c \in keyed : Proven(c) THEN {} ELSE {"forbidden tactic"}

\* _fragment_checks: the sentences outside every proof.
FragmentClean(s, bs) ==
    LET inside == UNION {b.from..(b.from + Len(b.body) - 1) : b \in Scripts(bs)}
    IN  \A i \in DOMAIN s \ inside : s[i].k # "hatch" /\ (s[i].k = "axiom" => s[i] \in ToSet(Source))

\* _results_proved_check: the first block of each name.
ResultsProved(bs) ==
    \A r \in ContractResults :
        LET i == SelectInSeq(bs, LAMBDA b : b.name = r) IN i # 0 => Proven(bs[i])

\* _declarations: by qualified name, the first wins.
Declarations(bs) ==
    [q \in {QualifiedName(bs[i]) : i \in {j \in DOMAIN bs : bs[j].name # None}} |->
        bs[SelectInSeq(bs, LAMBDA b : b.name # None /\ QualifiedName(b) = q)]]

MayChange(b) == b.name \notin ContractResults /\ (b.name \in Mutable \/ (ContractResults # {} /\ b.statement.k = "lemma"))

\* A faulty variant: what a design deletes it does not change.
ContractOfKept(before, after) ==
    \A q \in DOMAIN before \cap DOMAIN after : before[q].statement = after[q].statement \/ MayChange(before[q])

Contract(before, after) ==
    /\ DOMAIN before \subseteq DOMAIN after
    /\ \A q \in DOMAIN before : before[q].statement = after[q].statement \/ MayChange(before[q])
    /\ \A q \in DOMAIN after \ DOMAIN before : after[q].statement.k \in {"def", "notation"}

Requires(s) == {s[i] : i \in {j \in DOMAIN s : s[j].k = "require"}}

\* The names the trailer asks for: of every Qed, and of the results among the rest; each
\* bare name stands for the first block that has it.
DesignProved(bs) ==
    LET qed == SelectSeq(bs, LAMBDA b : b.name # None /\ b.kind = "script" /\ b.ender = "qed")
        names == {bs[i].name : i \in DOMAIN bs}
        rest == SetToSeq((ContractResults \cap names) \ {qed[i].name : i \in DOMAIN qed})
        all == [i \in DOMAIN qed |-> qed[i].name] \o rest
    IN  [i \in DOMAIN all |-> QualifiedName(FirstBlock(bs, all[i]))]

DesignStubs(bs) == {QualifiedName(bs[i]) : i \in {j \in DOMAIN bs : bs[j].ender = "admitted" /\ bs[j].name \notin ContractResults}}

Original == Declarations(ParseBlocks(Source))
DesignChecks(s, bs) ==
    /\ ScriptsClean(bs) /\ FragmentClean(s, bs) /\ ResultsProved(bs)
    /\ Contract(Original, Declarations(bs))
    /\ Requires(Source) \subseteq Requires(s)
RunBlocks(text, bs, proved) ==
    /\ DesignChecks(Lex(text), bs)
    /\ AssumptionsClean(Rocq(text \o Trailer(proved)), proved, DesignStubs(bs))
RunDesign(text) == LET bs == ParseBlocks(Lex(text)) IN RunBlocks(text, bs, DesignProved(bs))

-----------------------------------------------------------------------------
(* Actions *)

GateInit ==
    /\ target = None /\ draft = <<>> /\ verdict = NoVerdict
    /\ accepted = [n \in ToSet(Obligations) |-> NoBody]
    /\ candidate = Draft /\ edits = 0

Untouched == accepted = [n \in ToSet(Obligations) |-> NoBody] /\ target = None

\* A worker takes an obligation that has no proof yet.
Take(n) ==
    /\ target = None /\ edits = 0 /\ accepted[n] = NoBody /\ verdict.kind # "design"
    /\ target' = n /\ draft' = <<>> /\ verdict' = NoVerdict
    /\ UNCHANGED <<accepted, candidate, edits>>

Write(w) ==
    /\ target # None
    /\ Len(draft) < IF \A n \in DOMAIN accepted : accepted[n] = NoBody THEN MaxBody ELSE MaxLater
    /\ draft' = Append(draft, w)
    /\ UNCHANGED <<target, accepted, verdict, candidate, edits>>

\* The per-node gate: siblings as they stand, the root open while another is gated.
Submit ==
    /\ target # None /\ draft # <<>>
    /\ \E bodies \in {WithBody(IF target = Anchor THEN accepted ELSE WithBody(accepted, Anchor, NoBody), target, draft)},
          ok \in BOOLEAN :
          /\ ok = Passes(bodies, target, TRUE)
          /\ verdict' = IF ok THEN [kind |-> "node", ok |-> TRUE, text |-> Assembled(bodies, TRUE, <<>>), proved |-> ProvedIn(bodies)]
                        ELSE [NoVerdict EXCEPT !.kind = "node"]
          /\ accepted' = IF ok THEN WithBody(accepted, target, draft) ELSE accepted
    /\ target' = None /\ draft' = <<>>
    /\ UNCHANGED <<candidate, edits>>

\* integrate: the whole file, nothing stubbed.
Integrate ==
    /\ \A n \in DOMAIN accepted : accepted[n] # NoBody
    /\ verdict.kind = "node"
    /\ verdict' = [kind |-> "integration", ok |-> Passes(accepted, Anchor, FALSE),
                   text |-> Assembled(accepted, FALSE, <<>>), proved |-> Obligations]
    /\ UNCHANGED <<target, draft, accepted, candidate, edits>>

Edit ==
    /\ Untouched /\ edits < MaxEdits /\ verdict = NoVerdict
    /\ \E i \in DOMAIN candidate :
          candidate' \in {RemoveAt(candidate, i)} \cup {ReplaceAt(candidate, i, w) : w \in Edits} \cup {InsertAt(candidate, i, w) : w \in Edits}
    /\ edits' = edits + 1
    /\ UNCHANGED <<target, draft, accepted, verdict>>

SubmitDesign ==
    /\ edits > 0 /\ verdict = NoVerdict
    /\ verdict' = [kind |-> "design", ok |-> RunDesign(candidate), text |-> candidate, proved |-> <<>>]
    /\ UNCHANGED <<target, draft, accepted, candidate, edits>>

GateNext ==
    \/ \E n \in ToSet(Obligations) : Take(n)
    \/ \E w \in Words : Write(w)
    \/ Submit \/ Integrate \/ Edit \/ SubmitDesign

GateSpec == GateInit /\ [][GateNext]_gateVars
-----------------------------------------------------------------------------
(* Properties: what Rocq itself makes of a text the gate passed *)

Stated(env) == [i \in DOMAIN env |-> <<env[i].name, env[i].t>>]
At(env, name) == env[CHOOSE i \in DOMAIN env : env[i].name = name]
Before == Rocq(Kept).env
Afterwards == LET all == Rocq(Source).env IN SubSeq(all, Len(Before) + 2, Len(all))
Planned == Stated(Before) \o [i \in DOMAIN Obligations |-> <<Qualify(Obligations[i]), "">>]
Expected(whole) == Planned \o (IF whole THEN Stated(Afterwards) ELSE <<>>)

\* What is assumed of the frozen file: it compiles (prove/design.py compiles the design
\* before it plans), and up to the anchor the parser reads in it what Rocq does: the
\* modules open, the end of the anchor's proof, and proofs that change nothing beside
\* themselves, so that stubbing them does not either.  Rocq refuses a second constant of
\* an obligation's name; the last conjunct also keeps out anonymous goals in a module
\* that has it.
Settled(st, stated) ==
    /\ st.proofs = <<>> /\ st.mods = AnchorBlock.modules /\ Stated(st.env) = stated
    /\ st.nested = Rocq(Kept).nested /\ st.ambient = Rocq(Kept).ambient
ASSUME FrozenAssumption ==
    /\ \A i \in DOMAIN Source : Source[i].k \notin {"open", "comment"}
    /\ ~Rocq(Source).err
    /\ AnchorBlock.at \in 1..Len(Source) /\ AnchorBlock.end \in (AnchorBlock.at + 1)..(Len(Source) + 1)
    /\ AnchorBlock.statement.t = ""
    /\ Settled(Compile(Begun, Kept), Stated(Before)) /\ Settled(Compile(Begun, StubbedKept), Stated(Before))
    /\ Settled(Compile(Begun, SubSeq(Source, 1, AnchorBlock.end - 1)), Append(Stated(Before), <<Qualify(Anchor), "">>))
    /\ \A e \in ToSet(Afterwards), n \in ToSet(Obligations) : e.name # Qualify(n)

\* A text that passed the gate declares, in this order, what the frozen file and the
\* plan state and nothing else, changes nothing outside its proofs, and proves every
\* obligation it holds a body for (gate.py, checks 1-4): a body cannot define,
\* redefine, reopen or register anything.
GatedMeansProved ==
    verdict.ok /\ verdict.kind \in {"node", "integration"} =>
        LET rocq == Rocq(verdict.text)
            whole == verdict.kind = "integration"
        IN  /\ Stated(rocq.env) = Expected(whole)
            /\ rocq.ambient = Rocq(IF whole THEN Source ELSE Kept).ambient
            /\ \A n \in ToSet(verdict.proved) : At(rocq.env, Qualify(n)).how = "proof"

\* What it proves rests on whitelisted axioms, on obligations still open and on proofs
\* the prefix stubs, whatever its proofs print on the stream the gate reads
\* (assumptions.py: blocks are matched from the end).
RestsOnKnown ==
    verdict.ok /\ verdict.kind \in {"node", "integration"} =>
        LET env == Rocq(verdict.text).env
            open == ToSet(Obligations) \ ToSet(verdict.proved)
            stubbed == IF verdict.kind = "node" THEN {e \in ToSet(Before) : e.how = "proof"} ELSE {}
        IN  \A n \in ToSet(verdict.proved) :
                At(env, Qualify(n)).rests \subseteq Whitelist \cup {Qualify(o) : o \in open} \cup {e.name : e \in stubbed}

StandsAlone(bodies) ==
    LET rocq == Rocq(Assembled(bodies, TRUE, <<>>))
    IN  ~rocq.err /\ (Stated(rocq.env) # Planned \/ At(rocq.env, Qualify(target)).how # "proof")
            => ~Recheck(bodies, target, TRUE)

\* The structural recheck needs no static rule (gate.py: "even if a static rule missed
\* them"): if it alone lets a body by and Rocq compiles the assembly, the declarations
\* are the expected ones and the target is proved.  A sentence run by `Time` is not
\* read by the recheck, which leaves those to the static rules.
RecheckStandsAlone ==
    target # None /\ draft # <<>> /\ (\A i \in DOMAIN draft : draft[i].k # "wrap") =>
        StandsAlone(WithBody([n \in ToSet(Obligations) |-> NoBody], target, draft))

\* Obligations are gated one at a time against stubs of the others: when each has
\* passed, the whole file compiles, and integration refuses only what a stubbed lemma of
\* the prefix hid from the gate of an obligation: an axiom that lemma rests on and the
\* whitelist does not hold (gate.py Claim 1; prove/integrate.py relies on it).
GatesAddUp ==
    verdict.kind = "integration" =>
        LET rocq == Rocq(verdict.text)
            borrowed == UNION {e.rests : e \in {x \in ToSet(Before) : x.how = "proof"}} \ Whitelist
            rests == UNION {At(rocq.env, Qualify(n)).rests : n \in ToSet(Obligations)}
        IN  /\ ~rocq.err
            /\ rests \subseteq Whitelist \cup borrowed
            /\ verdict.ok <=> rests \cap borrowed = {}

\* A design that passed still states every result of the original as it was, and Rocq
\* has it proved on whitelisted axioms and on lemmas that are not results and are left
\* admitted (contract.py; gate.py run_design).  Of two results with one bare name the
\* proof is asked of the first in the design alone.
DesignKeepsResults ==
    verdict.ok /\ verdict.kind = "design" =>
        LET env == Rocq(verdict.text).env
            bs == ParseBlocks(Lex(verdict.text))
            admitted == {e.name : e \in {x \in ToSet(env) : x.how = "axiom" /\ <<Last(x.name)>> \notin ContractResults}}
            axioms == {e.name : e \in {x \in ToSet(env) : x.how = "axiom"}} \cap {s.n : s \in {x \in ToSet(verdict.text) : x.k = "axiom"}}
        IN  \A was \in {e \in ToSet(Rocq(Source).env) : <<Last(e.name)>> \in ContractResults} :
                /\ \E b \in ToSet(bs) : QualifiedName(b) = was.name /\ b.statement.t = was.t
                /\ QualifiedName(FirstBlock(bs, <<Last(was.name)>>)) = was.name =>
                      /\ <<was.name, was.t>> \in ToSet(Stated(env))
                      /\ At(env, was.name).how = "proof"
                      /\ At(env, was.name).rests \subseteq Whitelist \cup (admitted \ axioms)
=============================================================================
