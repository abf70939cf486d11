------------------------------ MODULE RocqText ------------------------------
(***************************************************************************)
(* Rocq source as proof-copilot reads it: sentences, declarations and the   *)
(* spans of their proofs, what a proof body may hold, the assembly of a     *)
(* development with proof bodies, and the reading of `Print Assumptions`    *)
(* (src/pcp/rocq/).  Beside it, under "Rocq", what Rocq makes of the same   *)
(* text: the two readings are what the gate's properties compare.           *)
(*                                                                         *)
(* A text is a sequence of sentences [k, n, t]: the kind, the name (a path) *)
(* and the wording of a statement, a definition or a printed line.          *)
(* Sections, attributes, bullets and comments that are closed are left out. *)
(***************************************************************************)
EXTENDS Naturals, Sequences, FiniteSets, SequencesExt

CONSTANTS
    Ident, Wording,   \* the identifiers and the wordings there are
    Source,           \* the frozen development
    Anchor            \* the declaration in it that fixes where obligations go: the root

Kind == {"require", "module", "end", "lemma", "goal", "axiom", "def", "notation", "hint", "proof", "term", "exact", "tac",
         "admit", "say", "qed", "defined", "admitted", "abort", "wrap", "hatch", "directive", "open", "glued", "comment",
         "query", "printing", "locate", "print"}
Path == Seq(Ident)
Line == {s \in [k : Kind, n : Path, t : Wording] : s.k = "wrap" => s.t \in Kind}

ASSUME SourceAssumption == "" \in Wording /\ Anchor \in Path /\ Source \in Seq(Line)

S(k, n, t) == [k |-> k, n |-> n, t |-> t]
None == <<>>
NoBody == <<>>       \* an obligation without a proof: its stub is Admitted

-----------------------------------------------------------------------------
(* lexer.py, decls.py *)

\* A tactic without its period runs on into the next sentence, and a comment that is
\* never closed into the rest of the text.
LexNext(acc, s) ==
    IF acc = <<>> THEN <<s>>
    ELSE CASE Last(acc).k = "comment" -> acc
           [] Last(acc).k = "open" -> Append(Front(acc), [Last(acc) EXCEPT !.k = IF s.k \in {"open", "comment"} THEN s.k ELSE "glued"])
           [] OTHER -> Append(acc, s)
Lexed(text) == LET upTo[i \in 0..Len(text)] == IF i = 0 THEN <<>> ELSE LexNext(upTo[i - 1], text[i]) IN upTo
Lex(text) == Lexed(text)[Len(text)]

IsDecl(s)  == s.k \in {"lemma", "goal", "axiom", "def", "notation"}
IsEnder(s) == s.k \in {"qed", "defined", "admitted", "abort"}
IsScope(s) == s.k \in {"module", "end"}

\* _scope_step: the modules open before sentence i; an End closes all it encloses.
ScopesAt(s, i) ==
    LET step(stack, x) ==
            CASE x.k = "module" -> Append(stack, x.n[1])
              [] x.k = "end" /\ \E j \in DOMAIN stack : stack[j] = x.n[1] ->
                    SubSeq(stack, 1, SelectLastInSeq(stack, LAMBDA m : m = x.n[1]) - 1)
              [] OTHER -> stack
    IN  FoldLeft(step, <<>>, SubSeq(s, 1, i - 1))

Least(lo, hi, P(_)) == CHOOSE j \in lo..(hi + 1) : (j = hi + 1 \/ P(j)) /\ \A k \in lo..(j - 1) : ~P(k)

\* _collect_body: up to the ender, the next declaration or the next scope.
BodyEnd(s, j) == Least(j, Len(s), LAMBDA k : IsEnder(s[k]) \/ IsDecl(s[k]) \/ IsScope(s[k]))

\* _looks_like_script: tactics and an ender, with no `Proof.`
LooksLikeScript(s, i) ==
    /\ s[i].k \in {"lemma", "goal"}
    /\ \E k \in (i + 1)..Len(s) :
          IsEnder(s[k]) /\ \A m \in (i + 1)..(k - 1) : ~IsDecl(s[m]) /\ ~IsScope(s[m]) /\ s[m].k \notin {"proof", "term"}

Ender(s, to) == IF to <= Len(s) /\ IsEnder(s[to]) THEN s[to].k ELSE "none"
Block(s, i, kind, from, to) ==
    [at |-> i, statement |-> s[i], name |-> s[i].n, modules |-> ScopesAt(s, i), kind |-> kind, from |-> from,
     body |-> SubSeq(s, from, to - 1), ender |-> IF kind = "script" THEN Ender(s, to) ELSE "none",
     end |-> IF kind = "script" /\ Ender(s, to) # "none" THEN to + 1 ELSE to]
Script(s, i, from) == Block(s, i, "script", from, BodyEnd(s, from))

BlockAt(s, i) ==
    CASE i < Len(s) /\ s[i + 1].k = "proof" -> Script(s, i, i + 2)
      [] i < Len(s) /\ s[i + 1].k = "term" -> Block(s, i, "term", i + 1, i + 2)
      [] LooksLikeScript(s, i) -> Script(s, i, i + 1)
      [] OTHER -> Block(s, i, "none", i + 1, i + 1)

\* parse_blocks: a body never runs past a declaration, so every declaration begins a
\* block.
ParseBlocks(s) == FlattenSeq([i \in DOMAIN s |-> IF IsDecl(s[i]) THEN <<BlockAt(s, i)>> ELSE <<>>])

QualifiedName(b) == b.modules \o b.name
FirstBlock(bs, name) == bs[SelectInSeq(bs, LAMBDA b : b.name = name)]

-----------------------------------------------------------------------------
(* body.py: is this text a proof body, and nothing else *)

Inner(s) == S(s.t, s.n, "")     \* what `Time` runs

\* A faulty variant: a wrapper is one of the allowed queries.
CheckSurface(s) ==
    CASE IsEnder(s) -> "ends the proof"
      [] s.k \in {"proof", "term"} -> "opens a proof"
      [] s.k \in {"hatch", "directive"} -> "option"
      [] s.k \in {"tac", "exact", "say", "glued", "query", "printing", "wrap"} -> "fine"
      [] s.k = "admit" -> "forbidden tactic"
      [] OTHER -> "vernacular"

CheckCode(s) ==
    LET c == IF s.k = "wrap" THEN Inner(s) ELSE s IN
    CASE IsEnder(c) -> "ends the proof"
      [] c.k \in {"proof", "term"} -> "opens a proof"
      [] c.k \in {"hatch", "directive"} -> "option"
      [] c.k \in {"tac", "exact", "say", "glued", "query", "printing"} -> "fine"
      [] c.k = "admit" -> "forbidden tactic"
      [] c.k = "open" -> "unterminated"
      [] OTHER -> "vernacular"

\* validate_body, with lex_issues.
Violations(body) ==
    IF \E i \in DOMAIN body : body[i].k = "comment" THEN {"unterminated comment"}
    ELSE LET s == Lex(body) IN {CheckCode(s[i]) : i \in DOMAIN s} \ {"fine"}

-----------------------------------------------------------------------------
(* assemble.py *)

HasDirective(s) == \E i \in DOMAIN s : s[i].k = "directive"

\* insert_preamble: after the last Require that no module encloses.
InsertPreamble(s, extra) ==
    LET stop == Least(1, Len(s), LAMBDA i : s[i].k = "module")
        reqs == {i \in 1..(stop - 1) : s[i].k = "require"}
        last == IF reqs = {} THEN 0 ELSE CHOOSE i \in reqs : \A j \in reqs : j <= i
    IN  SubSeq(s, 1, last) \o <<extra>> \o SubSeq(s, last + 1, Len(s))

StubbedBlocks(s) == ToSet(SelectSeq(ParseBlocks(s), LAMBDA b : b.name # None /\ b.ender = "qed"))

\* stub_proof_bodies: every Qed-terminated body becomes Admitted.
StubSentences(s, blocks) ==
    [i \in DOMAIN s |->
        CASE \E b \in blocks : i \in b.from..(b.end - 2) -> <<>>
          [] \E b \in blocks : i = b.end - 1 -> <<S("admitted", None, "")>>
          [] OTHER -> <<s[i]>>]
StubProofBodies(s) == FlattenSeq(StubSentences(s, StubbedBlocks(s)))

\* NodeSpec.render
Render(spec) ==
    <<S("lemma", spec.name, spec.t), S("proof", None, "")>>
    \o (IF spec.body = NoBody THEN <<S("admitted", None, "")>> ELSE spec.body \o <<S("qed", None, "")>>)

Trailer(names) == FlattenSeq([i \in DOMAIN names |-> <<S("locate", names[i], ""), S("print", names[i], "")>>])

AnchorBlock == FirstBlock(ParseBlocks(Source), Anchor)
Kept == SubSeq(Source, 1, AnchorBlock.at - 1)
After == SubSeq(Source, AnchorBlock.end, Len(Source))
StubbedKept == StubProofBodies(Kept)
StubbedNames == {QualifiedName(b) : b \in StubbedBlocks(Kept)}
WithDirective(s) == IF HasDirective(s) THEN s ELSE InsertPreamble(s, S("directive", None, ""))
Preamble == [stubPrefix \in BOOLEAN |-> WithDirective(IF stubPrefix THEN StubbedKept ELSE Kept)]
Ends == LET m == AnchorBlock.modules IN [i \in DOMAIN m |-> S("end", <<m[Len(m) + 1 - i]>>, "")]

\* Development.assemble: the frozen source with the nodes before the anchor, and cut
\* after it (the per-node check, whose prefix is stubbed) or whole (the integration).
Assemble(nodes, anchorBody, truncate, trailer) ==
    Preamble[truncate] \o FlattenSeq([i \in DOMAIN nodes |-> Render(nodes[i])])
    \o Render([name |-> Anchor, t |-> AnchorBlock.statement.t, body |-> anchorBody])
    \o (IF truncate THEN Ends ELSE After) \o Trailer(trailer)

-----------------------------------------------------------------------------
(* assumptions.py: a printed line is [k, n], k the shape its reader tells *)

SuffixMatch(a, b) == IsSuffix(a, b) \/ IsSuffix(b, a)
Marks(line, name) == line.k = "const" /\ SuffixMatch(line.n, name)
IsHead(line) == line.k \in {"axioms", "closed"}

\* _parse_block: the lines of the block that begins at i, up to the next head.
BlockLines(lines, i, upper) ==
    IF lines[i].k = "closed" THEN {}
    ELSE {lines[j] : j \in (i + 1)..(Least(i + 1, upper - 1, LAMBDA k : IsHead(lines[k])) - 1)}

\* A faulty variant: the blocks are matched from the top, as they were asked for.
ParseForward(lines, names) ==
    [n \in ToSet(names) |->
        LET marker == Least(1, Len(lines), LAMBDA i : Marks(lines[i], n))
            head == Least(marker + 1, Len(lines), LAMBDA i : IsHead(lines[i]))
        IN  IF head > Len(lines) THEN {[k |-> "unread", n |-> n]}
            ELSE BlockLines(lines, head, Least(head + 1, Len(lines), LAMBDA i : lines[i].k = "const"))]

\* parse_assumptions: from the end of the output backwards, since nothing a proof
\* prints comes after the trailer.  A name that is not found is reported as unread.
ParseAssumptions(lines, names) ==
    LET read(n, acc) ==
            LET markers == {i \in 1..(acc.upper - 1) : Marks(lines[i], n)}
                marker == CHOOSE i \in markers : \A j \in markers : j <= i
                head == Least(marker + 1, acc.upper - 1, LAMBDA i : IsHead(lines[i]))
                unread == {[k |-> "unread", n |-> n]}
            IN  IF markers = {} THEN [acc EXCEPT !.got = @ @@ (n :> unread)]
                ELSE [upper |-> marker, got |-> acc.got @@ (n :> IF head >= acc.upper THEN unread ELSE BlockLines(lines, head, acc.upper))]
    IN  FoldRight(read, names, [upper |-> Len(lines) + 1, got |-> <<>>]).got

\* classify_assumptions: only an ordinary entry can be whitelisted or lean on a stub.
Offending(lines, known) == {l \in lines : l.k # "entry" \/ \A w \in known : ~SuffixMatch(l.n, w)}
-----------------------------------------------------------------------------
(* Rocq: what compiling the text declares and prints.  A proof rests on the     *)
(* axioms of the constants it uses; `exact` with no name solves a goal alone.   *)

Declared(st, n) == {i \in DOMAIN st.env : Last(st.env[i].name) = Last(n)}
Newest(st, n) == CHOOSE i \in Declared(st, n) : \A j \in Declared(st, n) : j <= i
Entry(st, n, t, how, rests) ==
    LET name == st.mods \o n
    IN  [name |-> name, t |-> t, how |-> how, rests |-> IF how = "axiom" THEN {name} ELSE rests]
Proving(st) == st.proofs # <<>>
Proof(st) == Last(st.proofs)
Rejected(st) == [st EXCEPT !.err = TRUE]
Declare(st, n, t, how, rests) ==
    IF n # None /\ \E i \in DOMAIN st.env : st.env[i].name = st.mods \o n THEN Rejected(st)
    ELSE [st EXCEPT !.env = Append(@, Entry(st, n, t, how, rests))]
Open(st, n, t) ==
    IF Proving(st) /\ ~st.nested THEN Rejected(st)
    ELSE [st EXCEPT !.proofs = Append(@, [name |-> n, t |-> t, solved |-> FALSE, admits |-> FALSE, rests |-> {}])]
Close(st, how) ==
    Declare([st EXCEPT !.proofs = Front(@)], Proof(st).name, Proof(st).t, how, Proof(st).rests)
Solve(st, n) ==
    IF Proof(st).solved \/ (n # None /\ Declared(st, n) = {}) THEN Rejected(st)
    ELSE [st EXCEPT !.proofs[Len(st.proofs)].solved = TRUE,
                    !.proofs[Len(st.proofs)].rests = IF n = None THEN {} ELSE st.env[Newest(st, n)].rests]

\* The shortest path that names one constant only.
Shortest(st, name) ==
    IF Cardinality({i \in DOMAIN st.env : Last(st.env[i].name) = Last(name)}) = 1 THEN <<Last(name)>> ELSE name
Show(st, lines) == [st EXCEPT !.out = @ \o lines]
PrintAssumptions(st, i) ==
    LET rests == st.env[i].rests
    IN  Show(st, IF rests = {} THEN <<[k |-> "closed", n |-> None]>>
                 ELSE <<[k |-> "axioms", n |-> None]>>
                      \o SetToSeq({[k |-> "entry", n |-> Shortest(st, a)] : a \in rests}))

InProof(st, s) ==
    CASE s.k = "exact" -> Solve(st, s.n)
      [] s.k = "admit" -> [st EXCEPT !.proofs[Len(st.proofs)].solved = TRUE, !.proofs[Len(st.proofs)].admits = TRUE]
      [] s.k = "say"   -> Show(st, <<[k |-> s.t, n |-> s.n]>>)
      [] s.k \in {"qed", "defined"} -> IF Proof(st).solved /\ ~Proof(st).admits THEN Close(st, "proof") ELSE Rejected(st)
      [] s.k = "admitted" -> Close(st, "axiom")
      [] s.k = "abort" -> [st EXCEPT !.proofs = Front(@)]
      [] s.k = "term"  -> LET solved == Solve(st, s.n) IN IF solved.err THEN solved ELSE Close(solved, "proof")
      [] OTHER -> st      \* "tac", "proof"

Sentence(st, s) ==
    CASE s.k \in {"tac", "proof", "exact", "admit", "say", "qed", "defined", "admitted", "abort", "term"} ->
            IF Proving(st) THEN InProof(st, s) ELSE Rejected(st)
      [] s.k \in {"open", "glued", "comment"} -> Rejected(st)
      [] s.k \in {"lemma", "goal"} -> Open(st, s.n, s.t)
      [] s.k = "axiom" -> Declare(st, s.n, s.t, "axiom", {})
      [] s.k = "def" -> Declare(st, s.n, s.t, "def", {})
      [] s.k \in {"notation", "hint"} -> [st EXCEPT !.ambient = @ + 1]
      [] s.k = "hatch" -> [st EXCEPT !.ambient = @ + 1, !.nested = TRUE]
      [] s.k = "module" -> IF Proving(st) THEN Rejected(st) ELSE [st EXCEPT !.mods = @ \o s.n]
      [] s.k = "end" -> IF Proving(st) \/ st.mods = <<>> \/ <<Last(st.mods)>> # s.n THEN Rejected(st) ELSE [st EXCEPT !.mods = Front(@)]
      [] s.k = "locate" -> Show(st, <<[k |-> IF Declared(st, s.n) = {} THEN "text" ELSE "const", n |-> s.n]>>)
      [] s.k = "print" -> IF \E i \in DOMAIN st.env : st.env[i].name = s.n
                          THEN PrintAssumptions(st, CHOOSE i \in DOMAIN st.env : st.env[i].name = s.n)
                          ELSE Rejected(st)
      [] OTHER -> st      \* "require", "directive", "printing", "query"

Begun == [env |-> <<>>, proofs |-> <<>>, mods |-> <<>>, nested |-> FALSE, ambient |-> 0, out |-> <<>>, err |-> FALSE]
Step(st, s) == IF st.err THEN st ELSE Sentence(st, IF s.k = "wrap" THEN Inner(s) ELSE s)
Compiled(st, s) == LET upTo[i \in 0..Len(s)] == IF i = 0 THEN st ELSE Step(upTo[i - 1], s[i]) IN upTo
Compile(st, s) == Compiled(st, s)[Len(s)]
Rocq(text) ==
    LET end == Compile(Begun, Lex(text))
    IN  IF Proving(end) \/ end.mods # <<>> THEN Rejected(end) ELSE end
=============================================================================
