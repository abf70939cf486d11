--------------------------- MODULE ResourceLedger ---------------------------
(***************************************************************************)
(* The resource ledger of a proof: what the diff of two printed proof       *)
(* states says a tactic did to the hypotheses, and what the queries over    *)
(* those events answer about a name.  The proof itself carries what no      *)
(* printed state shows, which resource a hypothesis is (`res`): the ledger  *)
(* reads names, propositions and classes only, and the properties compare   *)
(* what it says with what happened.  Anonymous hypotheses, pure facts,      *)
(* modalities and fractions are left out.                                   *)
(***************************************************************************)
EXTENDS Naturals, Sequences, FiniteSets, FiniteSetsExt

CONSTANTS
    Name, Prop,
    Instance,     \* <<before, after>>: after is before with its evars instantiated
    Lasting,      \* propositions that can move to the intuitionistic context
    MaxIntros,    \* bound: names introduced, all by the first sentence
    MaxSteps,     \* bound: sentences of a proof
    MaxGoals      \* bound: goals open at once

ASSUME NameAssumption == IsFiniteSet(Name)
ASSUME PropAssumption == Instance \subseteq Prop \X Prop /\ Lasting \subseteq Prop
ASSUME LedgerBoundAssumption == {MaxIntros, MaxSteps, MaxGoals} \subseteq Nat

VARIABLES
    steps,     \* Trace.steps: the goals after each sentence, the focused one first
    events,    \* Trace.events; `at` orders them: the step, then the place in it
    spent      \* resources used against a goal: spatial ones, and lasting ones by name

ledgerVars == <<steps, events, spent>>

\* A context is a function from names to hypotheses [prop, res]; a resource is told by
\* the sentence it comes from and its first name.
Empty == [n \in {} |-> 0]
With(ctx, more) == [n \in DOMAIN ctx \cup DOMAIN more |-> IF n \in DOMAIN more THEN more[n] ELSE ctx[n]]
Only(ctx, ns) == [n \in DOMAIN ctx \cap ns |-> ctx[n]]
Without(ctx, ns) == Only(ctx, DOMAIN ctx \ ns)
Names(g) == DOMAIN g.spatial \cup DOMAIN g.intuit
Resources(ctx) == {ctx[n].res : n \in DOMAIN ctx}
Held(g) == Resources(g.spatial) \cup Resources(g.intuit)
HeldIn(goals) == UNION {Held(goals[i]) : i \in DOMAIN goals}

Final == steps[Len(steps)]
Focus == Head(Final)

-----------------------------------------------------------------------------
(* diff.py: two contexts, by name first and by proposition second *)

SameProp(b, a) == b = a \/ <<b, a>> \in Instance

DiffContext(prev, next) ==
    LET gone == DOMAIN prev \ DOMAIN next
        new == DOMAIN next \ DOMAIN prev
        changed == {n \in DOMAIN prev \cap DOMAIN next : prev[n].prop # next[n].prop}
        rewritten == {n \in changed : ~SameProp(prev[n].prop, next[n].prop)}
        \* A permutation of names prints exactly like a set of updates.
        swapped == {n \in rewritten : \E m \in rewritten \ {n} : next[n].prop = prev[m].prop}
        olds(p) == {o \in gone : prev[o].prop = p}
        news(p) == {n \in new : next[n].prop = p}
        renamed == {r \in gone \X new : LET p == prev[r[1]].prop IN olds(p) = {r[1]} /\ news(p) = {r[2]}}
        consumed == {o \in gone : news(prev[o].prop) = {}}
        produced == {n \in new : olds(next[n].prop) = {}}
        moved == (gone \ consumed) \cup (new \ produced)
    IN  [instantiated |-> changed \ rewritten, updated |-> rewritten \ swapped, renamed |-> renamed,
         consumed |-> consumed, produced |-> produced,
         ambiguous |-> swapped \cup {n \in moved : \A r \in renamed : n \notin {r[1], r[2]}}]

\* _Pair: the diffs of a goal and a child, with the names that went from the spatial
\* to the intuitionistic context (one at most: no sentence here moves two).
Joined(parent, child, intuit, spatial) ==
    LET moves == {m \in intuit.produced \X spatial.consumed :
                     m[1] = m[2] \/ child.intuit[m[1]].prop = parent.spatial[m[2]].prop}
    IN  [child |-> child, intuit |-> intuit, spatial |-> spatial, persisted |-> moves,
         consumed |-> spatial.consumed \ {m[2] : m \in moves},
         gone |-> intuit.consumed,
         produced |-> spatial.produced \cup (intuit.produced \ {m[1] : m \in moves})]

Pair(parent, child) ==
    Joined(parent, child, DiffContext(parent.intuit, child.intuit), DiffContext(parent.spatial, child.spatial))

-----------------------------------------------------------------------------
(* diff.py: the events of a sentence `call` = [n, head, named], n its number *)

Event(call, place, kind, hyp, sources, klass, certain) ==
    [at |-> <<call.n, place>>, kind |-> kind, hyp |-> hyp, sources |-> sources, klass |-> klass, certain |-> certain]

DiffEvents(call, d, klass) ==
    {Event(call, 1, "Unknown", n, {}, klass, FALSE) : n \in d.ambiguous}
    \cup {Event(call, 1, "Instantiate", n, {}, klass, TRUE) : n \in d.instantiated}
    \cup {Event(call, 1, "Rename", r[2], {r[1]}, klass, TRUE) : r \in d.renamed}
    \cup {Event(call, 1, "Update", n, {}, klass, TRUE) : n \in d.updated}

MatchingEvents(call, pr) ==
    DiffEvents(call, pr.intuit, "intuitionistic") \cup DiffEvents(call, pr.spatial, "spatial")
    \cup {Event(call, 2, "Persist", m[1], {m[2]}, "intuitionistic", TRUE) : m \in pr.persisted}

ConsumeKind(call) == IF call.head = "iFrame" THEN "Frame" ELSE "Consume"
Consumes(call, ns) == {Event(call, 3, ConsumeKind(call), n, {n}, "spatial", TRUE) : n \in ns}
Clears(call, ns) == {Event(call, 3, "Consume", n, {n}, "intuitionistic", TRUE) : n \in ns}

ProduceKind(call, sources, produced) ==
    CASE call.head = "iIntros" -> "Intro"
      [] call.head # "iIntros" /\ Cardinality(sources) = 1 /\ (Cardinality(produced) > 1 \/ call.head = "iDestruct") -> "Split"
      [] OTHER -> "Produce"

Produces(call, pr, sources, all) ==
    {Event(call, 4, ProduceKind(call, sources, all), n, sources,
           IF n \in pr.intuit.produced THEN "intuitionistic" ELSE "spatial", TRUE) : n \in pr.produced}

\* A faulty variant: what is still there has not been used.
NoUses(call, parent, kept, did) == {}

\* A sentence that names an intuitionistic hypothesis, keeps it and did something.
PersistentUses(call, parent, kept, did) ==
    {Event(call, 5, "Frame", n, {n}, "intuitionistic", TRUE) :
        n \in {m \in call.named \cap DOMAIN parent.intuit \cap kept : did}}

UsesIn(call, parent, pr) ==
    PersistentUses(call, parent, DOMAIN pr.child.intuit, parent.goal # pr.child.goal \/ pr.produced # {})

\* A faulty variant: gone from one child is gone.
FromAny(names, pairs) == UNION {names[i] : i \in DOMAIN pairs}

\* _split: only what is gone from every child is consumed.
FromAll(names, pairs) == {n \in names[1] : \A i \in DOMAIN pairs : n \in names[i]}

\* _single and _split: a goal and its children.
PairsEvents(call, parent, pairs) ==
    LET consumed == FromAll([i \in DOMAIN pairs |-> pairs[i].consumed], pairs)
        gone == FromAll([i \in DOMAIN pairs |-> pairs[i].gone], pairs)
        produced == UNION {pairs[i].produced : i \in DOMAIN pairs}
        sources == consumed \cup (IF produced = {} THEN {} ELSE gone)
    IN  Consumes(call, consumed) \cup (IF produced = {} THEN Clears(call, gone) ELSE {})
        \cup UNION {MatchingEvents(call, pairs[i]) \cup Produces(call, pairs[i], sources, produced)
                       \cup UsesIn(call, parent, pairs[i]) : i \in DOMAIN pairs}

ChildEvents(call, parent, children) ==
    PairsEvents(call, parent, [i \in DOMAIN children |-> Pair(parent, children[i])])

ClosedEvents(call, parent) ==
    Consumes(call, DOMAIN parent.spatial) \cup PersistentUses(call, parent, DOMAIN parent.intuit, TRUE)

\* Several goals at once: what closed is spent, with a question mark; of the rest
\* nothing is said of any name.
MultiGoalEvents(call, touched, children) ==
    IF children # <<>> THEN {}
    ELSE UNION {{Event(call, 3, "Consume", n, {n}, "spatial", FALSE) : n \in DOMAIN touched[i].spatial} : i \in DOMAIN touched}

SameContext(a, b) == DOMAIN a = DOMAIN b /\ \A n \in DOMAIN a : SameProp(a[n].prop, b[n].prop)
SameGoal(a, b) == a.goal = b.goal /\ SameContext(a.spatial, b.spatial) /\ SameContext(a.intuit, b.intuit)

\* align_goals: the longest common tail, without the focused goal.
Untouched(prev, next) ==
    Max({k \in 0..Min({Len(prev) - 1, Len(next)}) :
            \A i \in 0..(k - 1) : SameGoal(prev[Len(prev) - i], next[Len(next) - i])})

StepEvents(call, prev, next) ==
    LET keep == Untouched(prev, next)
        children == SubSeq(next, 1, Len(next) - keep)
        touched == SubSeq(prev, 1, Len(prev) - keep)
    IN  CASE Len(touched) > 1 -> MultiGoalEvents(call, touched, children)
          [] Len(touched) = 1 /\ children = <<>> -> ClosedEvents(call, prev[1])
          [] OTHER -> ChildEvents(call, prev[1], children)

-----------------------------------------------------------------------------
(* Rocq: the sentences of a proof *)

Did(head, named, next, used) ==
    /\ steps' = Append(steps, next)
    /\ events' = events \cup StepEvents([n |-> Len(steps), head |-> head, named |-> named], Final, next)
    /\ spent' = spent \cup used

\* A sentence of the focused goal.
Became(children) == children \o Tail(Final)
Proving == Final # <<>> /\ Len(steps) <= MaxSteps

Fresh == Name \ Names(Focus)

\* Hypotheses with these propositions, each a new resource.
News(ps) == [n \in DOMAIN ps |-> [prop |-> ps[n], res |-> <<Len(steps), n>>]]

Intros ==
    /\ Proving /\ Len(steps) = 1
    /\ \E ns \in SUBSET Fresh \ {{}}, is \in SUBSET Fresh :
          /\ is \subseteq ns /\ Cardinality(ns) <= MaxIntros /\ Cardinality(is) <= 1
          /\ \E ps \in [ns -> Prop] :
                /\ \A n \in is : ps[n] \in Lasting
                /\ Did("iIntros", {}, Became(<<[Focus EXCEPT !.spatial = With(@, Without(News(ps), is)),
                                                              !.intuit = With(@, Only(News(ps), is)),
                                                              !.goal = @ + 1]>>), {})

PropOf(n) == With(Focus.spatial, Focus.intuit)[n].prop

Relabel(ctx, f) == [m \in (DOMAIN ctx \ DOMAIN f) \cup {f[n] : n \in DOMAIN f} |->
                       IF \E n \in DOMAIN f : f[n] = m THEN ctx[CHOOSE n \in DOMAIN f : f[n] = m] ELSE ctx[m]]

\* iRename, one or two at a time, in a cycle too (of equals it would change nothing:
\* two resources of one proposition are one another).
Renames ==
    /\ Proving
    /\ \E ns \in SUBSET DOMAIN Focus.spatial : \E f \in [ns -> Fresh \cup ns] :
          /\ Cardinality(ns) \in {1, 2} /\ \A n, m \in ns : f[n] = f[m] => n = m
          /\ \/ {f[n] : n \in ns} \cap ns = {}
             \/ {f[n] : n \in ns} = ns /\ \A n \in ns : ~SameProp(PropOf(n), PropOf(f[n]))
          /\ Did("iRename", ns, Became(<<[Focus EXCEPT !.spatial = Relabel(@, f)]>>), {})

\* iDestruct: a hypothesis becomes one or two pieces in its context.
Destructs ==
    /\ Proving
    /\ \E n \in Names(Focus) : \E ns \in SUBSET (Fresh \cup {n}) : \E ps \in [ns -> Prop \ {PropOf(n)}] :
          /\ Cardinality(ns) \in {1, 2} /\ (n \in DOMAIN Focus.spatial \/ \A m \in ns : ps[m] \in Lasting)
          /\ LET pieces(ctx) == IF n \in DOMAIN ctx THEN With(Without(ctx, {n}), News(ps)) ELSE ctx
             IN  Did("iDestruct", {n}, Became(<<[Focus EXCEPT !.spatial = pieces(@), !.intuit = pieces(@)]>>), {})

\* What two goals both get is a resource of its own in each.
Copy(ctx) == [n \in DOMAIN ctx |-> [ctx[n] EXCEPT !.res = Append(@, Len(steps))]]

\* The same, by cases: one goal for each, with everything else in both.
Cases ==
    /\ Proving /\ Len(Final) < MaxGoals
    /\ \E n \in DOMAIN Focus.spatial : \E a, b \in Fresh \cup {n}, p, q \in Prop \ {PropOf(n)} :
          LET rest == Without(Focus.spatial, {n})
              left == [Focus EXCEPT !.spatial = With(rest, News([x \in {a} |-> p]))]
              right == [Focus EXCEPT !.spatial = Copy(With(rest, News([x \in {b} |-> q]))), !.intuit = Copy(@)]
          IN  Did("iDestruct", {n}, Became(<<left, right>>), {})

\* iFrame, iApply, iMod ("Hclose" with ...): hypotheses against the goal, for at most
\* one in return (what comes back with the same proposition has not gone).
Spends ==
    /\ Proving
    /\ \E head \in {"iFrame", "iApply"}, ns \in SUBSET DOMAIN Focus.spatial \ {{}} : \E new \in SUBSET (Fresh \cup ns) :
          /\ Cardinality(new) <= (IF head = "iApply" THEN 1 ELSE 0)
          /\ \E ps \in [new -> Prop \ {PropOf(n) : n \in ns}] :
                Did(head, ns, Became(<<[Focus EXCEPT !.spatial = With(Without(@, ns), News(ps)), !.goal = @ + 1]>>),
                    Resources(Only(Focus.spatial, ns)))

\* The same with a lasting one, which stays.
UsesLasting ==
    /\ Proving
    /\ \E n \in DOMAIN Focus.intuit :
          Did("iApply", {n}, Became(<<[Focus EXCEPT !.goal = @ + 1]>>), {Focus.intuit[n].res})

\* iDestruct "H" as "#H"
MakesLasting ==
    /\ Proving
    /\ \E n \in DOMAIN Focus.spatial : \E m \in Fresh \cup {n} :
          /\ Focus.spatial[n].prop \in Lasting
          /\ Did("iDestruct", {n}, Became(<<[Focus EXCEPT !.spatial = Without(@, {n}),
                                                             !.intuit = With(@, [x \in {m} |-> Focus.spatial[n]])]>>), {})

Clear ==
    /\ Proving
    /\ \E n \in Names(Focus) :
          Did("iClear", {n}, Became(<<[Focus EXCEPT !.spatial = Without(@, {n}), !.intuit = Without(@, {n})]>>), {})

\* iSplitL: the spatial hypotheses are dealt out, the lasting ones go to both.
Splits ==
    /\ Proving /\ Len(Final) < MaxGoals
    /\ \E ns \in SUBSET DOMAIN Focus.spatial :
          Did("iSplitL", ns, Became(<<[Focus EXCEPT !.spatial = Only(@, ns), !.goal = @ + 1],
                                      [Focus EXCEPT !.spatial = Without(@, ns), !.intuit = Copy(@), !.goal = @ + 1]>>), {})

Closes ==
    /\ Proving
    /\ \E ns \in SUBSET DOMAIN Focus.intuit :
          Did("iApply", ns, Tail(Final), Resources(Focus.spatial) \cup Resources(Only(Focus.intuit, ns)))

\* all: done.
ClosesAll ==
    /\ Proving /\ Len(Final) > 1
    /\ Did("done", {}, <<>>, UNION {Resources(Final[i].spatial) : i \in DOMAIN Final})

\* Another goal is focused.
Cycles ==
    /\ Proving /\ Len(Final) > 1
    /\ Did("cycle", {}, Tail(Final) \o <<Focus>>, {})

\* An evar is instantiated, in every goal.
Instantiates ==
    /\ Proving
    /\ \E i \in Instance :
          LET with(ctx) == [n \in DOMAIN ctx |-> [ctx[n] EXCEPT !.prop = IF @ = i[1] THEN i[2] ELSE @]]
              filled(g) == [g EXCEPT !.spatial = with(@), !.intuit = with(@)]
          IN  Did("iExists", {}, [k \in DOMAIN Final |-> IF k = 1 THEN [filled(Focus) EXCEPT !.goal = @ + 1] ELSE filled(Final[k])], {})

-----------------------------------------------------------------------------
(* query.py *)

\* A faulty variant: the focused goal only.
InFocus(goals, family) == goals # <<>> /\ Names(goals[1]) \cap family # {}

FindLive(goals, family) == \E i \in DOMAIN goals : Names(goals[i]) \cap family # {}

\* The rename closure of a name, both ways: a rename brings in one name at least, and
\* there are no more rounds than names.
Aliases(log, hyp) ==
    LET grown[k \in 0..Cardinality(Name)] ==
            IF k = 0 THEN {hyp}
            ELSE LET old == grown[k - 1] IN
                 old \cup UNION {{e.hyp} \cup e.sources : e \in {x \in log : x.kind = "Rename" /\ ({x.hyp} \cup x.sources) \cap old # {}}}
    IN  grown[Cardinality(Name)]

Before(e, f) == e.at[1] < f.at[1] \/ (e.at[1] = f.at[1] /\ e.at[2] < f.at[2])
About(log, family) == {e \in log : ({e.hyp} \cup e.sources) \cap family # {}}
Latest(log) == {e \in log : \A f \in log : ~Before(e, f)}

\* A consume-side event that took the family away.
Lost(e) == e.kind = "Consume" \/ (e.kind = "Frame" /\ e.klass # "intuitionistic")

\* _last_intuitionistic_home: going back, an intuitionistic context comes first.
HadHome(family, upto) ==
    \E k \in 1..upto :
        /\ \E i \in DOMAIN steps[k] : DOMAIN steps[k][i].intuit \cap family # {}
        /\ \A l \in (k + 1)..upto : \A i \in DOMAIN steps[l] : DOMAIN steps[l][i].spatial \cap family = {}

\* where_did_it_go, of the state before sentence `upto`.
Fate(hyp, upto) ==
    LET log == {e \in events : e.at[1] < upto}
        family == Aliases(log, hyp)
        mine == About(log, family)
        last == Latest(mine)
        lastIs(kind) == \E e \in last : e.kind = kind
        source(kind) == \E e \in last : e.kind = kind /\ e.sources \cap family # {} /\ e.hyp \notin family
        live == FindLive(steps[upto], family) \/ ((\A e \in last : ~Lost(e)) /\ HadHome(family, upto))
    IN  CASE live -> "live"
          [] ~live /\ mine = {} -> "never-seen"
          [] ~live /\ mine # {} /\ (\E e \in mine : ~e.certain) -> "unknown"
          [] OTHER -> IF lastIs("Consume") THEN "consumed"
                      ELSE IF lastIs("Frame") THEN "framed"
                      ELSE IF source("Rename") THEN "renamed"
                      ELSE IF source("Split") THEN "split"
                      ELSE IF source("Persist") THEN "persisted" ELSE "unknown"

\* blame: the last event before sentence `upto` that can be why a name is not there.
Culprit(hyp, upto) ==
    LET log == {e \in events : e.at[1] < upto}
        family == Aliases(log, hyp)
    IN  Latest({e \in log : \/ /\ e.kind \in {"Split", "Persist"}
                               /\ e.sources \cap family # {} /\ e.hyp \notin family
                            \/ /\ e.kind \in {"Consume", "Frame"}
                               /\ ({e.hyp} \cup e.sources) \cap family # {}})

UnusedAtQed ==
    LET introduced == {e.hyp : e \in {x \in events : x.kind \in {"Intro", "Produce", "Split", "Specialize"}}}
        used == UNION {e.sources : e \in {x \in events : x.kind \in {"Consume", "Frame", "Specialize", "Split", "Rename", "Persist"}}}
    IN  {n \in introduced \ used : ~FindLive(Final, {n})}

-----------------------------------------------------------------------------

LedgerInit ==
    /\ steps = <<<<[spatial |-> Empty, intuit |-> Empty, goal |-> 0]>>>>
    /\ events = {} /\ spent = {}

LedgerNext ==
    \/ Intros \/ Renames \/ Destructs \/ Cases \/ Spends \/ UsesLasting \/ MakesLasting
    \/ Clear \/ Splits \/ Closes \/ ClosesAll \/ Cycles \/ Instantiates

LedgerSpec == LedgerInit /\ [][LedgerNext]_ledgerVars

-----------------------------------------------------------------------------
(* Properties *)

\* The resources a name stood for after a sentence, and in all.
MeantAt(hyp, k) ==
    UNION {Resources(Only(With(steps[k][i].spatial, steps[k][i].intuit), {hyp})) : i \in DOMAIN steps[k]}
Meant(hyp) == UNION {MeantAt(hyp, k) : k \in DOMAIN steps}

\* What the ledger says for certain a sentence took from the spatial context is in
\* none of the goals the sentence made of it, under any name (diff.py, PLAN 4.4).
ConsumptionIsReal ==
    Len(steps) > 1 =>
        LET prev == steps[Len(steps) - 1]
            children == SubSeq(Final, 1, Len(Final) - Untouched(prev, Final))
        IN \A e \in events :
              /\ e.at[1] = Len(steps) - 1 /\ e.certain
              /\ e.kind \in {"Consume", "Frame"} /\ e.klass = "spatial"
              => prev[1].spatial[e.hyp].res \notin HeldIn(children)

\* A name whose fate is consumed or framed stands for nothing in any goal, nor does a name
\* it was renamed from or to; and the sentence blamed for it took away for good what one of
\* these names stood for: no goal has held that since, under any name (query.py).
FateIsHonest ==
    \A n \in Name : Fate(n, Len(steps)) \in {"consumed", "framed"} =>
        LET family == Aliases(events, n) IN
        /\ \A m \in family : MeantAt(m, Len(steps)) = {}
        /\ \E e \in Culprit(n, Len(steps)), m \in family : \E r \in MeantAt(m, e.at[1]) :
              \A k \in (e.at[1] + 1)..Len(steps) : r \notin HeldIn(steps[k])

\* Nothing reported as never used has been used, unless the matcher has said of the
\* name that it lost track of it.
UnusedIsUnused ==
    Final = <<>> => \A n \in UnusedAtQed :
        (\A e \in events : e.kind = "Unknown" => e.hyp # n) => Meant(n) \cap spent = {}
=============================================================================
