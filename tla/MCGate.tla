------------------------------- MODULE MCGate -------------------------------
(***************************************************************************)
(* Constants for model checking Gate: a small file with three axioms, a     *)
(* definition, a helper proved on a known axiom and one proved on another,  *)
(* and in a second module a lemma of the root's name that uses the root;    *)
(* one obligation before the root; the sentences bodies and designs use.    *)
(***************************************************************************)
EXTENDS Gate

MCIdent == {"iris", "good", "bad", "poor", "M", "N", "d", "h", "k", "root", "child", "new"}
MCWording == {"", "other", "const", "closed", "hint", "qed"}
Proof1(n) == <<S("proof", None, ""), S("exact", n, ""), S("qed", None, "")>>
MCSource ==
    <<S("require", <<"iris">>, ""), S("axiom", <<"good">>, ""), S("axiom", <<"bad">>, ""), S("axiom", <<"poor">>, ""),
      S("module", <<"M">>, ""), S("def", <<"d">>, "")>>
    \o <<S("lemma", <<"h">>, "")>> \o Proof1(<<"good">>)
    \o <<S("lemma", <<"k">>, "")>> \o Proof1(<<"poor">>)
    \o <<S("lemma", <<"root">>, "")>> \o Proof1(<<"h">>)
    \o <<S("end", <<"M">>, ""), S("module", <<"N">>, "")>>
    \o <<S("lemma", <<"root">>, "")>> \o Proof1(<<"root">>) \o <<S("end", <<"N">>, "")>>
MCPlan == << <<"child">> >>
MCAnchor == <<"root">>
MCWhitelist == {<<"good">>}
MCWords ==
    {S("exact", n, "") : n \in {None, <<"child">>, <<"root">>, <<"h">>, <<"k">>, <<"bad">>}}
    \cup {S(k, None, "") : k \in {"admit", "qed", "abort", "admitted", "notation", "hint", "hatch", "open", "comment"}}
    \cup {S("lemma", <<"root">>, "other"), S("lemma", <<"child">>, ""), S("axiom", <<"new">>, "")}
    \cup {S("say", <<"M", "root">>, "const"), S("say", None, "closed")}
    \cup {S("wrap", None, "hint"), S("wrap", None, "qed")}
MCResults == {<<"root">>}
MCMutable == {<<"d">>}
\* A design is held to whitelisted axioms in every lemma it proves: k is left open.
MCDraft == [i \in DOMAIN MCSource |->
    IF MCSource[i].k = "qed" /\ MCSource[i - 1].n = <<"poor">> THEN S("admitted", None, "") ELSE MCSource[i]]
MCEdits == {S("lemma", <<"root">>, "other"), S("axiom", <<"new">>, ""), S("exact", <<"new">>, ""), S("admitted", None, ""),
            S("hatch", None, ""), S("def", <<"d">>, "other"), S("abort", None, "")}
=============================================================================
