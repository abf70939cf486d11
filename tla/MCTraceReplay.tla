---------------------------- MODULE MCTraceReplay ----------------------------
(***************************************************************************)
(* Constants for model checking TraceReplay: scripts that part at the       *)
(* second sentence, one of them wrong under one of the two texts.           *)
(***************************************************************************)
EXTENDS TraceReplay

MCScripts == {<<"a", "b">>, <<"a", "c">>}
MCWrong == {<<"t1", <<"a", "c">>>>, <<"t2", <<"a">>>>}
=============================================================================
