--------------------------- MODULE MCProviderPause ---------------------------
(***************************************************************************)
(* Constants for model checking ProviderPause: the code's times, in units   *)
(* of its shortest backoff step, with a shorter wait and a shorter ladder.  *)
(***************************************************************************)
EXTENDS ProviderPause

CONSTANTS d1, d2, d3

MCDispatcher == {d1, d2, d3}
MCBackoff == <<1, 2, 4>>
=============================================================================
