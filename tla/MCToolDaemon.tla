---------------------------- MODULE MCToolDaemon ----------------------------
(***************************************************************************)
(* Constants for model checking ToolDaemon: as many daemons as commands.    *)
(***************************************************************************)
EXTENDS ToolDaemon

CONSTANTS d1, d2, c1, c2

MCTwoDaemons == {d1, d2}
MCClients == {c1, c2}
=============================================================================
