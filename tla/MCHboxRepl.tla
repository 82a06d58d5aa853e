----------------------------- MODULE MCHboxRepl -----------------------------
(* HboxRepl with two workspaces, so that a REPL can create a second one.   *)
EXTENDS HboxRepl
=============================================================================
