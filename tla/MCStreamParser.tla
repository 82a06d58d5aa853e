--------------------------- MODULE MCStreamParser ---------------------------
(* Two turns of one conversation. *)
EXTENDS StreamParser
=============================================================================
