--------------------------- MODULE MCLocalServer ---------------------------
(* Three runs of hbox by one user. *)
EXTENDS LocalServer
=============================================================================
