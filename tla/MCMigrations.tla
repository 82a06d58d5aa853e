---------------------------- MODULE MCMigrations ----------------------------
(* Three starts of a server against one database file. *)
EXTENDS Migrations, TLC
CONSTANTS s1, s2, s3
MCServers == {s1, s2, s3}
MCSymmetry == Permutations(MCServers)
=============================================================================
