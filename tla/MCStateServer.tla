--------------------------- MODULE MCStateServer ---------------------------
(* Small instances of the servers and clients of lab5 for TLC.             *)
EXTENDS StateServer

CONSTANT c1

MCClients == {c1}
=============================================================================
