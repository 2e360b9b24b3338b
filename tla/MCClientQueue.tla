---------------------------- MODULE MCClientQueue ---------------------------
(* Small instances of lab6/queue.c for TLC.                                *)
EXTENDS ClientQueue

MCElems == {4, 5, 6}   \* three descriptors
=============================================================================
