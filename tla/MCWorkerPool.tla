---------------------------- MODULE MCWorkerPool ----------------------------
(* A small instance of the pool of lab6/server.c for TLC.                  *)
EXTENDS WorkerPool

CONSTANTS w1, w2, w3   \* worker threads

MCWorkers == {w1, w2, w3}
=============================================================================
