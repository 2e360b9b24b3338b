----------------------------- MODULE MCJobTable -----------------------------
(* A small job table of lab4/job.c for TLC.                                *)
EXTENDS JobTable

MCPids == {7, 8, 9}
MCIds  == 0..5        \* no job, every place, and one behind the last
=============================================================================
