-------------------------- MODULE MCStringThreads --------------------------
(* Short strings for the programs of lab5 for TLC.                         *)
EXTENDS StringThreads

MCUpper == [l \in {"a", "b"} |-> IF l = "a" THEN "A" ELSE "B"]

\* An even string of letters twice, an odd one, and one with other characters.
MCSource ==
  [q \in Programs |->
     CASE q = "rounds" -> <<"a", "b", "b", "b">>
       [] q = "mutex"  -> <<"a", "b", "B">>
       [] q = "rwlock" -> <<"A", " ", "b", "b">>]
=============================================================================
