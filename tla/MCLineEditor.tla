---------------------------- MODULE MCLineEditor ----------------------------
(* Small lines and directories of the editor of lab4/io.c for TLC.         *)
EXTENDS LineEditor

MCChars == {"a", "/", " "}

\* The root has a short and a long name, the directory a/ is empty.
MCListing ==
  LET root == <<Slash>>  sub == <<"a", Slash>> IN
  [d \in {root, sub} |-> IF d = root THEN << <<"a">>, <<"a", "a">> >> ELSE <<>>]
=============================================================================
