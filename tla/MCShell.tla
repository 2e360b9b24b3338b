------------------------------ MODULE MCShell ------------------------------
(* Small sessions of the shell of lab4/kcsh.c for TLC.                     *)
EXTENDS Shell

Command(kind) == [kind |-> kind, bg |-> FALSE]
Job(kind)     == [kind |-> kind, bg |-> TRUE]

\* Every kind of command in front, lines that go on after a command that comes
\* back, and jobs in the background.
MCLines ==
  {<<Command(k)>> : k \in Kinds}
    \cup {<<Job("program")>>,
          <<Job("exit"), Command("returns")>>,
          <<Job("returns"), Command("program")>>,
          <<Command("returns"), Command("program")>>}
=============================================================================
