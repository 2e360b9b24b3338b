-------------------------------- MODULE Shell --------------------------------
(***************************************************************************)
(* lab4: the processes of kcsh.  main() and fork_and_exec() of kcsh.c and  *)
(* the builtins, running in the first shell and in every child that comes  *)
(* back from fork_and_exec() and goes on as a shell of its own, with the   *)
(* process groups, the signals and the terminal they share.                *)
(*                                                                         *)
(* The model follows a session until the first shell has left; what starts *)
(* it takes the terminal back then.  Signals are those of signal() under   *)
(* --std=c89: a handler is used once and calls are not restarted.          *)
(***************************************************************************)
EXTENDS Integers, Sequences, FiniteSets

CONSTANTS
  MaxPid,      \* bound: processes are numbered 1..MaxPid and never again
  Lines        \* the lines that can be typed, parsed into commands

\* What running a command comes to: a program that ends by itself; one that
\* writes more into a pipe than it holds; a builtin other than exit, or a
\* command that cannot be executed; the same with its input from a file or a
\* pipe; exit.
Kinds == {"program", "filler", "returns", "redirected", "exit"}

ASSUME MaxPidAssumption == MaxPid \in Nat /\ MaxPid > 1
ASSUME LinesAssumption ==
  \A l \in Lines : l \in Seq([kind : Kinds, bg : BOOLEAN])

VARIABLES
  proc,        \* the processes, by pid
  tty,         \* mode of the terminal
  disturbed    \* a shell was killed, left while its command went on, or went
               \* on without having waited for it

vars == <<proc, tty, disturbed>>

Pids  == 1..MaxPid
First == 1
None  == 0

\* Where a shell is: before waitpid, init_term and read, among the commands
\* of its line, fresh from fork, waiting for a command, in goodnight.
ShellAt == {"reap", "init", "read", "run", "child", "wait", "bye"}
\* Anything else that is running.
OtherAt == {"program", "filler", "exiting"}

Signals == {"INT", "TERM"}

NoProcess == [at |-> "none", parent |-> None, group |-> None, todo |-> <<>>,
              fg |-> None, jobs |-> {}, pending |-> {}, stopped |-> FALSE,
              handled |-> {}, saved |-> "none", input |-> "tty"]

\* goodmorning() has installed the handlers and prepared the terminal.
Init ==
  /\ proc = [p \in Pids |-> IF p = First
               THEN [NoProcess EXCEPT !.at = "reap", !.group = First,
                                      !.handled = Signals, !.saved = "cooked"]
               ELSE NoProcess]
  /\ tty = "raw" /\ disturbed = FALSE

-----------------------------------------------------------------------------
(* Processes, as the kernel keeps them.                                    *)

IsShell(p)  == proc[p].at \in ShellAt
Alive(p)    == proc[p].at \in ShellAt \cup OtherAt
Zombie(p)   == proc[p].at = "zombie"
Children(p) == {c \in Pids : proc[c].parent = p /\ (Alive(c) \/ Zombie(c))}
Over        == proc[First].at = "gone"

\* A process that takes a step of its own: signals come first.
Runs(p, at) ==
  ~Over /\ proc[p].at = at /\ ~proc[p].stopped /\ proc[p].pending = {}

\* The terminal is the first shell's group's.
Foreground(p) == proc[p].group = First

\* No member of the group has a parent in another group.
Orphaned(g) ==
  \A q \in Pids : Alive(q) /\ proc[q].group = g =>
    proc[q].parent \notin {r \in Pids : proc[r].group # g}

Reaped(f, c) == [f EXCEPT ![c] = [NoProcess EXCEPT !.at = "gone"]]

\* What is left when p has ended: its children have no parent any more, and
\* nobody waits for them.
Ended(f, p) ==
  LET parent == f[p].parent
      left   == IF parent = None THEN [NoProcess EXCEPT !.at = "gone"]
                ELSE [NoProcess EXCEPT !.at = "zombie", !.parent = parent]
  IN  [q \in Pids |->
         IF q = p THEN left
         ELSE IF f[q].parent # p THEN f[q]
         ELSE IF f[q].at = "zombie" THEN [NoProcess EXCEPT !.at = "gone"]
         ELSE [f[q] EXCEPT !.parent = None]]

\* p leaves although the command it waits for goes on.
Forsakes(p) ==
  proc[p].at = "wait" /\ proc[proc[p].fg].at \notin {"exiting", "zombie"}

Free == {q \in Pids : proc[q].at = "none"}
NextPid == CHOOSE q \in Free : \A r \in Free : q <= r

-----------------------------------------------------------------------------
(* The main loop.                                                          *)

\* Mutant: reported, but still listed.
ReapListed(p) ==
  /\ Runs(p, "reap")
  /\ \/ \E c \in Children(p) :
          /\ Zombie(c)
          /\ proc' = [Reaped(proc, c) EXCEPT ![p].at = "init"]
     \/ /\ \A c \in Children(p) : ~Zombie(c)
        /\ proc' = [proc EXCEPT ![p].at = "init"]
  /\ UNCHANGED <<tty, disturbed>>

\* Mutant: without WNOHANG.
ReapBlocks(p) ==
  /\ Runs(p, "reap")
  /\ \/ \E c \in Children(p) :
          /\ Zombie(c)
          /\ proc' = [Reaped(proc, c) EXCEPT
                        ![p].at = "init", ![p].jobs = @ \ {c}]
     \/ /\ Children(p) = {}
        /\ proc' = [proc EXCEPT ![p].at = "init"]
  /\ UNCHANGED <<tty, disturbed>>

\* One dead child, any of them, is reported and leaves the table.
Reap(p) ==
  /\ Runs(p, "reap")
  /\ \/ \E c \in Children(p) :
          /\ Zombie(c)
          /\ proc' = [Reaped(proc, c) EXCEPT
                        ![p].at = "init", ![p].jobs = @ \ {c}]
     \/ /\ \A c \in Children(p) : ~Zombie(c)
        /\ proc' = [proc EXCEPT ![p].at = "init"]
  /\ UNCHANGED <<tty, disturbed>>

\* The mode is saved once until it is put back.
InitTerm(p) ==
  /\ Runs(p, "init") /\ proc[p].input = "tty"
  /\ Foreground(p)
  /\ proc' = [proc EXCEPT ![p].at = "read",
                          ![p].saved = IF @ = "none" THEN tty ELSE @]
  /\ tty' = "raw"
  /\ UNCHANGED disturbed

\* From the background, tcsetattr stops the caller's whole group ...
InitTermStops(p) ==
  /\ Runs(p, "init") /\ proc[p].input = "tty"
  /\ ~Foreground(p) /\ ~Orphaned(proc[p].group)
  /\ proc' = [q \in Pids |->
                IF Alive(q) /\ proc[q].group = proc[p].group
                THEN [proc[q] EXCEPT !.stopped = TRUE] ELSE proc[q]]
  /\ UNCHANGED <<tty, disturbed>>

\* ... or, when nobody could continue it, the following read fails.  A shell
\* whose input is no terminal says so and leaves (io.c:35-37).
InitTermFails(p) ==
  /\ Runs(p, "init")
  /\ proc[p].input # "tty" \/ (~Foreground(p) /\ Orphaned(proc[p].group))
  /\ proc' = [proc EXCEPT ![p].at = "bye"]
  /\ UNCHANGED <<tty, disturbed>>

\* A line is typed, the terminal is reset and the line is parsed.
ReadLine(p, line) ==
  /\ Runs(p, "read")
  /\ proc' = [proc EXCEPT ![p].at = "run", ![p].todo = line,
                          ![p].saved = "none"]
  /\ tty' = proc[p].saved
  /\ UNCHANGED disturbed

\* ^D
Quit(p) ==
  /\ Runs(p, "read")
  /\ proc' = [proc EXCEPT ![p].at = "bye"]
  /\ UNCHANGED <<tty, disturbed>>

LineDone(p) ==
  /\ Runs(p, "run") /\ proc[p].todo = <<>>
  /\ proc' = [proc EXCEPT ![p].at = "reap"]
  /\ UNCHANGED <<tty, disturbed>>

-----------------------------------------------------------------------------
(* fork_and_exec()                                                         *)

ForkFails(p) ==
  /\ Runs(p, "run") /\ proc[p].todo # <<>>
  /\ Free = {}
  /\ proc' = [proc EXCEPT ![p].todo = Tail(@)]
  /\ UNCHANGED <<tty, disturbed>>

\* The child is a copy of the shell, table of jobs included.
Fork(p) ==
  /\ Runs(p, "run") /\ proc[p].todo # <<>>
  /\ Free # {}
  /\ LET c     == NextPid
         copy  == [proc[p] EXCEPT !.at = "child", !.parent = p]
         shell == IF Head(proc[p].todo).bg
                  THEN [proc[p] EXCEPT !.jobs = @ \cup {c}, !.todo = Tail(@)]
                  ELSE [proc[p] EXCEPT !.at = "wait", !.fg = c]
     IN  proc' = [proc EXCEPT ![c] = copy, ![p] = shell]
  /\ UNCHANGED <<tty, disturbed>>

\* Mutant: setpgid is forgotten.
NotRegrouped(p) == proc[p].group

\* The process group of the child.
Regrouped(p) ==
  IF Head(proc[p].todo).bg THEN p ELSE proc[p].group

\* execvp replaces the shell, its signal handlers included.
Exec(p) ==
  /\ Runs(p, "child")
  /\ Head(proc[p].todo).kind \in {"program", "filler"}
  /\ proc' = [proc EXCEPT ![p] =
                [NoProcess EXCEPT !.at = Head(proc[p].todo).kind,
                                  !.parent = proc[p].parent,
                                  !.group = Regrouped(p)]]
  /\ UNCHANGED <<tty, disturbed>>

\* A builtin, a failing redirection or a failing execvp returns to main(),
\* which goes on with the rest of the line, in the child.
Return(p) ==
  /\ Runs(p, "child")
  /\ Head(proc[p].todo).kind \in {"returns", "redirected"}
  /\ proc' = [proc EXCEPT ![p].at = "run", ![p].todo = Tail(@),
                          ![p].group = Regrouped(p),
                          ![p].input = IF Head(proc[p].todo).kind = "returns"
                                       THEN @ ELSE "other"]
  /\ UNCHANGED <<tty, disturbed>>

\* k_exit() sends SIGTERM to its parent, if there is one left ...
Exit(p) ==
  /\ Runs(p, "child")
  /\ Head(proc[p].todo).kind = "exit"
  /\ LET exiting == [proc EXCEPT ![p].at = "exiting", ![p].todo = <<>>,
                                 ![p].group = Regrouped(p)]
         parent  == proc[p].parent
     IN  proc' = IF parent = None THEN exiting
                 ELSE [exiting EXCEPT ![parent].pending = @ \cup {"TERM"}]
  /\ UNCHANGED <<tty, disturbed>>

\* ... and ends, as a program does.
End(p) ==
  /\ Runs(p, "exiting") \/ Runs(p, "program")
  /\ proc' = Ended(proc, p)
  /\ UNCHANGED <<tty, disturbed>>

\* Mutant: the loop around waitpid is not left.
WaitAgain(p) ==
  /\ ~Over /\ proc[p].at = "wait" /\ ~proc[p].stopped
  /\ Zombie(proc[p].fg)
  /\ proc' = Reaped(proc, proc[p].fg)
  /\ UNCHANGED <<tty, disturbed>>

\* waitpid returns the foreground command, also when a signal has come in.
Wait(p) ==
  /\ ~Over /\ proc[p].at = "wait" /\ ~proc[p].stopped
  /\ Zombie(proc[p].fg)
  /\ proc' = [Reaped(proc, proc[p].fg) EXCEPT
                ![p].at = "run", ![p].todo = Tail(@), ![p].fg = None]
  /\ UNCHANGED <<tty, disturbed>>

-----------------------------------------------------------------------------
(* goodnight() and the signals.                                            *)

\* Mutant: the terminal stays as it is.
LeaveRaw(p) == tty' = tty /\ proc' = Ended(proc, p)

\* reset_term() and _exit()
Leave(p) ==
  /\ tty' = IF proc[p].saved = "none" THEN tty ELSE proc[p].saved
  /\ proc' = Ended(proc, p)

\* The wait is for any one child, or there is none.
Goodnight(p) ==
  /\ ~Over /\ proc[p].at = "bye" /\ ~proc[p].stopped
  /\ Children(p) = {} \/ \E c \in Children(p) : Zombie(c)
  /\ Leave(p)
  /\ UNCHANGED disturbed

\* The default action: the process is killed.
Kill(p) ==
  /\ proc' = Ended(proc, p)
  /\ disturbed' = (disturbed \/ IsShell(p))
  /\ UNCHANGED tty

\* The handler of SIGTERM is goodnight(), from wherever the shell is.
HandleTerm(p) ==
  /\ proc' = [proc EXCEPT ![p].at = "bye", ![p].fg = None, ![p].todo = <<>>,
                          ![p].pending = @ \ {"TERM"},
                          ![p].handled = @ \ {"TERM"}]
  /\ disturbed' = (disturbed \/ Forsakes(p))
  /\ UNCHANGED tty

\* The handler of SIGINT only prints; what counts is the call it interrupts.
\* A read that fails ends the shell, goodnight()'s waitpid returns, and after
\* a waitpid for a command st is tested although nothing was written to it.
HandleInt(p) ==
  LET handled == [proc EXCEPT ![p].pending = @ \ {"INT"},
                              ![p].handled = @ \ {"INT"}]
      stays   == proc' = handled /\ UNCHANGED <<tty, disturbed>>
  IN \/ proc[p].at = "read"
        /\ proc' = [handled EXCEPT ![p].at = "bye"]
        /\ UNCHANGED <<tty, disturbed>>
     \/ proc[p].at = "wait"
        /\ proc' = [handled EXCEPT ![p].at = "run", ![p].fg = None,
                                   ![p].todo = Tail(@)]
        /\ disturbed' = TRUE
        /\ UNCHANGED tty
     \/ proc[p].at = "bye" /\ Leave(p) /\ UNCHANGED disturbed
     \/ proc[p].at # "read" /\ stays

Handle(p, sig) ==
  /\ ~Over /\ Alive(p) /\ ~proc[p].stopped
  /\ sig \in proc[p].pending
  /\ IF sig \notin proc[p].handled THEN Kill(p)
     ELSE IF sig = "TERM" THEN HandleTerm(p) ELSE HandleInt(p)

\* ^C while the terminal makes signals of keys: for the group in front.
Interrupt ==
  /\ ~Over /\ tty = "cooked"
  /\ proc' = [p \in Pids |->
                IF Alive(p) /\ Foreground(p)
                THEN [proc[p] EXCEPT !.pending = @ \cup {"INT"}] ELSE proc[p]]
  /\ UNCHANGED <<tty, disturbed>>

\* A stopped group that is orphaned is hung up.
Hangup(p) ==
  /\ ~Over /\ Alive(p) /\ proc[p].stopped
  /\ Orphaned(proc[p].group)
  /\ proc' = Ended(proc, p)
  /\ UNCHANGED <<tty, disturbed>>

-----------------------------------------------------------------------------
Step(p) ==
  \/ Reap(p) \/ InitTerm(p) \/ InitTermStops(p) \/ InitTermFails(p)
  \/ LineDone(p) \/ ForkFails(p) \/ Fork(p) \/ Exec(p) \/ Return(p)
  \/ Exit(p) \/ End(p) \/ Wait(p) \/ Goodnight(p)
  \/ (\E sig \in Signals : Handle(p, sig)) \/ Hangup(p)

\* Bound: nothing more is typed once the session is disturbed; the processes
\* go on by themselves.
User ==
  /\ ~disturbed
  /\ \/ Interrupt
     \/ \E p \in Pids : Quit(p) \/ \E line \in Lines : ReadLine(p, line)

Next == User \/ \E p \in Pids : Step(p)

\* Processes run and programs end; the user need not do anything.
Fairness == \A p \in Pids : WF_vars(Step(p))

Spec == Init /\ [][Next]_vars /\ Fairness

-----------------------------------------------------------------------------
(* Correctness.                                                            *)

TypeOK ==
  /\ \A p \in Pids :
       /\ proc[p].at \in ShellAt \cup OtherAt \cup {"none", "zombie", "gone"}
       /\ proc[p].parent \in Pids \cup {None}
       /\ proc[p].jobs \subseteq Pids /\ proc[p].pending \subseteq Signals
       /\ proc[p].saved \in {"none", "cooked", "raw"}
       /\ proc[p].at \in {"child", "wait"} => proc[p].todo # <<>>
       /\ proc[p].at = "wait" => proc[p].fg \in Children(p)
  /\ tty \in {"cooked", "raw"} /\ disturbed \in BOOLEAN

\* The table of jobs and the kernel agree: the first shell lists exactly the
\* children it has not reaped, besides the command it waits for; a shell that
\* was a child lists at least those, with what it inherited.
Unreaped(p) == Children(p) \ {proc[p].fg}
JobsListed ==
  ~disturbed => \A p \in Pids :
    proc[p].at \in ShellAt \ {"bye"} =>
      /\ Unreaped(p) \subseteq proc[p].jobs
      /\ p = First => proc[p].jobs \subseteq Unreaped(p)

\* Of all the shells that a session grows, one reads the terminal, and every
\* other process in front waits for a command or has just been forked.
ReaderAlone ==
  ~disturbed => \A p, q \in Pids :
    p # q /\ proc[p].at = "read" /\ Alive(q) /\ Foreground(q) =>
      proc[q].at \in {"wait", "child", "exiting"}

\* The terminal is raw only while one shell has it so, and that shell will
\* put back the mode of the outside.
TerminalOwned ==
  LET owners == {p \in Pids : proc[p].saved # "none"} IN
  ~disturbed =>
    /\ \A p \in owners : proc[p].saved = "cooked"
    /\ Cardinality(owners) = IF tty = "raw" THEN 1 ELSE 0

\* The session goes on or ends: a shell comes back to the prompt, or the
\* first shell leaves, unless a program is stuck in its pipe or a shell that
\* leaves has children that are stopped.
Stuck ==
  \/ \E p \in Pids : Alive(p) /\ proc[p].at = "filler"
  \/ /\ \E p \in Pids : proc[p].at = "bye"
     /\ \E p \in Pids : Alive(p) /\ proc[p].stopped
Responsive == []<>(Over \/ Stuck \/ \E p \in Pids : proc[p].at = "read")

\* builtins_impl.h:15 says "Stop working": once exit has been run, the
\* session ends.  It does not when a builtin or a mistyped command was run
\* before: their shell is the one that stops.
ExitStops ==
  (\E p \in Pids : proc[p].at = "exiting") ~> Over
=============================================================================
