---------------------------- MODULE CommandLine ----------------------------
(***************************************************************************)
(* lab4: from a line to the commands of kcsh, and what becomes of them.    *)
(* make_cmdv() and free_cmd() of parser.c, and the part of main() that     *)
(* walks over the vector of commands.  The vector lives as long as the     *)
(* shell: its end is a NULL that each line has to write anew, and what     *)
(* earlier lines left stays behind it.                                     *)
(*                                                                         *)
(* get_splitted() has made words of the line: a separator is a word of its *)
(* own.  What a word says is told by its place in the line, from 1.        *)
(***************************************************************************)
EXTENDS Integers, Sequences

CONSTANTS
  Lines,       \* the lines that are typed, as sequences of words
  MaxWords     \* bound: words of a line

Plain      == "word"
Separators == {";", "&", "|", ">", "<"}
Nul        == ""
NoFile     == 0

ASSUME MaxWordsAssumption == MaxWords \in Nat
ASSUME LinesAssumption ==
  \A l \in Lines : l \in Seq(Separators \cup {Plain}) /\ Len(l) <= MaxWords

VARIABLES
  at,          \* prompt, make_cmdv, the loop over commands, the one that frees
               \* them after a syntax error, or past a misuse of memory
  line,        \* the words
  i, first,    \* the word looked at, the first of the next command
  length,      \* commands made
  pipeNext,    \* the last of them writes into a pipe
  commands,    \* the vector
  next         \* the command to run or to free

vars == <<at, line, i, first, length, pipeNext, commands, next>>

\* A place of the vector holds a command, the NULL, a command already freed, or
\* what malloc found there.
Blank == [is |-> "wild", argv |-> <<>>, in |-> FALSE, out |-> FALSE, bg |-> FALSE,
          rfile |-> NoFile, rappend |-> FALSE, rifile |-> NoFile]
NULL  == [Blank EXCEPT !.is = "null"]
Freed == [Blank EXCEPT !.is = "freed"]

Init ==
  /\ at = "read" /\ line = <<>> /\ i = 1 /\ first = 1 /\ length = 0
  /\ pipeNext = FALSE /\ next = 0
  /\ commands = [k \in 0..MaxWords |-> Blank]

-----------------------------------------------------------------------------
(* make_cmdv()                                                             *)

Word(j)        == IF j \in DOMAIN line THEN line[j] ELSE Nul
IsSeparator(w) == w \in Separators

ReadLine(l) ==
  /\ at = "read"
  /\ at' = "parse" /\ line' = l /\ i' = 1 /\ first' = 1 /\ length' = 0
  /\ pipeNext' = FALSE
  /\ commands' = [commands EXCEPT ![0] = NULL]
  /\ UNCHANGED next

\* The last word of the command that ends at i.
LastWord == IF IsSeparator(Word(i)) THEN i - 1 ELSE i

EndsCommand == Word(i) # Nul /\ (IsSeparator(Word(i)) \/ Word(i + 1) = Nul)

Scan ==
  /\ at = "parse" /\ Word(i) # Nul /\ ~EndsCommand
  /\ i' = i + 1
  /\ UNCHANGED <<at, line, first, length, pipeNext, commands, next>>

\* A line that begins with a separator: last is the greatest size_t, which the
\* assertion lets pass, and make_cmd() copies without end.
Overrun ==
  /\ at = "parse" /\ EndsCommand /\ LastWord < first
  /\ at' = "broken"
  /\ UNCHANGED <<line, i, first, length, pipeNext, commands, next>>

\* args[i] after make_cmd() has taken its words.
Separator == IF IsSeparator(Word(i)) THEN Word(i) ELSE Nul

\* Place of the file name after the separator w at j, if w redirects to one.
RFile(w, j) == IF w # ">" THEN NoFile ELSE IF Word(j + 1) = ">" THEN j + 2 ELSE j + 1
RIFile(w, j) == IF w # "<" THEN NoFile ELSE j + 1
\* The place and the word behind it.
Behind(file, j)     == IF file = NoFile THEN j ELSE file + 1
WordAt(file, j, w)  == IF file = NoFile THEN w ELSE Word(file + 1)
Missing(file)       == file # NoFile /\ Word(file) = Nul

\* The command that ends at i, its redirections, and where they end.
Parsed ==
  LET out  == RFile(Separator, i)
      j    == Behind(out, i)
      w    == WordAt(out, i, Separator)
      in   == RIFile(w, j)
      then == WordAt(in, j, w)
  IN  [cmd  |-> [Blank EXCEPT
                   !.is = "cmd", !.argv = [k \in 1..LastWord - first + 1 |-> first + k - 1],
                   !.in = pipeNext, !.out = Separator = "|", !.bg = then = "&",
                   !.rfile = out, !.rappend = out = i + 2, !.rifile = in],
       ends |-> Behind(in, j),
       ok   |-> ~Missing(out) /\ ~Missing(in)]

MakesCommand == at = "parse" /\ EndsCommand /\ LastWord >= first

\* Mutant: what follows the pipe is looked at only if there is a word.
PipeIntoNothingLate == Separator = "|" /\ IsSeparator(Word(i + 1))

PipeIntoNothing ==
  Separator = "|" /\ (Word(i + 1) = Nul \/ IsSeparator(Word(i + 1)))

Fail(entry) ==
  /\ at' = "error" /\ next' = 0
  /\ commands' = [commands EXCEPT ![length] = entry]
  /\ UNCHANGED <<line, i, first, length, pipeNext>>

\* Mutant: the place keeps the command that has been freed.
PipeErrorKeep == MakesCommand /\ PipeIntoNothing /\ Fail(Freed)

\* The command before it is freed and its place is the end of the vector ...
PipeError == MakesCommand /\ PipeIntoNothing /\ Fail(NULL)

\* ... but where a file name is missing it stays, and no NULL is behind it.
RedirectError == MakesCommand /\ ~Parsed.ok /\ Fail(Parsed.cmd)

\* The next word that is no separator, or the end of the line.
NextWord(j) ==
  CHOOSE k \in j..Len(line) + 1 :
    /\ ~IsSeparator(Word(k))
    /\ \A m \in j..k - 1 : IsSeparator(Word(m))

\* Mutant: the loop does not ask whether the command writes into a pipe.
MarkedAll == {length - 1} \ {-1}

\* What "&" marks besides the command before it.  The loop of line 220 counts
\* up and ends at that command itself.
Marked == {k \in {length - 1} : k >= 0 /\ commands[k].out}

\* Mutant: the word behind a file name is taken for a separator.
ResumeBehind(j) == IF Word(j) = Nul THEN Len(line) + 1 ELSE NextWord(j + 1)

\* Where the next command is looked for.
Resume(j) == IF Word(j) = Nul THEN Len(line) + 1 ELSE NextWord(j)

MakeCommand ==
  /\ MakesCommand /\ ~PipeIntoNothing /\ Parsed.ok
  /\ LET new == Parsed.cmd
         far == Resume(IF Separator = Nul THEN i + 1 ELSE Parsed.ends)
     IN  /\ commands' = [k \in DOMAIN commands |->
                           IF k = length THEN new
                           ELSE IF k = length + 1 THEN NULL
                           ELSE IF new.bg /\ k \in Marked
                                THEN [commands[k] EXCEPT !.bg = TRUE]
                           ELSE commands[k]]
         /\ pipeNext' = new.out
         /\ i' = far
         /\ first' = IF Word(far) = Nul THEN first ELSE far
  /\ length' = length + 1
  /\ UNCHANGED <<at, line, next>>

ParseDone ==
  /\ at = "parse" /\ Word(i) = Nul
  /\ at' = "run" /\ next' = 0
  /\ UNCHANGED <<line, i, first, length, pipeNext, commands>>

-----------------------------------------------------------------------------
(* main() goes along the vector up to NULL: a command is run and freed, or *)
(* after a syntax error only freed.                                        *)

Walks == at \in {"run", "error"}

Release ==
  /\ Walks /\ commands[next].is = "cmd"
  /\ commands' = [commands EXCEPT ![next] = Freed]
  /\ next' = next + 1
  /\ UNCHANGED <<at, line, i, first, length, pipeNext>>

\* What malloc found may be a zero.
LineDone ==
  /\ Walks /\ commands[next].is \in {"null", "wild"}
  /\ at' = "read" /\ line' = <<>> /\ i' = 1 /\ first' = 1 /\ length' = 0
  /\ pipeNext' = FALSE /\ next' = 0
  /\ UNCHANGED commands

ReleaseTwice ==
  /\ Walks /\ commands[next].is \in {"freed", "wild"}
  /\ at' = "broken"
  /\ UNCHANGED <<line, i, first, length, pipeNext, commands, next>>

Next ==
  \/ \E l \in Lines : ReadLine(l)
  \/ Scan \/ Overrun \/ PipeError \/ RedirectError \/ MakeCommand \/ ParseDone
  \/ Release \/ LineDone \/ ReleaseTwice

Spec == Init /\ [][Next]_vars

-----------------------------------------------------------------------------
(* Correctness.                                                            *)

\* A line has been accepted and its first command is about to be run.
Accepted == at = "run" /\ next = 0
Made     == 0..length - 1

IsPlain(j) == Word(j) = Plain

\* The places of the words that command c has taken.
Taken(c) == {c.argv[a] : a \in DOMAIN c.argv} \cup ({c.rfile, c.rifile} \ {NoFile})

\* Arguments, file to write and file to read stand in this order on the line.
InOrder(c) ==
  /\ \A a, b \in DOMAIN c.argv : a < b => c.argv[a] < c.argv[b]
  /\ \A f \in {c.rfile, c.rifile} \ {NoFile} : \A a \in DOMAIN c.argv : c.argv[a] < f
  /\ NoFile \notin {c.rfile, c.rifile} => c.rfile < c.rifile

\* Every word of an accepted line is in one command, once, as an argument or as
\* a file name, and in the order of the line: none is lost between the jumps of
\* make_cmdv() over separators and file names (parser.c:205, 214, 226-233).
WordsKept ==
  Accepted =>
    /\ \A j \in DOMAIN line : IsPlain(j) => \E k \in Made : j \in Taken(commands[k])
    /\ \A k \in Made : InOrder(commands[k])
    /\ \A k, m \in Made : k < m =>
         \A p \in Taken(commands[k]), q \in Taken(commands[m]) : p < q

\* Both ends of every pipe have a command: main() makes the pipe for the one
\* that writes and hands it to the next, if there is one (kcsh.c:186-194).
PipesPaired ==
  Accepted =>
    /\ commands[length].is = "null"
    /\ \A k \in Made : commands[k].is = "cmd"
    /\ \A k \in Made : commands[k].in = (k > 0 /\ commands[k-1].out)
    /\ length > 0 => ~commands[length-1].out

\* Where the runs of words begin, and where the one that begins at p ends.
Begins == {p \in DOMAIN line : IsPlain(p) /\ ~IsPlain(p - 1)}
End(p) == CHOOSE e \in p..Len(line) : ~IsPlain(e + 1) /\ \A m \in p..e : IsPlain(m)

\* The pipeline that the word at p belongs to has a "&" at its end.
InBackground(p) ==
  \E a \in p + 1..Len(line) :
    Word(a) = "&" /\ \A m \in p..a - 1 : Word(m) \in {Plain, "|"}

\* A line without redirections, once accepted, is parsed as it is meant: its
\* runs of words have a command each, one after the other, which writes into a
\* pipe if "|" comes next.  No command is in the background without "&" at the
\* end of its pipeline, and the last of a pipeline is whenever it is there.
ParsedAsMeant ==
  Accepted /\ (\A j \in DOMAIN line : Word(j) \notin {">", "<"}) =>
    /\ \A k \in Made :
         LET c == commands[k]
             p == c.argv[1]
         IN  /\ p \in Begins
             /\ c.argv = [a \in 1..End(p) - p + 1 |-> p + a - 1]
             /\ c.out = (Word(End(p) + 1) = "|")
             /\ c.bg => InBackground(p)
             /\ ~c.out /\ InBackground(p) => c.bg
    /\ \A p \in Begins : \E k \in Made : commands[k].argv[1] = p
    /\ \A k, m \in Made : k < m => commands[k].argv[1] < commands[m].argv[1]

\* A pipeline runs as a whole in the foreground or in the background ("Must be
\* run in the background", command.h:27; the loop of parser.c:220-223 is there
\* to mark the commands before the one that "&" follows).
PipelineInBackground ==
  Accepted => \A k \in Made : commands[k].out => commands[k].bg = commands[k+1].bg

\* Memory is misused, by copying without end or by freeing what is free, only
\* by a line that begins with a separator or that ends where a file name is
\* missing: every other line, right or wrong, is run or reported and the prompt
\* comes back.
BreaksOnlyBy ==
  at = "broken" => IsSeparator(Word(1)) \/ Word(Len(line)) \in {">", "<"}
=============================================================================
