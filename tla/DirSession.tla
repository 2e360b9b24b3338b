----------------------------- MODULE DirSession -----------------------------
(***************************************************************************)
(* One conversation of the directory server: lab6/client.c at one end of a *)
(* TCP connection, do_work() of lab6/server.c at the other.  The client    *)
(* sends each of its arguments as a line and reads up to a zero byte; the  *)
(* server answers every line with the line, a colon, the entries of that   *)
(* directory and a zero byte, and leaves when it reads "//close".          *)
(*                                                                         *)
(* A name, an entry or a mark is one character.  A directory does not      *)
(* change while it is listed.  Writes never block: nobody sends while the  *)
(* other end is not going to read.                                         *)
(***************************************************************************)
EXTENDS Integers, Sequences, SequencesExt

CONSTANTS
  Chars,       \* what arguments and names of entries are made of
  ArgLists,    \* argument lists the client may be started with
  Dirs,        \* names opendir can open
  Entries,     \* [Dirs -> sequence of entry names]
  BufSize,     \* first size of the server's line buffer
  MaxBuf       \* bound: the size realloc cannot reach

ASSUME BufAssumption == BufSize \in Nat /\ BufSize > 2 /\ MaxBuf \in Nat

NL    == "\n"
CR    == "\r"
NUL   == "NUL"
Colon == ":\n"
Error == "<error>"
Close == "//close"
ServerError == "server error"

\* Arguments of main() and names of a directory's entries are C strings.
ASSUME CharsAssumption == NUL \notin Chars
ASSUME ArgListsAssumption == ArgLists \subseteq Seq(Seq(Chars))
ASSUME EntriesAssumption == Entries \in [Dirs -> Seq(Chars)]

VARIABLES
  args, arg,    \* the client's arguments and the one it is at
  cpc,          \* where the client is
  answers,      \* what it printed for each argument
  spc,          \* where do_work is
  buf, cap,     \* its line buffer: the characters stored, and its size
  c,            \* the last character read
  reply,        \* what is still to be written of an answer
  up, down,     \* bytes on their way to the server and to the client
  open,         \* which ends of the connection are open
  reset         \* an end closed with bytes unread: the other's reads may fail

clientVars == <<arg, cpc, answers>>
serverVars == <<spc, buf, cap, c, reply>>
wireVars   == <<up, down, open, reset>>
vars == <<args, clientVars, serverVars, wireVars>>

Client == "client"
Server == "server"

\* Either the connection is there, or connect() failed: the client only says
\* so and goes on, while a worker may be serving descriptor -1.
Init ==
  /\ args \in ArgLists
  /\ arg = 1 /\ cpc = "name"
  /\ answers = [k \in DOMAIN args |-> <<>>]
  /\ spc = "alloc"
  /\ buf = <<>> /\ cap = 0 /\ c = NUL /\ reply = <<>>
  /\ up = <<>> /\ down = <<>>
  /\ open \in {{Client, Server}, {}}
  /\ reset = FALSE

-----------------------------------------------------------------------------
(* The client.                                                             *)

\* write(): to an end that is closed the bytes are lost, or SIGPIPE kills
\* the process; without a connection, SIGPIPE does.
ClientWrites(bytes, to) ==
  \/ /\ Server \in open
     /\ up' = up \o bytes
     /\ cpc' = to
     /\ UNCHANGED <<open, down, reset>>
  \/ /\ open = {Client}
     /\ cpc' = to
     /\ UNCHANGED <<up, open, down, reset>>
  \/ /\ Server \notin open
     /\ cpc' = "killed"
     /\ open' = open \ {Client}
     /\ UNCHANGED <<up, down, reset>>

SendName ==
  /\ cpc = "name" /\ arg <= Len(args)
  /\ ClientWrites(args[arg], "newline")
  /\ UNCHANGED <<args, arg, answers, serverVars>>

SendNewline ==
  /\ cpc = "newline"
  /\ ClientWrites(<<NL>>, "read")
  /\ UNCHANGED <<args, arg, answers, serverVars>>

\* Mutant: the client stops reading at the end of the first line.
ReadAnswerLine ==
  /\ cpc = "read" /\ down # <<>>
  /\ down' = Tail(down)
  /\ answers' = [answers EXCEPT ![arg] = Append(@, Head(down))]
  /\ IF Head(down) \in {NUL, Colon} THEN cpc' = "name" /\ arg' = arg + 1
                                   ELSE UNCHANGED <<cpc, arg>>
  /\ UNCHANGED <<args, serverVars, up, open, reset>>

\* One byte of the answer; the zero byte ends it.
ReadAnswer ==
  /\ cpc = "read" /\ down # <<>>
  /\ down' = Tail(down)
  /\ answers' = [answers EXCEPT ![arg] = Append(@, Head(down))]
  /\ IF Head(down) = NUL THEN cpc' = "name" /\ arg' = arg + 1
                         ELSE UNCHANGED <<cpc, arg>>
  /\ UNCHANGED <<args, serverVars, up, open, reset>>

\* read() returns 0, or -1 on a connection that was reset, when what was
\* still to be read is lost: on to the next argument all the same.
ReadNothing ==
  /\ cpc = "read" /\ Server \notin open
  /\ down = <<>> \/ reset
  /\ down' = <<>>
  /\ cpc' = "name" /\ arg' = arg + 1
  /\ UNCHANGED <<args, answers, serverVars, up, open, reset>>

\* After the last argument: sizeof("//close\n") counts the zero byte.
SendClose ==
  /\ cpc = "name" /\ arg > Len(args)
  /\ ClientWrites(<<Close, NL, NUL>>, "close")
  /\ UNCHANGED <<args, arg, answers, serverVars>>

Hangup(to) ==
  /\ cpc' = to
  /\ open' = open \ {Client}
  /\ reset' = (reset \/ (Client \in open /\ down # <<>>))
  /\ UNCHANGED <<args, arg, answers, serverVars, up, down>>

CloseClient == cpc = "close" /\ Hangup("done")

\* The client is killed at any moment; its end of the connection closes.
KillClient == cpc \notin {"done", "killed"} /\ Hangup("killed")

-----------------------------------------------------------------------------
(* The server: do_work().                                                  *)

Alloc ==
  /\ spc = "alloc"
  /\ spc' = "read"
  /\ buf' = <<>> /\ cap' = BufSize /\ c' = NUL
  /\ UNCHANGED <<args, clientVars, reply, wireVars>>

\* malloc returns NULL.
AllocFails ==
  /\ spc = "alloc"
  /\ spc' = "error"
  /\ UNCHANGED <<args, clientVars, buf, cap, c, reply, wireVars>>

\* Mutant: the room left is computed before the character is counted.
StoreLate(ch) ==
  /\ buf' = Append(buf, ch)
  /\ c' = ch
  /\ \/ /\ cap - Len(buf) > 0
        /\ cap' = cap
        /\ spc' = IF ch = NL THEN "test" ELSE "read"
     \/ /\ cap - Len(buf) <= 0
        /\ 2 * cap <= MaxBuf
        /\ cap' = 2 * cap
        /\ spc' = IF ch = NL THEN "test" ELSE "read"
     \/ /\ cap - Len(buf) <= 0
        /\ cap' = cap
        /\ spc' = "error"

\* buf[len++] = c, then the buffer is doubled when two places are left; a
\* realloc that fails ends the session, whatever the character was.
Store(ch) ==
  /\ buf' = Append(buf, ch)
  /\ c' = ch
  /\ \/ /\ cap - Len(buf') > 2
        /\ cap' = cap
        /\ spc' = IF ch = NL THEN "test" ELSE "read"
     \/ /\ cap - Len(buf') <= 2
        /\ 2 * cap <= MaxBuf
        /\ cap' = 2 * cap
        /\ spc' = IF ch = NL THEN "test" ELSE "read"
     \/ /\ cap - Len(buf') <= 2
        /\ cap' = cap
        /\ spc' = "error"

ReadLine ==
  /\ spc = "read" /\ Server \in open /\ up # <<>>
  /\ up' = Tail(up)
  /\ Store(Head(up))
  /\ UNCHANGED <<args, clientVars, reply, down, open, reset>>

\* Mutant: the end of the connection stops the loop without an exit.
ReadEndIgnored ==
  /\ spc = "read" /\ Server \in open /\ up = <<>> /\ Client \notin open
  /\ UNCHANGED vars

\* read() returns 0 and leaves c alone: the last character is stored again,
\* and again, until memory runs out.
ReadEnd ==
  /\ spc = "read" /\ Server \in open /\ up = <<>> /\ Client \notin open
  /\ Store(c)
  /\ UNCHANGED <<args, clientVars, reply, wireVars>>

\* read() returns -1: on descriptor -1, or on a connection that was reset.
ReadFails ==
  /\ spc = "read"
  /\ Server \notin open \/ (reset /\ Client \notin open)
  /\ spc' = "error"
  /\ UNCHANGED <<args, clientVars, buf, cap, c, reply, wireVars>>

\* strcmp(buf, "//close\n"): the buffer is not terminated, so the byte that
\* happens to follow the line decides whether it is recognised ...
TestClose ==
  /\ spc = "test" /\ buf = <<Close, NL>>
  /\ spc' = "close"
  /\ UNCHANGED <<args, clientVars, buf, cap, c, reply, wireVars>>

\* The line ends at its first NL or CR.
Name(line) ==
  SubSeq(line, 1, SelectInSeq(line, LAMBDA ch : ch \in {NL, CR}) - 1)

\* Mutant: the error answer is sent without its zero byte.
AnswerUnterminated(name) ==
  name \o <<Colon>> \o (IF \E d \in Dirs : name = <<d>>
                        THEN Entries[name[1]] \o <<NUL>> ELSE <<Error>>)

AnswerTo(name) ==
  name \o <<Colon>> \o (IF \E d \in Dirs : name = <<d>>
                        THEN Entries[name[1]] ELSE <<Error>>) \o <<NUL>>

\* ... or is taken for a name like any other.
Test ==
  /\ spc = "test"
  /\ spc' = "answer"
  /\ reply' = AnswerTo(Name(buf))
  /\ UNCHANGED <<args, clientVars, buf, cap, c, wireVars>>

\* What is written when the other end is closed is lost; SIGPIPE is handled.
ServerWrites(bytes) ==
  /\ down' = IF open = {Client, Server} THEN down \o bytes ELSE down
  /\ UNCHANGED <<up, open, reset>>

Answer ==
  /\ spc = "answer" /\ reply # <<>>
  /\ ServerWrites(<<Head(reply)>>)
  /\ reply' = Tail(reply)
  /\ UNCHANGED <<args, clientVars, spc, buf, cap, c>>

Answered ==
  /\ spc = "answer" /\ reply = <<>>
  /\ spc' = "alloc"
  /\ UNCHANGED <<args, clientVars, buf, cap, c, reply, wireVars>>

\* clean: the message goes out with its zero byte.
SayError ==
  /\ spc = "error"
  /\ ServerWrites(<<ServerError, NUL>>)
  /\ spc' = "close"
  /\ UNCHANGED <<args, clientVars, buf, cap, c, reply>>

\* do_work returns and worker() closes the descriptor.
CloseServer ==
  /\ spc = "close"
  /\ spc' = "returned"
  /\ open' = open \ {Server}
  /\ reset' = (reset \/ (Server \in open /\ up # <<>>))
  /\ UNCHANGED <<args, clientVars, buf, cap, c, reply, up, down>>

-----------------------------------------------------------------------------
ClientNext == SendName \/ SendNewline \/ ReadAnswer \/ ReadNothing
                \/ SendClose \/ CloseClient

ServerNext == Alloc \/ AllocFails \/ ReadLine \/ ReadEnd \/ ReadFails \/ TestClose
                \/ Test \/ Answer \/ Answered \/ SayError \/ CloseServer

Next == ClientNext \/ KillClient \/ ServerNext

Spec == Init /\ [][Next]_vars

\* Each process runs when it can; nobody has to kill the client.
FairSpec == Spec /\ WF_vars(ClientNext) /\ WF_vars(ServerNext)

-----------------------------------------------------------------------------
(* Correctness.                                                            *)

\* buf[len++] = c always finds a place, and so does the scan of the line,
\* which goes one place past its end.
RoomInBuffer ==
  /\ spc = "read" => Len(buf) < cap
  /\ spc = "test" => Len(buf) + 1 <= cap

\* An argument that is one line, and not the one that ends the session.
Plain(a) == a # <<Close>> /\ \A i \in DOMAIN a : a[i] \notin {NL, CR, NUL}

\* The conversation stays in step: as long as the client's arguments are
\* plain lines, what it prints in full for the k-th one is the listing of the
\* k-th one (and not a late answer to an earlier line), or the server's error.
InStep ==
  \A k \in DOMAIN args :
    /\ \A j \in 1..k : Plain(args[j])
    /\ k < arg
    /\ answers[k] # <<>> /\ Last(answers[k]) = NUL
    => answers[k] \in {AnswerTo(args[k]), <<ServerError, NUL>>}

\* Client and server never wait for each other: the client comes to its end,
\* whatever its arguments are and whatever becomes of the server's memory.
ClientEnds == <>(cpc \in {"done", "killed"})

\* A worker gets rid of a client that has gone, cleanly or not, and whether
\* or not "//close" was recognised.
WorkerReleased == (Client \notin open) ~> (spc = "returned")
=============================================================================
