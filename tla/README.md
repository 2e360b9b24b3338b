# Verification of syssoft_labs

TLA+ models of the programs in this repository, checked by TLC and, where
marked, proved by TLAPS. The repository holds four exercises: `lab1` (a bash
menu), `lab4` (kcsh, a csh-like shell), `lab5` (small programs about threads and
about passing state between processes) and `lab6` (a threaded directory server
and its client). There are no tests and no documents besides the header comments
of `lab4/*.h` and the usage strings, so the models follow the code.

`PROJECT.json` lists components, runs, mutants, the source lines of every
definition, the hazards and the theorems. Run from this directory:

    tlc -workers 2 -config WorkerPool.cfg MCWorkerPool
    tlapm WorkerPoolProofs.tla

## Inventory

| Part | State | Operations | What is hard about it |
|---|---|---|---|
| `lab6/server.c` pool | `free_workers_count`, `pool_size`, `clients` (queue), `queue_mutex`, `cond` | main: accept, enqueue, grow the pool, signal; worker: wait, dequeue, leave or serve | a wait that does not hold its mutex, signals lost or spent on an empty queue, counters tested in one section and changed in another |
| `lab6/queue.c` | linked nodes with `head`, `tail`, `elem` | init, enqueue, dequeue, destroy | failing malloc, and a field that is read and never set |
| `lab6` conversation | line buffer of the worker, the socket | `do_work` and `client.c` main | a protocol of zero-terminated answers and `//close`, hangups, resets |
| `lab4/kcsh.c` and builtins | process tree, process groups, terminal mode, table of jobs | prompt, fork, exec, wait, `exit`, ^C, ^D | children that come back as shells, one-shot handlers, interrupted waits, background stops |
| `lab4/job.c` | array of pids and its capacity | add, look up, delete, grow | off-by-one places, clearing after growth |
| `lab4/io.c` | line buffer, cursor, length, terminal row, completion counter | one key at a time | several copies of one line, text left behind its end |
| `lab4/parser.c`, `variable.c` | vector of words, vector of commands that outlives the line, variables | split, unfold `$name`, build and free commands | an index that jumps, error paths half way, what earlier lines left behind |
| `lab5/multithread*.c` | one string, a semaphore, mutex or read-write lock | reverse, change case, count, print | the lock's initialisation after its users' creation, unlocked printing |
| `lab5/server.c`, `client.c` | `struct state` copied to shared memory, a message queue or a mapped file | update, read, clean up | torn reads, a full queue, signals before the object is known, a clock set back, removal of what others use |
| `lab5/unixserver.c`, `unixclient.c` | `struct state`, a socket and its name | accept, count to the next second, send | clients that leave, a name taken from a running server |
| `lab5/signalserver.c` | `struct state` | print on a signal | handlers that wait for the next second |
| `lab5/pipes.c`, `lab1/lab1.bash` | none that lasts | | straight-line code |

How the parts meet: in the server, main and the workers share the queue, the
counters and the condition; each worker then talks to one client over its own
socket. In the shell, `main` calls the editor for a line, the parser for its
commands and `fork_and_exec` for each; the job table is called by `main` and
`fork_and_exec`; shells, programs and the user meet at the terminal, the signals
and `waitpid`. The programs of `lab5` are independent of each other except that
clients read what a server writes.

## Modules

| Module | Models | Kind |
|---|---|---|
| `WorkerPool` | pool and queue of `lab6/server.c`, access by access | state machine |
| `ClientQueue` | `lab6/queue.c`, call by call | implements `LossyQueue` |
| `DirSession` | `do_work` against `client.c` over one connection | state machine |
| `Shell` | processes of kcsh: `kcsh.c`, `builtins_impl.c` | state machine |
| `JobTable` | `lab4/job.c` | implements `JobList` |
| `LineEditor` | `get_line` and its helpers in `lab4/io.c`, with the screen | implements `TextEditor` |
| `CommandLine` | `lab4/parser.c` from words to commands, and `main`'s walk over them | state machine |
| `StateServer` | `lab5/server.c`, `client.c`, `unixserver.c`, `unixclient.c` | state machine |
| `StringThreads` | `lab5/multithread.c`, `multithread6.c`, `multithread7.c` | implements `AtomicString` |
| `MC*` | small values for the constants, nothing else | for TLC |
| `*Proofs` | theorems and proofs | for TLAPS |

Definitions whose comment begins with "Mutant" are plausible mistakes in the
definition that follows; no specification uses them. Each property is broken by
one of them when it takes the definition's place.

### WorkerPool

`mpc` is main's place in `main`/`service_client`/`queue_enqueue`, `wpc[w]` each
worker's in `worker`/`queue_dequeue`. Every load or store of the queue is an
action of its own (`EnqueueTest`, `FirstHead`, `FirstTail`, `FirstElem`, `Link`,
`LinkElem`, `Advance`; `DequeueTest`, `ReadElem`, `ReadLink`, `FreeHead`,
`Unlink`, `ResetTail`), because `worker` calls `pthread_cond_wait` without
locking `queue_mutex` first: the wait releases whatever lock is there
(`CondWait`), main's included, and takes the lock when it wakes. The history
variable `stolen` notes that this has happened to a lock another thread held.
The two counters have locks of their own, taken and released around the counter
alone, so each of their sections is one action (`CheckFree`, `GrowPool`,
`BecomeFree`, `ShrinkPool`, `Leave`, ...). Signals go to any sleeper
(`WakeOne`), and sleepers wake spuriously. `Cleanup`, the signal handler, may end
the process at any moment; what the process held is gone then.

What holds: the counters are exact and never wrap, the pool stays within `N..K`,
and, until a lock is stolen, only the holder touches the queue, no bad pointer is
followed and no two workers hold one client. `~fault` without the condition is
false: with a stolen lock TLC finds two overlapping queue sections and a freed
node. A wakeup is not spent on an empty queue while its client waits
(`WakeupKept`), main always comes back to `accept`, and a client at the head of
the queue whose signal woke a worker is taken.

Fairness (`FairSpec`): weak for main's steps other than `accept` (clients need not
come) and for each worker's steps other than serving (a client may keep its
worker for ever), strong for taking `queue_mutex`, for main and each worker: a
mutex may be handed around, and the model assumes that nobody is passed over for
ever. Without it main's return could not be claimed of any locking code.

### ClientQueue and LossyQueue

The queue as a sequential data structure, with `malloc` failing at will.
`queue_dequeue` follows the field `head` of a node, which nothing sets, so
a dequeue empties the queue whatever it holds: `LossyQueue` states just that
(`Take` keeps the first client and forgets the others) and `Refinement` is by the
sequence of reachable elements. `LossOnlyByDequeue` says that this is the only
call, besides the end of the queue, that loses a client.

### DirSession

The client writes a name of several characters and a newline and reads a
zero-terminated answer for each argument; the worker stores characters in a
buffer that grows, tests for `//close`, lists the directory. Names are short
sequences of character classes; argument lists include an empty name, one with a
carriage return, one with a newline inside and `//close` itself (without an argument
the client does not connect). A read may fail, either side may hang
up or be killed, `malloc` and `realloc` may fail; a read of 0 leaves the last
character in place, as the code does. Writes do not block. Fairness: weak for the
client and for the worker, who are ordinary processes.

### Shell

One record per process; `at` is its place in `main`/`fork_and_exec`/`goodnight`
or what it has become. A child whose builtin returns, or whose redirection or
`exec` fails, goes on in `main` with the rest of the line (`Return`), as the code
does, so shells nest: `cd` works because the shell that ran it becomes the one
that prompts. One whose input is a file or a pipe (`redirected`) leaves at its prompt,
where `init_term` finds no terminal. The kernel's part is modelled from how the code uses it: zombies
and `waitpid`, orphans, process groups, `tcsetattr` from the background stopping
the caller's group, hangup of orphaned stopped groups, signals that are pending
until the process runs. `signal()` under `--std=c89` installs a handler for one
use and restarts no call: an interrupted `read` ends the shell, and an interrupted
`waitpid` leaves `st` unset, from which the model takes either outcome. A
command is a program that ends, one that fills a pipe nobody reads (`filler`;
the commands of a pipeline run one after another), one that returns, or `exit`.
`disturbed` notes that a shell was killed, left although its command goes on, or
went on without having waited for it.

What holds until then: the job table lists exactly the children not yet reaped,
one shell reads the terminal while every other process in front waits, and the
terminal's mode has one owner who saved the outside's mode. Under fairness a shell
comes back to the prompt or the session ends, with two exceptions that TLC shows
to be needed: a command blocked in its pipe, and `goodnight` waiting for a child
the terminal has stopped (`mistyped &`, then ^D). Fairness is weak for every
process's own steps, which assumes that programs run by the shell end; the user
owes nothing.

### CommandLine

A line is a sequence of words: a separator is a word of its own, every other word
is `Plain`, and what a command holds is told by places in the line. `MakeCommand`
is one turn of the loop of `make_cmdv` that ends a command: `make_cmd`, the pipe,
the redirections, `&`, and the jump to the next word. `Marked` is the loop of line 220, as it runs. `i` and `first` are the
code's, counted from 1; `in` and `out` say whether an end is a pipe's. The vector
`commands` is kept from line to line, as in `main`: a place is a command, a NULL, a
command that has been freed (`Freed`), or what `malloc` found there, and only a
NULL (or a chance zero) ends the walk that runs and frees. `at = "broken"` is an
access outside memory or to freed memory, and is followed no further.

Lines without redirections are compared with what they mean (`ParsedAsMeant`): a
command for each run of words, a pipe where `|` comes next, the background for no
command whose pipeline does not end in `&`, and for the last of one that does. That
the whole pipeline is in the background (`PipelineInBackground`) is false of the code
and is a run of its own (see Findings). With
redirections only that no word is lost is stated (`WordsKept`): `a > f | b` drops
the pipe, `a > f b` runs `b`, and `a < f > g` runs `g`. `BreaksOnlyBy` says which
lines misuse memory: one that begins with a separator (`last` becomes the greatest
`size_t` and `assert(last >= first)` passes), and one that ends in `>` or `<`, after
which nothing is behind the failed command but what earlier lines left. Every
other wrong line is reported and frees each command once.

### StateServer

Several runs of the servers, each of any kind (`shm`, `msg`, `file`, `sock`), and
clients of any kind. `obj[o]` is the segment, queue, file or socket that server `o`
created, `name[k]` the one that the key or file name of a kind stands for; a
removed segment or queue has no name any more. `srv[s].at` is the server's place:
handlers installed, object created but its number not yet assigned, in the loop,
inside `memcpy`, inside `msgsnd`, or busy in `while (!update())` with a client.
`memcpy` writes the fields one by one in any order (`Copy`); a client reads the
time, then the load (`ClientRead`). What a field holds is the working time it was
taken at; `hist` and `whole` record who began which copy and how many are complete.

Signals come at every step: SIGUSR1 makes `msgsnd` fail when it waits
(`Interrupted`; `signal()` handlers stay under `--std=gnu89` and `msgsnd` is never
restarted) and prints elsewhere; any other one removes the object and ends
(`Handle`); SIGKILL removes nothing. Segments and queues are removed by number,
files and sockets by name, whoever's they are by then. `getloadavg` may fail
(`LoadFails`), opening and mapping may fail, clients may be killed while they wait,
and the clock may be set back.

What holds: while one server writes, a report is not older than the last complete
copy before it, and its load is at most one copy behind its time (`ReadsRegular`);
what is left behind when no server runs was left by one that was killed or that
ended before it knew the number (`NothingLeft`); a running server that clients
cannot find lost its name to another server in one of the ways the code has
(`OrphanedByPeer`). Under fairness `msgsnd` waits for room only, a client of a
socket waits only for the clock (`WaitsEnd`), and each second that is later than any
the server has shown reaches time and load in the memory, unless the server ends, or
another one writes there, or the clock is set back before it (`SecondShown`). After the clock was set back nothing
is shown until it has caught up: those seconds are never shown, and `SecondShown` does
not claim it. Fairness is weak for the steps of
each server and each client: ordinary processes, of which none waits for a lock. No
signal, no start, no opening of a client and no tick of the clock is assumed.

### JobTable and JobList

Array, capacity and growth, against "a new job gets the least free number and
keeps it until it is deleted". The block asked for at growth is three bytes
shorter than its last place; allocators round it up, and the model takes what is
written there to stay.

### LineEditor and TextEditor

`line` is the whole buffer, not only the text in it: a string ends at the first
NUL, wherever `length` says. One action per key; `screen` and `col` are the row
behind the prompt as the printed characters leave it. `ScreenShowsLine` relates
the four copies of the line; `Refinement` says that the buffer arithmetic edits a
text at a cursor. Completion may append text left over from a longer line, which
`TextEditor` has to allow and the run `editor_completion` shows.

`ShellPartsProofs` proves both about `LineEditor` and about `JobTable`, which share
nothing; the definitions of `JobTable` that every module has are named `TableInit`,
`TableNext`, `TableSpec`, `tableVars` and `JobRefinement`, so that one module can
extend both.

### StringThreads and AtomicString

One module for the three programs (`program` is chosen at the start and stays).
One step is one index of one pass. The history variable `settled` is the string
at the last unlock of a writer; it is the abstract string. In `multithread6.c`
and `multithread7.c` `init_sync` runs after the threads have been created: when a
thread holds the (zero, hence working) lock at that moment it is set free under
its holder. `broken` notes it, and the behaviour is followed no further.
Fairness: weak for main and for each thread; each thread of a round locks once,
so weak is enough.

## Runs

| Run | Bounds | States | What it shows |
|---|---|---|---|
| `pool` | N=1, K=2, 3 workers, 2 clients | 315 000 | counters, pool bounds, queue ownership, hand-over; main returns to `accept`, a woken client is taken |
| `queue` | 5 nodes in all | 39 000 | chain, losses, `LossyQueue` |
| `session` | five argument lists | 21 000 | buffer room, question and answer in step, both ends are released |
| `shell` | 4 processes, nine lines | 690 000 | jobs, reader and terminal mode, and the prompt comes back |
| `shell_exit` | 3 processes, the same lines | | violated: see Findings |
| `jobs` | capacity 1 doubling to 4, three pids | 2 100 | `JobList` |
| `editor` | buffer of 8, three characters, 3 completions | 183 000 | screen, `TextEditor` |
| `editor_completion` | the same | | violated: see Findings |
| `commands` | all lines of 4 words, eight of up to 6 | 68 000 | words, pipes, meaning, misuse of memory |
| `commands_background` | the same | | violated: see Findings |
| `state` | 2 servers, 1 client, a queue of 1, clock 0..2 | 1.0 million | reads, removal, waiting, seconds |
| `strings` | strings of 3 and 4 characters, all 5 passes | 5 900 | `AtomicString`, whole prints and counts, rounds end |

Why these bounds are enough for the cases that matter: three workers with K=2
reach growing, leaving, re-creation of a worker in a reused slot and two
overlapping queue sections; two clients reach a queue that is empty, has one
node and has two, and both branches of `queue_enqueue`; the eight invariants are proved for
every number of them. Five nodes let a queue be built, lost and built again.
Four processes hold a shell in a shell with a job beside it, and running out of
processes is the failing `fork`; pids are not used twice, so a shell's table never
lists a stranger's. After `disturbed` nothing more is typed. Two doublings of the
job table cover the first growth (from `calloc`) and the next (from `realloc`). A
buffer of eight holds two words, a path and an erased or completed middle; three
completions cover the first and second name, the count of names itself, where
nothing is completed, and a shorter name after a longer one. An even and an odd
string cover both middles of the reversal. The lines of the shell name every kind
of command in front, a job beside a session, and what comes behind a command that
returns. Four words reach every branch of `make_cmdv` and every pair of them; the
longer lines hold three-stage pipelines and three redirections; since lines follow
each other, the vector has held every mixture of NULL, freed and untouched places.
Two servers are enough to take an object from each other, share it or remove it
under each other; a queue of one is full or empty; three seconds hold a complete
copy, a torn one, and a clock that goes back between them.

Deadlock is checked in `jobs` only; elsewhere a session, a process or the supply
of clients and nodes ends.

## Findings

* `editor_completion`: `get_line` types a character at the end of the line
  without a terminator behind it. After a completion that made the line shorter,
  the longer line's characters are still there, and the next completion copies
  them behind the cursor (`io.c:464`, `io.c:424`).
* `shell_exit`: after any builtin that returned, or a command that could not be
  executed, `exit` stops the nested shell only; `builtins_impl.h:15` says "Stop
  working".
* `commands_background`: the loop that marks a pipeline for the background
  (`parser.c:220`) counts up where it should count down: it marks one command and then
  meets the last, which is no pipe's. Of `a | b | c &` the first is left in the
  foreground and the shell waits for it; `command.h:27` says "Must be run in the
  background". Counting down, the run finds nothing.

## Proofs

| Module | Theorems | Argument |
|---|---|---|
| `WorkerPoolProofs` | `TypeCorrect`, `FreeCountCorrect`, `PoolSizeCorrect`, `PoolBoundsCorrect`, `OwnershipCorrect`, `PointersCorrect`, `ExclusionCorrect`, `WakeupCorrect` | one inductive invariant, another for the wakeup |
| `ClientQueueProofs` | `ChainCorrect`, `LossCorrect`, `ImplementsLossyQueue` | the chain is an interval of allocated nodes |
| `DirSessionProofs` | `Invariant`, `RoomCorrect`, `StepCorrect` | the stages of one exchange |
| `ShellProofs` | `Invariant`, `TypeCorrect`, `JobsAgree`, `OneReader`, `TerminalCorrect` | the chain of waiting shells in front and its only end |
| `ShellPartsProofs` | `EditorInductive`, `ScreenCorrect`, `ImplementsTextEditor` (`LineEditor`) | buffer and row place by place; texts compared place by place |
| | `TypeCorrect`, `ImplementsJobList` (`JobTable`) | step by step under the mapping `Listed` |
| `CommandLineProofs` | `CommandsInductive`, `WordsCorrect`, `MeaningCorrect`, `PipesCorrect`, `BreaksCorrect` | one inductive invariant, lemmas about places of the line |
| `StateServerProofs` | `NothingLeftCorrect`, `OrphansCorrect`, `ReadsCorrect` | steps reduced to what they do to names, and to what they do to memory |
| `StringThreadsProofs` | `Invariant`, `MutualExclusion`, `CountCorrect`, `ImplementsAtomicString`, `ShownCorrect` | each place of a half rewritten string is told from the string before |

They hold for every value of the constants that satisfies the named assumptions
of the modules (`PoolAssumption`, `WorkersAssumption`, ...), which TLC evaluates
in every run.

The invariant of the pool is `TypeOK /\ MainOK /\ FreeCountExact /\ PoolSizeExact
/\ PoolWithinBounds /\ QueueOwned /\ QueueOK /\ ClientsExclusive`. The bounds of the
pool nearly follow from the guards of growing and shrinking alone; that no counter
wraps needs their exact meaning (a worker about to decrement is counted), pointers stay good only
because the thread inside a queue section holds the lock, and clients stay apart
only because the nodes between head and tail hold different clients in the order
of their arrival. `QueueOK` says `~stolen => ~fault` and the shape of the chain
at each place in a queue section (`PointersOK`, `NodesOK`, `OrderOK`), which says
nothing any more once a lock has been stolen. `WakeupKept` has an invariant of its
own, `WakeupOK`: it says the same from the second signal on, which finds the woken
worker already past the wait, and that nobody has heard anything before; a stolen lock
does not matter to it. TLC checked each part before it was
proved. The refinements of the queue and the job table map every action to an
action of the abstract module or to a stutter, with the type invariant as the
only lemma about states.

The invariant of `CommandLine` is `Shape /\ Parsing /\ Vector /\ Walk /\
BreaksOnlyBy /\ Kept /\ Told`. `PipesPaired` speaks of one moment only, so `Vector`
says it for the commands made so far and ties `pipeNext` to the last of them; that the last one does
not write into a pipe needs `Parsing`: after a pipe there is a word still to come
(`FarEnough`). The same part keeps each command from taking no word, so there are
never more of them than places (`CommandFits`). `BreaksOnlyBy` needs `Parsing` for the
lines that begin with a separator, and `Walk`, that `main` meets commands up to a NULL
unless the line ends where a file name is missing (`MissingAtEnd`). `WordsKept` says
of the whole line what `Kept` says of the words before `Passed`, the place where the
next command begins: they are in the commands made so far, and those from there to
`i` are all plain. A command's files lie between its separator and the place where it
ends, and take every word that is there (`FilesBetween`); from that place on the jump
passes separators only (`ResumeSkips`). For `ParsedAsMeant`, whether a command that writes into a pipe is in the background
hangs on the separator behind the next one, which `make_cmdv` has not seen when it
makes the first: `Told` therefore says of each command what is known so far, and where
the one behind its pipe begins. That a run of words has one end (`EndOfRun`) and where
it leads (`PipelineOfRun`) make it the meaning.

In `StateServerProofs` every action is first shown to be one of a few steps on the
places, kinds and held objects of servers and on the names (`NextStep`); clients and
the clock only make quiet ones. `Held` (a name belongs to a server that runs, was
killed, or left before it knew its object or with its socket still named) gives `NothingLeft`. `Orphans` says
`OrphanedByPeer` from the moment a server has opened its object, before it is
attached: that is when others can already take its name away.

`ReadsCorrect` rests on `Memory` in the same module. While one server writes to an
object (`WrittenBy`), the times it writes rise (`Rising`: `update` waits for a later
time, also when the clock goes back) and only its last update can be incomplete;
`Copied` says what the memory then holds at each place of the writer, and after its
end. `Seen` says what a reader knows: a time that is in the list of updates, and a
number of complete ones that is not yet exceeded. Updates are never taken from the
list (`HistoryKept`), so what was read once remains known. That a time names one
position (`PositionOf`) needs `Rising`; with a second writer the promise ends, and
`OneWriter` with it (`GrownBy`).

`InStep` alone is far from inductive: a late answer would be in one of the two
directions of the socket long before it is printed. `ExchangeOK` names the stages of
the current exchange: `Listening` (the server has read `buf`, the rest of the line is
on its way, and nothing has been answered), `Answering`, `Replied` (the answer is
complete, partly unread), `GivingUp` and `GivenUp`. Each says that what the client has
and will get (`Got`) is a beginning of the one right answer, or the error behind it.
The first zero byte decides where the client stops, and the first newline where the
server does (`FirstMark`); both need that names hold no zero byte
(`CharsAssumption`, as in C strings). `RoomOK` keeps three places free where
`RoomInBuffer` asks for one, as the buffer is doubled before it is full.

The invariant of `Shell` is about the processes in front of the terminal: as long as
nothing has disturbed the session, each is the first shell, waited for by its parent,
or about to leave the front (`ChainOK`), and only one of them is at the end of that
chain (`TipOK`). From this follow that one shell reads and that one has the
terminal's mode. `FamilyOK` (parents are living shells, who is waited for is a child)
and `FrontOK` hold however the session has been disturbed. Every action is reduced to
the shape of what it does to the processes (a process ends, moves on in place, reaps,
begins a command, forks, gets a signal), and one lemma for each shape shows that chain
and end are kept.

In `StringThreads`, `LockOK` makes the lock the holder's, and `HalfReversed` and
`HalfTurned` give each place of the string as a function of the string at the last
unlock, the number of passes done and the index in the current one: after an odd
number of passes it is exchanged, after an even number it is as before. With five
passes (`Rounds`) the loop's end is one reversal or one change of case, which is the
step of `AtomicString`. `RoundOK` relates what `main` last printed to the string, by
which of the two threads have ended. Assumed are an alphabet in which no letter is
small and capital and no two small letters share a capital (`UpperAssumption`), and
non-empty strings, for `multithread.c` and `multithread6.c` of letters
(`SourceAssumption`), as only `multithread7.c` looks whether a character is one. Lock,
string and count are said nothing about once the lock has been initialised under its
holder (`broken`), where the model stops as well.

The invariant of `LineEditor` is about the buffer (`Shape`: characters as far as the
line goes, a NUL in its last place, room for two more), the row (`Row`) and the text
between two lines (`Rests`). `Shape` leaves open whether a NUL follows the line,
because a character typed at the end does not put one there; a row is only followed
while one does, and then `Row` says `ScreenShowsLine`. Each key has two lemmas: what
it does to the buffer, place by place, which rests on where the first NUL is
(`StringEnds`, `StringLength`), and what its output makes of the row. The refinement
compares texts place by place: shifting a string to the right and storing a character
is `InsertAt`, shifting it to the left is `RemoveAt`, and a completion is one of
`TextEditor` because the string copied from behind the cursor begins with what the
editor takes to be there (`RestText`), and what `complete` returns is its argument or
the part up to the last slash of the last word with a name behind it
(`CompletedText`). The text between two lines has to be empty for a prompt to be one
of `TextEditor` (`Rests`). Assumed are a NUL that is neither a character of a line
nor of a file name (`CharsAssumption`, `ListingAssumption`) and a buffer of more than
two places (`SizeAssumption`).

Left to TLC is all liveness (`MainReturns`, `WokenClientTaken`, `ClientEnds`, `WorkerReleased`,
`Responsive`, `WaitsEnd`, `SecondShown`, `RoundEnds`): fairness and `ENABLED` are out of
the prover's reach. Every invariant, action property and refinement that a passing run
checks is proved.

## Abstractions

Failing `malloc` in the queue is in `ClientQueue` only, not in `WorkerPool`;
freed nodes are not handed out again there. `cleanup` in the signal handler is one
step. Lines that overflow the editor's buffer, the end of its input and unknown
escape sequences are left out, as are ^Z, the working directory and variables in
`Shell`. What `complete` reads behind the end of an empty prefix (`io.c:283`) is taken to
name no directory, and the blocks of `basedir` and of the text behind the cursor, a byte
or more too short (`io.c:263`, `423`), to have room. `CommandLine` does not model sizes: the 1024
words, the 1024 commands, and file names that get two bytes less than they need
(`parser.c:203`). `StateServer` leaves out what reports print, errors after which
a client only ends, and a `listen` that fails after `bind`; the assignment of a segment's
number and `shmat` are one step, so that a signal between them leaves a segment which
the handler would remove. `multithread.c none` and the unlocked `puts` of `multithread7.c` promise
nothing and are left out. Failing system calls of `server.c` before its main loop
end the process and are part of `Cleanup`.

Some properties hold up to a point that the code does reach, and forbid neither that
point nor what comes after it; the hazards in `PROJECT.json` say so one by one. In
`WorkerPool` that is the release of another thread's lock (`stolen`) and signals that
found nobody asleep (`~heard`), in `LineEditor` a row whose line has lost its terminator
(`followed`), in `Shell` an interrupted wait (`disturbed`) and the two ways to lose the
prompt (`Stuck`), in `StateServer` an end inside the window before the number is known
(`left`), in `StringThreads` a lock set free under its holder (`broken`).

## Not modelled

* `parser.c` from characters to words (`get_splitted`, `get_arg`, `put`) and
  `variable.c`: sequential code over strings whose mistakes are those of sizes.
  `unfold_variable` tests names one character longer than those it skips, so `$?x`
  gives the value followed by `?x`; it writes the longer line into the editor's
  buffer of 1024 without asking whether it fits, and the 1024 places for variables
  are not checked either.
* What `cd`, `set` and `setenv` change: they take effect because the child that
  runs them becomes the shell that prompts, which `Shell` shows. (`builtins_impl.h:8`
  lets `cd` go to `$home` without an argument; `k_cd` refuses.)
* The descriptors of pipes: `main` never closes the read end it hands on
  (`kcsh.c:187-198`), one more for each pipe.
* `signalserver.c`: one process without clients; a handler waits for the next second
  inside whatever it interrupted, and only prints.
* `pipes.c` and `lab1.bash` (straight-line code over other programs), Makefiles and
  the Doxygen configuration, texts and error messages.
