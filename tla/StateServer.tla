---------------------------- MODULE StateServer ----------------------------
(***************************************************************************)
(* lab5: server.c with client.c, and unixserver.c with unixclient.c.  A    *)
(* server puts its working time and the load where clients find it: in     *)
(* shared memory, in a message queue or in a mapped file, or it sends them *)
(* over a socket.  All servers of a kind use one key or one name, and what *)
(* it stands for is removed by the first of them that is told to end.      *)
(*                                                                         *)
(* Objects (a segment, queue, file or socket) are numbered by the server   *)
(* that created them.  Signals are those of signal() under --std=gnu89:    *)
(* the handler stays, and neither msgsnd nor usleep is restarted.          *)
(***************************************************************************)
EXTENDS Integers, Sequences, FiniteSets

CONSTANTS
  NumServers,  \* runs of the server, numbered in the order they start
  Clients,     \* processes that run the client again and again
  Capacity,    \* messages, or connections, the kernel keeps in a queue
  MaxTime      \* bound: the clock goes from 0 to MaxTime

ASSUME NumServersAssumption == NumServers \in Nat
ASSUME CapacityAssumption == Capacity \in Nat \ {0}
ASSUME MaxTimeAssumption == MaxTime \in Nat

VARIABLES
  now,         \* the clock
  name,        \* the object that the key or the file name stands for
  obj,         \* the objects
  srv,         \* the servers
  cli          \* the clients

vars == <<now, name, obj, srv, cli>>

Servers == 1..NumServers
Kinds   == {"shm", "msg", "file", "sock"}
None    == 0

\* The working time and the load averages: what differs between two states of
\* a server.  A load is named after the working time it was taken at.
Fields == {"time", "load"}

\* Where a server is: handlers installed, object opened but its number not
\* yet assigned (socket not yet bound), asleep or in accept, in memcpy, in
\* msgsnd, waiting for the next second with a client.
Live == {"start", "opened", "loop", "copy", "send", "serve"}
\* How it ended: "ended", with the object removed; "unread", with more removed,
\* as the load could not be read; "left", with nothing removed; "killed".

NoServer == [at |-> "off", kind |-> "none", holds |-> None, start |-> 0,
             time |-> 0, todo |-> {}, conn |-> None]
\* time: what was read, if it was; since: updates complete at the beginning.
NoClient == [at |-> "off", kind |-> "none", from |-> None, time |-> 0, since |-> 0]

\* msgs: messages that were sent, or clients that have connected, None for one
\* that has left again.
\* hist: who began a memcpy to the object, with which time; whole: how many of
\* them were completed.
NewObject == [mem |-> [f \in Fields |-> 0], sized |-> FALSE, msgs |-> <<>>,
              hist |-> <<>>, whole |-> 0]

Init ==
  /\ now = 0
  /\ name = [k \in Kinds |-> None]
  /\ obj = [s \in Servers |-> NewObject]
  /\ srv = [s \in Servers |-> NoServer]
  /\ cli = [c \in Clients |-> NoClient]

-----------------------------------------------------------------------------
(* Objects, as the kernel keeps them.                                      *)

Runs(s)      == srv[s].at \in Live
Named(s)     == name[srv[s].kind] = srv[s].holds
Attached(o)  == {s \in Servers : srv[s].holds = o /\ srv[s].at \in {"loop", "copy"}}
                  \cup {c \in Clients : cli[c].from = o /\ cli[c].at \in Fields}
\* A removed segment stays while somebody is attached to it.
SegmentThere(o) == name["shm"] = o \/ Attached(o) # {}
Room(o)      == Len(obj[o].msgs) < Capacity

ByName       == {"file", "sock"}
\* IPC_RMID by number; shm_unlink and unlink by name.
RemoveOwn(s) == IF Named(s) THEN [name EXCEPT ![srv[s].kind] = None] ELSE name
Unlinked(n, k) == [n EXCEPT ![k] = None]

Leave(s, how) ==
  srv' = [srv EXCEPT ![s] = [NoServer EXCEPT !.at = how, !.kind = srv[s].kind,
                                             !.holds = srv[s].holds]]

-----------------------------------------------------------------------------
(* Servers.                                                                *)

Start(s, k) ==
  /\ srv[s].at = "off" /\ \A t \in 1..s-1 : srv[t].at # "off"
  /\ srv' = [srv EXCEPT ![s].at = "start", ![s].kind = k, ![s].start = now]
  /\ UNCHANGED <<now, name, obj, cli>>

\* shmget, msgget, shm_open: with IPC_CREAT or O_CREAT.
Open(s) ==
  LET k == srv[s].kind
      o == IF name[k] = None THEN s ELSE name[k]
  IN  /\ srv[s].at = "start" /\ k # "sock"
      /\ name' = [name EXCEPT ![k] = o]
      /\ srv' = [srv EXCEPT ![s].at = "opened", ![s].holds = o]
      /\ UNCHANGED <<now, obj, cli>>

\* unixserver.c: the name of an earlier server is removed ...
Unlink(s) ==
  /\ srv[s].at = "start" /\ srv[s].kind = "sock"
  /\ name' = Unlinked(name, "sock")
  /\ srv' = [srv EXCEPT ![s].at = "opened"]
  /\ UNCHANGED <<now, obj, cli>>

\* ... and taken.  bind fails if another server has been faster, or for reasons
\* of the file system; that listen fails on a socket just bound is left out.
Bind(s) ==
  /\ srv[s].at = "opened" /\ srv[s].kind = "sock"
  /\ \/ Leave(s, "ended") /\ name' = name
     \/ /\ name["sock"] = None
        /\ name' = [name EXCEPT !["sock"] = s]
        /\ srv' = [srv EXCEPT ![s].at = "loop", ![s].holds = s]
  /\ UNCHANGED <<now, obj, cli>>

OpenFails(s) ==
  /\ srv[s].at = "start"
  /\ Leave(s, "ended")
  /\ UNCHANGED <<now, name, obj, cli>>

\* The number is assigned; then shmat, nothing, or ftruncate and mmap.  A signal
\* between the two removes a segment that the model, in one step, leaves.
Attach(s) ==
  LET o == srv[s].holds
  IN  /\ srv[s].at = "opened" /\ srv[s].kind # "sock"
      /\ srv[s].kind = "shm" => SegmentThere(o)
      /\ srv' = [srv EXCEPT ![s].at = "loop"]
      /\ obj' = IF srv[s].kind = "file" THEN [obj EXCEPT ![o].sized = TRUE] ELSE obj
      /\ UNCHANGED <<now, name, cli>>

\* shmat fails and the segment stays; ftruncate or mmap fails and the file is
\* unlinked.
AttachFails(s) ==
  /\ srv[s].at = "opened" /\ srv[s].kind \in {"shm", "file"}
  /\ IF srv[s].kind = "shm"
     THEN Leave(s, "left") /\ UNCHANGED <<name, obj>>
     ELSE /\ Leave(s, "ended") /\ name' = Unlinked(name, "file")
          /\ obj' \in {obj, [obj EXCEPT ![srv[s].holds].sized = TRUE]}
  /\ UNCHANGED <<now, cli>>

\* Mutant: a second too late.
DueLate(s) == now - srv[s].start > srv[s].time + 1

\* The test of update()
Due(s) == now - srv[s].start > srv[s].time

\* Mutant: only a change of the working time is passed on.
UpdateTime(s) ==
  /\ srv[s].at = "loop" /\ srv[s].kind # "sock" /\ Due(s)
  /\ LET t == now - srv[s].start
         o == srv[s].holds
     IN  IF srv[s].kind = "msg"
         THEN /\ srv' = [srv EXCEPT ![s].time = t, ![s].at = "send"]
              /\ UNCHANGED obj
         ELSE /\ srv' = [srv EXCEPT ![s].time = t, ![s].at = "copy",
                                    ![s].todo = {"time"}]
              /\ obj' = [obj EXCEPT ![o].hist = Append(@, <<s, t>>)]
  /\ UNCHANGED <<now, name, cli>>

\* update() and the beginning of memcpy or msgsnd.
Update(s) ==
  /\ srv[s].at = "loop" /\ srv[s].kind # "sock" /\ Due(s)
  /\ LET t == now - srv[s].start
         o == srv[s].holds
     IN  IF srv[s].kind = "msg"
         THEN /\ srv' = [srv EXCEPT ![s].time = t, ![s].at = "send"]
              /\ UNCHANGED obj
         ELSE /\ srv' = [srv EXCEPT ![s].time = t, ![s].at = "copy",
                                    ![s].todo = Fields]
              /\ obj' = [obj EXCEPT ![o].hist = Append(@, <<s, t>>)]
  /\ UNCHANGED <<now, name, cli>>

\* getloadavg fails: server.c removes everything any kind of it may hold,
\* unixserver.c nothing.
LoadFails(s) ==
  /\ srv[s].at = IF srv[s].kind = "sock" THEN "serve" ELSE "loop"
  /\ Due(s)
  /\ IF srv[s].kind = "sock" THEN Leave(s, "left") /\ name' = name
     ELSE Leave(s, "unread") /\ name' = Unlinked(RemoveOwn(s), "file")
  /\ UNCHANGED <<now, obj, cli>>

\* memcpy, in an order of its own.
Copy(s, f) ==
  /\ srv[s].at = "copy" /\ f \in srv[s].todo
  /\ obj' = [obj EXCEPT ![srv[s].holds].mem[f] = srv[s].time,
                        ![srv[s].holds].whole = IF srv[s].todo = {f} THEN @ + 1 ELSE @]
  /\ srv' = [srv EXCEPT ![s].todo = @ \ {f},
                        ![s].at = IF srv[s].todo = {f} THEN "loop" ELSE "copy"]
  /\ UNCHANGED <<now, name, cli>>

\* msgsnd waits for room, and fails when the queue is removed.
Send(s) ==
  /\ srv[s].at = "send"
  /\ \/ /\ ~Named(s)
        /\ Leave(s, "ended")
        /\ UNCHANGED obj
     \/ /\ Named(s) /\ Room(srv[s].holds)
        /\ srv' = [srv EXCEPT ![s].at = "loop"]
        /\ obj' = [obj EXCEPT ![srv[s].holds].msgs = Append(@, srv[s].time)]
  /\ UNCHANGED <<now, name, cli>>

Accept(s) ==
  LET waiting == obj[s].msgs
  IN  /\ srv[s].at = "loop" /\ srv[s].kind = "sock" /\ waiting # <<>>
      /\ srv' = [srv EXCEPT ![s].at = "serve", ![s].conn = Head(waiting)]
      /\ obj' = [obj EXCEPT ![s].msgs = Tail(@)]
      /\ UNCHANGED <<now, name, cli>>

\* Mutant: the client is neither answered nor hung up on.
ServeNothing(s) ==
  /\ srv[s].at = "serve" /\ Due(s)
  /\ srv' = [srv EXCEPT ![s].at = "loop", ![s].conn = None, ![s].time = now - srv[s].start]
  /\ UNCHANGED <<now, name, obj, cli>>

\* The next second has come: the client is answered.  If it has left, the
\* write raises SIGPIPE, which ends the server like any other signal.
Serve(s) ==
  /\ srv[s].at = "serve" /\ Due(s)
  /\ IF srv[s].conn = None
     THEN Leave(s, "ended") /\ name' = Unlinked(name, "sock") /\ cli' = cli
     ELSE /\ srv' = [srv EXCEPT ![s].at = "loop", ![s].conn = None,
                                ![s].time = now - srv[s].start]
          /\ cli' = [cli EXCEPT ![srv[s].conn] = NoClient]
          /\ name' = name
  /\ UNCHANGED <<now, obj>>

\* SIGUSR1 prints, and a msgsnd that waits is not restarted.  Everywhere else
\* nothing but the output shows it.
Interrupted(s) ==
  /\ srv[s].at = "send" /\ Named(s) /\ ~Room(srv[s].holds)
  /\ name' = RemoveOwn(s)
  /\ Leave(s, "ended")
  /\ UNCHANGED <<now, obj, cli>>

\* Mutant: whatever the key stands for is removed.
HandleByKey(s) ==
  /\ Runs(s)
  /\ name' = [name EXCEPT ![srv[s].kind] = None]
  /\ Leave(s, "ended")
  /\ UNCHANGED <<now, obj, cli>>

\* Mutant: the object is left to the system.
HandleKeep(s) ==
  /\ Runs(s)
  /\ Leave(s, "ended")
  /\ UNCHANGED <<now, name, obj, cli>>

\* Any other signal.  A name is unlinked wherever the server is; a segment or
\* a queue is removed by its number, which may not be known yet.
Handle(s) ==
  /\ Runs(s)
  /\ IF srv[s].kind \in ByName
     THEN Leave(s, "ended") /\ name' = Unlinked(name, srv[s].kind)
     ELSE IF srv[s].at = "opened" THEN Leave(s, "left") /\ name' = name
     ELSE Leave(s, "ended") /\ name' = RemoveOwn(s)
  /\ UNCHANGED <<now, obj, cli>>

\* SIGKILL, which no handler sees.
Kill(s) ==
  /\ Runs(s)
  /\ Leave(s, "killed")
  /\ UNCHANGED <<now, name, obj, cli>>

-----------------------------------------------------------------------------
(* Clients.                                                                *)

Returns(c) == cli' = [cli EXCEPT ![c] = NoClient]

\* Without an object of its kind the client ends.
ClientOpen(c, k) ==
  /\ cli[c].at = "off" /\ name[k] # None /\ k # "sock"
  /\ cli' = [cli EXCEPT ![c] = [NoClient EXCEPT !.at = "opened", !.kind = k,
                                                !.from = name[k]]]
  /\ UNCHANGED <<now, name, obj, srv>>

\* unixclient.c: connect, refused when the server is gone, held up when too
\* many wait; then read.
Connect(c) ==
  LET o == name["sock"]
  IN  /\ cli[c].at = "off" /\ o # None /\ Runs(o) /\ Room(o)
      /\ cli' = [cli EXCEPT ![c] = [NoClient EXCEPT !.at = "wait", !.from = o]]
      /\ obj' = [obj EXCEPT ![o].msgs = Append(@, c)]
      /\ UNCHANGED <<now, name, srv>>

\* The connection ends with the server.
HungUp(c) ==
  /\ cli[c].at = "wait" /\ ~Runs(cli[c].from)
  /\ Returns(c)
  /\ UNCHANGED <<now, name, obj, srv>>

\* The client is killed while it waits.
Abandon(c) ==
  LET o == cli[c].from
  IN  /\ cli[c].at = "wait" /\ Runs(o)
      /\ Returns(c)
      /\ obj' = [obj EXCEPT ![o].msgs = [i \in DOMAIN @ |-> IF @[i] = c THEN None ELSE @[i]]]
      /\ srv' = IF srv[o].conn = c THEN [srv EXCEPT ![o].conn = None] ELSE srv
      /\ UNCHANGED <<now, name>>

\* shmat or mmap
ClientAttach(c) ==
  LET o == cli[c].from
  IN  /\ cli[c].at = "opened" /\ cli[c].kind # "msg"
      /\ IF cli[c].kind = "shm" /\ ~SegmentThere(o) THEN Returns(c)
         ELSE cli' = [cli EXCEPT ![c].at = "time", ![c].since = obj[o].whole]
      /\ UNCHANGED <<now, name, obj, srv>>

\* The time is printed before the load.  A file without its size has no memory
\* behind the mapping.
ClientRead(c, f) ==
  LET o == cli[c].from
  IN  /\ cli[c].at = f
      /\ IF f = "load" \/ (cli[c].kind = "file" /\ ~obj[o].sized) THEN Returns(c)
         ELSE cli' = [cli EXCEPT ![c].at = "load", ![c].time = obj[o].mem[f]]
      /\ UNCHANGED <<now, name, obj, srv>>

\* msgrcv with IPC_NOWAIT: the oldest message, once, if there is one.
ClientTake(c) ==
  LET o == cli[c].from
  IN  /\ cli[c].at = "opened" /\ cli[c].kind = "msg"
      /\ Returns(c)
      /\ obj' = IF name["msg"] # o \/ obj[o].msgs = <<>> THEN obj
                ELSE [obj EXCEPT ![o].msgs = Tail(@)]
      /\ UNCHANGED <<now, name, srv>>

-----------------------------------------------------------------------------
\* The clock counts from the start of the first server.
SetClock(t) ==
  /\ \E s \in Servers : srv[s].at # "off"
  /\ now' = t
  /\ UNCHANGED <<name, obj, srv, cli>>

Tick    == now < MaxTime /\ SetClock(now + 1)
SetBack == now > 0 /\ SetClock(now - 1)

Step(s) ==
  \/ Open(s) \/ Unlink(s) \/ Bind(s) \/ OpenFails(s) \/ Attach(s)
  \/ AttachFails(s) \/ Accept(s) \/ Serve(s)
  \/ Update(s) \/ LoadFails(s) \/ (\E f \in Fields : Copy(s, f)) \/ Send(s)

Signal(s) == Interrupted(s) \/ Handle(s) \/ Kill(s)

ClientStep(c) ==
  \/ HungUp(c) \/ ClientAttach(c) \/ ClientTake(c) \/ \E f \in Fields : ClientRead(c, f)

Next ==
  \/ Tick \/ SetBack
  \/ \E s \in Servers : Step(s) \/ Signal(s) \/ \E k \in Kinds : Start(s, k)
  \/ \E c \in Clients : ClientStep(c) \/ Connect(c) \/ Abandon(c)
                           \/ \E k \in Kinds : ClientOpen(c, k)

\* Processes run; nobody need start a client, send a signal or move the clock.
Fairness == /\ \A s \in Servers : WF_vars(Step(s))
            /\ \A c \in Clients : WF_vars(ClientStep(c))

Spec == Init /\ [][Next]_vars /\ Fairness

-----------------------------------------------------------------------------
(* Correctness.                                                            *)

Writers(o) == {obj[o].hist[i][1] : i \in DOMAIN obj[o].hist}

\* The update that wrote t, or 0 for memory nobody has written.
Position(o, t) ==
  IF t = 0 THEN 0 ELSE CHOOSE i \in DOMAIN obj[o].hist : obj[o].hist[i][2] = t

\* client.c:50-55 reads without a lock what server.c:138 and 228 write without
\* one.  As long as one server writes, what is printed is at least as new as
\* the last update that was complete when the client attached, and the load,
\* read last, is at most one update behind the time.
ReadsRegular ==
  [][\A c \in Clients, f \in Fields :
       LET o == cli[c].from
           p == Position(o, obj[o].mem[f])
       IN  ClientRead(c, f) /\ Cardinality(Writers(o)) = 1 =>
             /\ p >= cli[c].since
             /\ f = "load" => p >= Position(o, cli[c].time) - 1]_vars

\* When no server runs any more, what is still there under the key or the name
\* was left by one that was killed, that ended before it knew the number of its
\* segment or queue (server.c:118, 158) or because shmat failed (123, where the
\* number is known and not used), or whose socket stays when the load cannot be
\* read (unixserver.c:29).
NothingLeft ==
  (\A s \in Servers : ~Runs(s)) =>
    \A k \in Kinds : name[k] # None =>
      \E s \in Servers : /\ srv[s].kind = k /\ srv[s].holds = name[k]
                         /\ srv[s].at \in {"killed", "left"}

\* A server that clients cannot find any more lost its object to another: with
\* segments and queues to one that held the same object and has ended, with
\* names to any that has used the name, or, for the file, that could not read
\* the load, whatever its kind (server.c:44, 193; unixserver.c:48, 77).
OrphanedByPeer ==
  \A s \in Servers :
    srv[s].at \in {"loop", "copy", "send", "serve"} /\ ~Named(s) =>
      \E t \in Servers \ {s} :
        CASE srv[s].kind = "sock" -> srv[t].kind = "sock"
          [] srv[s].kind = "file" ->
               (srv[t].kind = "file" /\ ~Runs(t)) \/ srv[t].at = "unread"
          [] OTHER -> srv[t].holds = srv[s].holds /\ srv[t].at \in {"ended", "unread"}

\* Nobody waits for ever for what has happened: a server is in msgsnd only
\* while its queue is there and full, and a client of a socket is kept only
\* while its server, alone with the clock, waits for the next second.
WaitsEnd ==
  /\ \A s \in Servers :
       []<>(srv[s].at = "send" => Named(s) /\ ~Room(srv[s].holds))
  /\ \A c \in Clients :
       []<>(cli[c].at = "wait" => srv[cli[c].from].at = "serve" /\ ~Due(cli[c].from))

\* A server that writes to memory which no other one has written to.
WritesAlone(s) ==
  /\ srv[s].at \in {"loop", "copy"} /\ srv[s].kind \in {"shm", "file"}
  /\ Writers(srv[s].holds) \subseteq {s}

\* No working time t that the clock has reached stays out of the memory for
\* ever: in the end time and load have both been copied at t or later, unless
\* the clock is set back below t first, the server ends or another one writes
\* too.  Each t is followed by itself, so the bound of the clock does not help.
\* After the clock was set back nothing is asked for the seconds up to the one
\* shown already: update() keeps the later time until the clock has passed it
\* (server.c:36), and those seconds are never shown.
SecondShown ==
  \A s \in Servers, t \in 1..MaxTime :
    []<>(WritesAlone(s) /\ now - srv[s].start >= t
         => \A f \in Fields : obj[srv[s].holds].mem[f] >= t)
=============================================================================
