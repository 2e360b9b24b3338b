----------------------------- MODULE WorkerPool -----------------------------
(***************************************************************************)
(* The thread pool of lab6/server.c: the main thread accepts clients, puts *)
(* them on a linked queue and signals a condition variable; N workers (up  *)
(* to K under load) wait on it, take a client and serve it.                *)
(*                                                                         *)
(* One action is one access to memory the threads share.  A section under  *)
(* free_workers_count_mutex or pool_size_mutex is one action: both locks   *)
(* are taken and released in pairs around the counter alone.  The queue is *)
(* not treated so, because a worker calls pthread_cond_wait without        *)
(* holding queue_mutex: the C library releases whatever lock is there, so  *)
(* the sections of two threads can overlap, load by load and store by      *)
(* store (the Makefile builds with -O0).                                   *)
(*                                                                         *)
(* The node that queue_enqueue allocates for the c-th client is called c,  *)
(* and memory that was freed is not handed out again.                      *)
(***************************************************************************)
EXTENDS Integers, FiniteSets

CONSTANTS
  N,           \* first argument: workers started at boot, and kept
  K,           \* second argument: limit of the pool
  Workers,     \* identities of worker threads (a slot is reused after exit)
  MaxClients   \* bound: connections accepted in a behaviour

ASSUME PoolAssumption ==
  /\ N \in Nat /\ K \in Nat
  /\ 1 <= N /\ N <= 20 /\ N <= K
ASSUME WorkersAssumption ==
  IsFiniteSet(Workers) /\ "main" \notin Workers /\ "free" \notin Workers
ASSUME ClientsAssumption == MaxClients \in Nat

Clients == 1..MaxClients
NULL    == 0          \* the null pointer
NoFd    == -1         \* what queue_dequeue returns for an empty queue
Junk    == 0          \* an elem field that nobody has assigned
Main    == "main"     \* the main thread as a holder of queue_mutex
Free    == "free"     \* queue_mutex unlocked

VARIABLES
  mpc,                 \* program counter of main
  accepted,            \* clients accepted so far; the last one is main's fd
  wpc,                 \* program counter of each worker
  fd,                  \* worker's local variable client
  queue_mutex,         \* the thread that locked it last, or Free
  head, tail,          \* the queue header
  next,                \* the tail field of each node (its successor)
  allocated,           \* nodes allocated and not freed
  assigned,            \* nodes whose elem field has been written
  free_workers_count,
  pool_size,
  stolen,              \* history: a wait released a lock another thread held
  heard,               \* history: a signal for the last client woke a worker
  fault,               \* an invalid pointer was dereferenced or freed
  exited               \* cleanup() ended the process

mainVars   == <<mpc, accepted>>
workerVars == <<wpc, fd>>
queueVars  == <<head, tail, next, allocated, assigned>>
countVars  == <<free_workers_count, pool_size>>
ghostVars  == <<stolen, heard>>
endVars    == <<fault, exited>>
vars == <<mainVars, workerVars, queue_mutex, queueVars, countVars, ghostVars,
          endVars>>

MainLocations ==
  {"boot", "accept", "lock", "enqueue", "first_head", "first_tail",
   "first_test", "first_elem", "link", "link_elem", "advance", "unlock",
   "check_free", "check_pool", "create", "signal", "signal_again"}

WorkerLocations ==
  {"dead", "ready", "wait", "asleep", "relock", "dequeue", "read", "read_link",
   "free", "unlink", "reset_tail", "unlock", "check_size", "engage", "serve",
   "leave"}

\* Locations at which a thread is inside queue_enqueue or queue_dequeue, or
\* about to leave it, and so believes it holds queue_mutex.
MainInQueue   == {"enqueue", "first_head", "first_tail", "first_test",
                  "first_elem", "link", "link_elem", "advance", "unlock"}
WorkerInQueue == {"dequeue", "read", "read_link", "free", "unlink",
                  "reset_tail", "unlock"}

\* A worker counted in free_workers_count: between the increment at the top
\* of its loop and the decrement that precedes serving or exiting.
Counted == {"wait", "asleep", "relock", "check_size", "engage", "leave"}
             \cup WorkerInQueue
\* A worker counted in pool_size: a thread that has not decided to leave.
Members == WorkerLocations \ {"dead", "leave"}

WorkersAt(L) == {w \in Workers : wpc[w] \in L}

Init ==
  /\ mpc = "boot" /\ accepted = 0
  /\ wpc = [w \in Workers |-> "dead"]
  /\ fd = [w \in Workers |-> NoFd]
  /\ queue_mutex = Free
  /\ head = NULL /\ tail = NULL
  /\ next = [c \in Clients |-> NULL]
  /\ allocated = {} /\ assigned = {}
  /\ free_workers_count = 0 /\ pool_size = 0
  /\ stolen = FALSE /\ heard = FALSE
  /\ fault = FALSE /\ exited = FALSE

Running == ~fault /\ ~exited

MainGoes(from, to) ==
  /\ Running
  /\ mpc = from
  /\ mpc' = to

WorkerGoes(w, from, to) ==
  /\ Running
  /\ wpc[w] = from
  /\ wpc' = [wpc EXCEPT ![w] = to]

-----------------------------------------------------------------------------
(* The main thread: main(), service_client() and queue_enqueue().          *)

\* pthread_create gives the new thread a free slot; it starts at the top of
\* worker().
Spawn ==
  \E w \in Workers :
    /\ wpc[w] = "dead"
    /\ wpc' = [wpc EXCEPT ![w] = "ready"]

\* for (i = 0; i < n; ++i) pthread_create(...): no worker leaves while
\* pool_size is still 0, so the live ones are those created so far.
Boot ==
  /\ MainGoes("boot", "boot")
  /\ Cardinality(WorkersAt(Members)) < N
  /\ Spawn
  /\ UNCHANGED <<accepted, fd, queue_mutex, queueVars, countVars, ghostVars,
                 endVars>>

\* pool_size is assigned only after the workers are running, then the
\* listening socket is made.
SetPoolSize ==
  /\ MainGoes("boot", "accept")
  /\ Cardinality(WorkersAt(Members)) = N
  /\ pool_size' = N
  /\ UNCHANGED <<accepted, workerVars, queue_mutex, queueVars,
                 free_workers_count, ghostVars, endVars>>

Accept ==
  /\ MainGoes("accept", "lock")
  /\ accepted < MaxClients
  /\ accepted' = accepted + 1
  /\ heard' = FALSE
  /\ UNCHANGED <<workerVars, queue_mutex, queueVars, countVars, stolen, endVars>>

LockQueue ==
  /\ MainGoes("lock", "enqueue")
  /\ queue_mutex = Free
  /\ queue_mutex' = Main
  /\ UNCHANGED <<accepted, workerVars, queueVars, countVars, ghostVars, endVars>>

EnqueueTest ==
  /\ MainGoes("enqueue", IF tail = NULL THEN "first_head" ELSE "link")
  /\ UNCHANGED <<accepted, workerVars, queue_mutex, queueVars, countVars,
                 ghostVars, endVars>>

\* q->tail = q->head = queue_init(): the inner assignment ...
FirstHead ==
  /\ MainGoes("first_head", "first_tail")
  /\ head' = accepted
  /\ allocated' = allocated \cup {accepted}
  /\ UNCHANGED <<accepted, workerVars, queue_mutex, tail, next, assigned,
                 countVars, ghostVars, endVars>>

\* ... and the outer one.
FirstTail ==
  /\ MainGoes("first_tail", "first_test")
  /\ tail' = accepted
  /\ UNCHANGED <<accepted, workerVars, queue_mutex, head, next, allocated,
                 assigned, countVars, ghostVars, endVars>>

\* if (NULL == q->tail) return: reads q->tail again.
FirstTest ==
  /\ MainGoes("first_test", IF tail = NULL THEN "unlock" ELSE "first_elem")
  /\ UNCHANGED <<accepted, workerVars, queue_mutex, queueVars, countVars,
                 ghostVars, endVars>>

\* Mutant: enqueue forgets to store the element of the first node.
FirstElemUnset ==
  /\ MainGoes("first_elem", "unlock")
  /\ tail \in allocated
  /\ UNCHANGED <<accepted, workerVars, queue_mutex, queueVars, countVars,
                 ghostVars, endVars>>

FirstElem ==
  /\ MainGoes("first_elem", "unlock")
  /\ tail \in allocated
  /\ assigned' = assigned \cup {tail}
  /\ UNCHANGED <<accepted, workerVars, queue_mutex, head, tail, next, allocated,
                 countVars, ghostVars, endVars>>

\* q->tail->tail = queue_init()
Link ==
  /\ MainGoes("link", "link_elem")
  /\ tail \in allocated
  /\ next' = [next EXCEPT ![tail] = accepted]
  /\ allocated' = allocated \cup {accepted}
  /\ UNCHANGED <<accepted, workerVars, queue_mutex, head, tail, assigned,
                 countVars, ghostVars, endVars>>

\* q->tail->tail->elem = e
LinkElem ==
  /\ MainGoes("link_elem", "advance")
  /\ tail \in allocated
  /\ assigned' = assigned \cup {next[tail]}
  /\ UNCHANGED <<accepted, workerVars, queue_mutex, head, tail, next, allocated,
                 countVars, ghostVars, endVars>>

\* q->tail = q->tail->tail
Advance ==
  /\ MainGoes("advance", "unlock")
  /\ tail \in allocated
  /\ tail' = next[tail]
  /\ UNCHANGED <<accepted, workerVars, queue_mutex, head, next, allocated,
                 assigned, countVars, ghostVars, endVars>>

\* Mutant: main forgets to unlock the queue.
UnlockQueueForgotten ==
  /\ MainGoes("unlock", "check_free")
  /\ UNCHANGED <<accepted, workerVars, queue_mutex, queueVars, countVars,
                 ghostVars, endVars>>

\* The library does not ask who locked the mutex it unlocks.
UnlockQueue ==
  /\ MainGoes("unlock", "check_free")
  /\ queue_mutex' = Free
  /\ UNCHANGED <<accepted, workerVars, queueVars, countVars, ghostVars, endVars>>

CheckFree ==
  /\ MainGoes("check_free",
              IF free_workers_count = 0 THEN "check_pool" ELSE "signal")
  /\ UNCHANGED <<accepted, workerVars, queue_mutex, queueVars, countVars,
                 ghostVars, endVars>>

GrowPool ==
  /\ MainGoes("check_pool", "create")
  /\ pool_size < K
  /\ pool_size' = pool_size + 1
  /\ UNCHANGED <<accepted, workerVars, queue_mutex, queueVars,
                 free_workers_count, ghostVars, endVars>>

PoolFull ==
  /\ MainGoes("check_pool", "signal")
  /\ pool_size >= K
  /\ UNCHANGED <<accepted, workerVars, queue_mutex, queueVars, countVars,
                 ghostVars, endVars>>

CreateWorker ==
  /\ MainGoes("create", "signal")
  /\ Spawn
  /\ UNCHANGED <<accepted, fd, queue_mutex, queueVars, countVars, ghostVars,
                 endVars>>

\* pthread_cond_signal wakes one of the sleeping workers, if there is one;
\* otherwise it leaves no trace.
WakeOne ==
  \/ \E w \in Workers :
       /\ wpc[w] = "asleep"
       /\ wpc' = [wpc EXCEPT ![w] = "relock"]
       /\ heard' = TRUE
  \/ /\ WorkersAt({"asleep"}) = {}
     /\ UNCHANGED <<wpc, heard>>

Signal ==
  /\ MainGoes("signal", "signal_again")
  /\ WakeOne
  /\ UNCHANGED <<accepted, fd, queue_mutex, queueVars, countVars, stolen,
                 endVars>>

\* sched_yield() and the second pthread_cond_signal.
SignalAgain ==
  /\ MainGoes("signal_again", "accept")
  /\ WakeOne
  /\ UNCHANGED <<accepted, fd, queue_mutex, queueVars, countVars, stolen,
                 endVars>>

-----------------------------------------------------------------------------
(* A worker: worker() and queue_dequeue().                                 *)

BecomeFree(w) ==
  /\ WorkerGoes(w, "ready", "wait")
  /\ free_workers_count' = free_workers_count + 1
  /\ UNCHANGED <<mainVars, fd, queue_mutex, queueVars, pool_size, ghostVars,
                 endVars>>

\* pthread_cond_wait(&client_came, &queue_mutex), entered without the lock:
\* the worker goes to sleep and the mutex is released, whoever held it.
CondWait(w) ==
  /\ WorkerGoes(w, "wait", "asleep")
  /\ queue_mutex' = Free
  /\ stolen' = (stolen \/ queue_mutex # Free)
  /\ UNCHANGED <<mainVars, fd, queueVars, countVars, heard, endVars>>

\* POSIX lets a wait return although nobody signalled.
WakeSpuriously(w) ==
  /\ WorkerGoes(w, "asleep", "relock")
  /\ UNCHANGED <<mainVars, fd, queue_mutex, queueVars, countVars, ghostVars,
                 endVars>>

\* Mutant: the wait returns without taking the mutex back.
RelockNothing(w) ==
  /\ WorkerGoes(w, "relock", "dequeue")
  /\ UNCHANGED <<mainVars, fd, queue_mutex, queueVars, countVars, ghostVars,
                 endVars>>

\* pthread_cond_wait returns with the mutex locked.
Relock(w) ==
  /\ WorkerGoes(w, "relock", "dequeue")
  /\ queue_mutex = Free
  /\ queue_mutex' = w
  /\ UNCHANGED <<mainVars, fd, queueVars, countVars, ghostVars, endVars>>

\* Mutant: a queue of one node is taken for an empty one.
DequeueEmptyOffByOne(w) ==
  /\ WorkerGoes(w, "dequeue", "unlock")
  /\ head = tail
  /\ fd' = [fd EXCEPT ![w] = NoFd]
  /\ UNCHANGED <<mainVars, queue_mutex, queueVars, countVars, ghostVars, endVars>>

DequeueEmpty(w) ==
  /\ WorkerGoes(w, "dequeue", "unlock")
  /\ head = NULL
  /\ fd' = [fd EXCEPT ![w] = NoFd]
  /\ UNCHANGED <<mainVars, queue_mutex, queueVars, countVars, ghostVars, endVars>>

DequeueTest(w) ==
  /\ WorkerGoes(w, "dequeue", "read")
  /\ head # NULL
  /\ UNCHANGED <<mainVars, fd, queue_mutex, queueVars, countVars, ghostVars,
                 endVars>>

\* e = q->head->elem.  The field of a node that is not assigned yet has what
\* its memory had before: Junk, or the client of a node freed earlier.
ReadElem(w) ==
  /\ WorkerGoes(w, "read", "read_link")
  /\ head \in allocated
  /\ \E e \in IF head \in assigned THEN {head} ELSE {Junk} \cup 1..(head - 1) :
       fd' = [fd EXCEPT ![w] = e]
  /\ UNCHANGED <<mainVars, queue_mutex, queueVars, countVars, ghostVars, endVars>>

\* new_head = q->head->head: NULL in every node, for no one ever sets it.
ReadLink(w) ==
  /\ WorkerGoes(w, "read_link", "free")
  /\ head \in allocated
  /\ UNCHANGED <<mainVars, fd, queue_mutex, queueVars, countVars, ghostVars,
                 endVars>>

\* free(q->head): freeing the null pointer does nothing.
FreeHead(w) ==
  /\ WorkerGoes(w, "free", "unlink")
  /\ head = NULL \/ head \in allocated
  /\ allocated' = allocated \ {head}
  /\ UNCHANGED <<mainVars, fd, queue_mutex, head, tail, next, assigned,
                 countVars, ghostVars, endVars>>

\* q->head = new_head: NULL, even when the node had a successor.
Unlink(w) ==
  /\ WorkerGoes(w, "unlink", "reset_tail")
  /\ head' = NULL
  /\ UNCHANGED <<mainVars, fd, queue_mutex, tail, next, allocated, assigned,
                 countVars, ghostVars, endVars>>

\* Mutant: the tail of an emptied queue is left behind.
ResetTailForgotten(w) ==
  /\ WorkerGoes(w, "reset_tail", "unlock")
  /\ UNCHANGED <<mainVars, fd, queue_mutex, queueVars, countVars, ghostVars,
                 endVars>>

\* if (NULL == q->head) q->tail = NULL
ResetTail(w) ==
  /\ WorkerGoes(w, "reset_tail", "unlock")
  /\ tail' = IF head = NULL THEN NULL ELSE tail
  /\ UNCHANGED <<mainVars, fd, queue_mutex, head, next, allocated, assigned,
                 countVars, ghostVars, endVars>>

UnlockDequeued(w) ==
  /\ WorkerGoes(w, "unlock", IF fd[w] = NoFd THEN "check_size" ELSE "engage")
  /\ queue_mutex' = Free
  /\ UNCHANGED <<mainVars, fd, queueVars, countVars, ghostVars, endVars>>

\* Mutant: the worker leaves without uncounting itself from the pool.
ShrinkPoolUncounted(w) ==
  /\ WorkerGoes(w, "check_size", "leave")
  /\ pool_size > N
  /\ UNCHANGED <<mainVars, fd, queue_mutex, queueVars, countVars, ghostVars,
                 endVars>>

\* Mutant: the pool shrinks below its least size.
ShrinkPoolBelow(w) ==
  /\ WorkerGoes(w, "check_size", "leave")
  /\ pool_size >= N
  /\ pool_size' = pool_size - 1
  /\ UNCHANGED <<mainVars, fd, queue_mutex, queueVars, free_workers_count,
                 ghostVars, endVars>>

\* The queue was empty and the pool is larger than N: the worker leaves.
ShrinkPool(w) ==
  /\ WorkerGoes(w, "check_size", "leave")
  /\ pool_size > N
  /\ pool_size' = pool_size - 1
  /\ UNCHANGED <<mainVars, fd, queue_mutex, queueVars, free_workers_count,
                 ghostVars, endVars>>

\* Otherwise it goes on to serve descriptor -1.
KeepWorker(w) ==
  /\ WorkerGoes(w, "check_size", "engage")
  /\ pool_size <= N
  /\ UNCHANGED <<mainVars, fd, queue_mutex, queueVars, countVars, ghostVars,
                 endVars>>

\* Mutant: a worker that engages is uncounted twice.
EngageTwice(w) ==
  /\ WorkerGoes(w, "engage", "serve")
  /\ free_workers_count' = free_workers_count - 2
  /\ UNCHANGED <<mainVars, fd, queue_mutex, queueVars, pool_size, ghostVars,
                 endVars>>

Engage(w) ==
  /\ WorkerGoes(w, "engage", "serve")
  /\ free_workers_count' = free_workers_count - 1
  /\ UNCHANGED <<mainVars, fd, queue_mutex, queueVars, pool_size, ghostVars,
                 endVars>>

\* do_work(client) and close(client); DirSession has the conversation.
Serve(w) ==
  /\ WorkerGoes(w, "serve", "ready")
  /\ fd' = [fd EXCEPT ![w] = NoFd]
  /\ UNCHANGED <<mainVars, queue_mutex, queueVars, countVars, ghostVars, endVars>>

\* Mutant: a worker that leaves stays counted as free.
LeaveCounted(w) ==
  /\ WorkerGoes(w, "leave", "dead")
  /\ UNCHANGED <<mainVars, fd, queue_mutex, queueVars, countVars, ghostVars,
                 endVars>>

Leave(w) ==
  /\ WorkerGoes(w, "leave", "dead")
  /\ free_workers_count' = free_workers_count - 1
  /\ UNCHANGED <<mainVars, fd, queue_mutex, queueVars, pool_size, ghostVars,
                 endVars>>

-----------------------------------------------------------------------------
(* The ends of the process.                                                *)

\* A thread follows q->tail or q->head and it is NULL or freed.  What comes
\* after is undefined, and the model stops there.
MainFault ==
  /\ Running
  /\ mpc \in {"first_elem", "link", "link_elem", "advance"}
  /\ tail \notin allocated
  /\ fault' = TRUE
  /\ UNCHANGED <<mainVars, workerVars, queue_mutex, queueVars, countVars,
                 ghostVars, exited>>

WorkerFault(w) ==
  /\ Running
  /\ \/ wpc[w] \in {"read", "read_link"}
     \/ wpc[w] = "free" /\ head # NULL
  /\ head \notin allocated
  /\ fault' = TRUE
  /\ UNCHANGED <<mainVars, workerVars, queue_mutex, queueVars, countVars,
                 ghostVars, exited>>

\* cleanup(): a signal, or a failed call of the main thread, at any moment.
\* It empties the queue and calls _exit, which ends every thread and closes
\* every descriptor: nothing is left, as before main().
Cleanup ==
  /\ Running
  /\ mpc' = "boot" /\ accepted' = 0
  /\ wpc' = [w \in Workers |-> "dead"]
  /\ fd' = [w \in Workers |-> NoFd]
  /\ queue_mutex' = Free
  /\ head' = NULL /\ tail' = NULL
  /\ next' = [c \in Clients |-> NULL]
  /\ allocated' = {} /\ assigned' = {}
  /\ free_workers_count' = 0 /\ pool_size' = 0
  /\ heard' = FALSE
  /\ exited' = TRUE
  /\ UNCHANGED <<stolen, fault>>

MainNext ==
  \/ Boot \/ SetPoolSize \/ Accept \/ LockQueue
  \/ EnqueueTest \/ FirstHead \/ FirstTail \/ FirstTest \/ FirstElem
  \/ Link \/ LinkElem \/ Advance \/ UnlockQueue
  \/ CheckFree \/ GrowPool \/ PoolFull \/ CreateWorker
  \/ Signal \/ SignalAgain \/ MainFault

WorkerRuns(w) ==
  \/ BecomeFree(w) \/ CondWait(w) \/ Relock(w)
  \/ DequeueEmpty(w) \/ DequeueTest(w) \/ ReadElem(w) \/ ReadLink(w)
  \/ FreeHead(w) \/ Unlink(w) \/ ResetTail(w) \/ UnlockDequeued(w)
  \/ ShrinkPool(w) \/ KeepWorker(w) \/ Engage(w) \/ Serve(w) \/ Leave(w)
  \/ WorkerFault(w)

Next ==
  \/ MainNext
  \/ \E w \in Workers : WorkerRuns(w) \/ WakeSpuriously(w)
  \/ Cleanup

Spec == Init /\ [][Next]_vars

\* Scheduling: a thread that can run goes on running, and one that keeps
\* trying for queue_mutex gets it.  Nothing is asked of Serve (a client may
\* stay silent for ever), of new clients or of spurious wakeups.
Fairness ==
  /\ WF_vars(MainNext /\ ~Accept)
  /\ SF_vars(LockQueue)
  /\ \A w \in Workers :
       /\ WF_vars(WorkerRuns(w) /\ wpc[w] # "serve")
       /\ SF_vars(Relock(w))

FairSpec == Spec /\ Fairness

-----------------------------------------------------------------------------
(* Correctness.                                                            *)

\* Every variable keeps its type; the counters never leave their ranges,
\* which for the size_t of the code means that they never wrap around.
TypeOK ==
  /\ mpc \in MainLocations
  /\ accepted \in 0..MaxClients
  /\ wpc \in [Workers -> WorkerLocations]
  /\ fd \in [Workers -> {NoFd} \cup 0..MaxClients]
  /\ queue_mutex \in Workers \cup {Main, Free}
  /\ head \in 0..MaxClients /\ tail \in 0..MaxClients
  /\ next \in [Clients -> 0..MaxClients]
  /\ allocated \subseteq Clients /\ assigned \subseteq 0..MaxClients
  /\ free_workers_count \in 0..Cardinality(Workers)
  /\ pool_size \in 0..K
  /\ stolen \in BOOLEAN /\ heard \in BOOLEAN
  /\ fault \in BOOLEAN /\ exited \in BOOLEAN

\* free_workers_count is the number of workers between their increment and
\* their decrement, whatever the interleaving of the two ways out of the
\* loop (serving and leaving) and however the queue was raced for.
FreeCountExact == free_workers_count = Cardinality(WorkersAt(Counted))

\* Past the boot, pool_size is the number of workers that have not decided
\* to leave, plus the one that main counted and has not created yet ...
PoolSizeExact ==
  mpc # "boot" =>
    pool_size = Cardinality(WorkersAt(Members))
                  + (IF mpc = "create" THEN 1 ELSE 0)

\* ... and the pool stays between its first argument and its second, although
\* main and any number of leaving workers test and change it in turn.
PoolWithinBounds == mpc # "boot" => pool_size \in N..K

\* While no wait has released somebody else's lock, the queue is in the hands
\* of the thread that holds queue_mutex, and of no other.
QueueOwned ==
  ~stolen =>
    /\ mpc \in MainInQueue => queue_mutex = Main
    /\ \A w \in Workers : wpc[w] \in WorkerInQueue => queue_mutex = w

\* While no wait has released somebody else's lock, enqueue and dequeue
\* follow no null or freed pointer.
NoWildPointer == ~stolen => ~fault

\* While no wait has released somebody else's lock, two workers never hold
\* the same client (who would read its requests from under each other and
\* close its descriptor twice).
ClientsExclusive ==
  ~stolen =>
    \A v, w \in Workers : v # w /\ fd[v] = fd[w] => fd[w] = NoFd

\* When main is back at accept and one of its signals woke somebody, a client
\* at the head of the queue has a worker on its way to take it: the wakeup
\* was not spent on a worker that saw an empty queue.  (This survives a stolen
\* lock.)
WakeupKept ==
  /\ heard /\ mpc = "accept" /\ head # NULL
  => \E w \in Workers : wpc[w] \in {"relock"} \cup (WorkerInQueue
                                                     \ {"reset_tail", "unlock"})

\* The main thread always comes back to accept: nobody keeps queue_mutex.
MainReturns == mpc # "accept" ~> (mpc = "accept" \/ fault \/ exited)

\* A client at the head of the queue whose signal woke a worker is taken.
WokenClientTaken ==
  \A c \in Clients :
    head = c /\ accepted = c /\ heard ~> (head # c \/ stolen \/ fault \/ exited)
=============================================================================
