-------------------------- MODULE WorkerPoolProofs --------------------------
(***************************************************************************)
(* Proofs about the thread pool of lab6/server.c, for every N, K, set of   *)
(* workers and number of clients: the counters are exact, the pool keeps   *)
(* its bounds, and as long as no wait has released a lock that another     *)
(* thread held, the queue is touched by one thread at a time, no wild      *)
(* pointer is followed and no client is handed out twice.                  *)
(***************************************************************************)
EXTENDS WorkerPool, FiniteSetTheorems, TLAPS

(***************************************************************************)
(* The inductive invariant.                                                *)
(***************************************************************************)

\* Main has a client in hand outside its boot and its accept; pool_size is
\* still 0 during the boot, so that no worker leaves.
MainOK ==
  /\ mpc \notin {"boot", "accept"} => accepted >= 1
  /\ mpc = "boot" => pool_size = 0

\* The pointers of the header at each step of the thread in the queue.
PointersOK ==
  /\ mpc = "first_head" => head = NULL /\ tail = NULL
  /\ mpc = "first_tail" => head = accepted /\ tail = NULL
  /\ mpc \in {"first_test", "first_elem"} => head = accepted /\ tail = accepted
  /\ mpc \in {"link", "link_elem", "advance"} => tail # NULL
  /\ mpc \in {"link_elem", "advance"} =>
       next[tail] = accepted /\ accepted \in allocated
  /\ \A w \in Workers :
       /\ wpc[w] \in {"read", "read_link", "free", "unlink"} => head # NULL
       /\ wpc[w] = "reset_tail" => head = NULL
  /\ \/ head = NULL <=> tail = NULL
     \/ mpc = "first_tail"
     \/ \E w \in Workers : wpc[w] = "reset_tail"

\* What the pointers refer to: live nodes, and a head whose element is set.
NodesOK ==
  /\ \/ head \in allocated \cup {NULL}
     \/ \E w \in Workers : wpc[w] = "unlink"
  /\ \/ tail \in allocated \cup {NULL}
     \/ \E w \in Workers : wpc[w] \in {"unlink", "reset_tail"}
  /\ \/ head \in assigned \cup {NULL}
     \/ mpc \in {"first_tail", "first_test", "first_elem"}

\* Clients leave the queue in the order they came: those that workers hold
\* came before the head, and the one main holds after all of them.
OrderOK ==
  /\ head <= accepted
  /\ \A w \in Workers :
       /\ fd[w] # NoFd => fd[w] \in 1..accepted
       /\ wpc[w] \notin {"read_link", "free", "unlink", "reset_tail", "unlock",
                         "engage", "serve"} => fd[w] = NoFd
       /\ wpc[w] \in {"read_link", "free", "unlink"} => fd[w] = head
       /\ head # NULL /\ wpc[w] \notin {"read_link", "free", "unlink"}
            => fd[w] < head
       /\ mpc \in {"lock", "enqueue", "first_head", "link"} => fd[w] < accepted
  /\ mpc \in {"lock", "enqueue", "first_head", "link"} => head < accepted

QueueOK ==
  ~stolen => ~fault /\ PointersOK /\ NodesOK /\ OrderOK

IInv ==
  /\ TypeOK /\ MainOK
  /\ FreeCountExact /\ PoolSizeExact /\ PoolWithinBounds
  /\ QueueOwned /\ QueueOK /\ ClientsExclusive

(***************************************************************************)
(* Counting threads.                                                       *)
(***************************************************************************)

LEMMA WorkersAtFinite ==
  ASSUME NEW CONSTANT L
  PROVE  /\ IsFiniteSet(WorkersAt(L))
         /\ Cardinality(WorkersAt(L)) \in 0..Cardinality(Workers)
<1>1. WorkersAt(L) \in SUBSET Workers
  BY DEF WorkersAt
<1>2. /\ IsFiniteSet(WorkersAt(L))
      /\ Cardinality(WorkersAt(L)) <= Cardinality(Workers)
  BY <1>1, WorkersAssumption, FS_Subset
<1> QED BY <1>2, WorkersAssumption, FS_CardinalityType

\* One worker goes from outside a set of locations into it ...
LEMMA CountEnter ==
  ASSUME NEW CONSTANT L, NEW w \in Workers, NEW to \in L,
         wpc \in [Workers -> WorkerLocations],
         wpc[w] \notin L, wpc' = [wpc EXCEPT ![w] = to]
  PROVE  Cardinality(WorkersAt(L)') = Cardinality(WorkersAt(L)) + 1
<1>1. WorkersAt(L)' = WorkersAt(L) \cup {w} /\ w \notin WorkersAt(L)
  BY DEF WorkersAt
<1> QED BY <1>1, WorkersAtFinite, FS_AddElement

\* ... or from inside it to outside ...
LEMMA CountLeave ==
  ASSUME NEW CONSTANT L, NEW w \in Workers, NEW to, to \notin L,
         wpc \in [Workers -> WorkerLocations],
         wpc[w] \in L, wpc' = [wpc EXCEPT ![w] = to]
  PROVE  Cardinality(WorkersAt(L)') = Cardinality(WorkersAt(L)) - 1
<1>1. WorkersAt(L)' = WorkersAt(L) \ {w} /\ w \in WorkersAt(L)
  BY DEF WorkersAt
<1> QED BY <1>1, WorkersAtFinite, FS_RemoveElement

\* ... or stays on its side of it.
LEMMA CountSame ==
  ASSUME NEW CONSTANT L, NEW w \in Workers, NEW to,
         to \in L <=> wpc[w] \in L,
         wpc \in [Workers -> WorkerLocations],
         wpc' = [wpc EXCEPT ![w] = to]
  PROVE  Cardinality(WorkersAt(L)') = Cardinality(WorkersAt(L))
<1>1. WorkersAt(L)' = WorkersAt(L)
  BY DEF WorkersAt
<1> QED BY <1>1

\* The locations on either side of each counted set.
LEMMA CountedLocations ==
  /\ {"wait", "asleep", "relock", "dequeue", "read", "read_link", "free",
      "unlink", "reset_tail", "unlock", "check_size", "engage", "leave"}
        \subseteq Counted
  /\ \A l \in {"dead", "ready", "serve"} : l \notin Counted
  /\ {"ready", "wait", "asleep", "relock", "dequeue", "read", "read_link",
      "free", "unlink", "reset_tail", "unlock", "check_size", "engage",
      "serve"} \subseteq Members
  /\ \A l \in {"dead", "leave"} : l \notin Members
BY DEF Counted, WorkerInQueue, Members, WorkerLocations

(***************************************************************************)
(* The end of the process: cleanup() leaves nothing behind.                *)
(***************************************************************************)

LEMMA CleanupStep ==
  ASSUME IInv, Cleanup
  PROVE  /\ FreeCountExact' /\ PoolSizeExact' /\ PoolWithinBounds'
         /\ MainOK' /\ QueueOwned' /\ ClientsExclusive' /\ ~fault'
         /\ PointersOK' /\ NodesOK' /\ OrderOK'
<1> USE PoolAssumption, WorkersAssumption, ClientsAssumption
<1>1. /\ mpc' = "boot" /\ accepted' = 0 /\ queue_mutex' = Free
      /\ wpc' = [w \in Workers |-> "dead"] /\ fd' = [w \in Workers |-> NoFd]
      /\ head' = NULL /\ tail' = NULL
      /\ free_workers_count' = 0 /\ pool_size' = 0 /\ ~fault'
  BY DEF Cleanup, Running
<1>2. WorkersAt(Counted)' = {} /\ WorkersAt(Members)' = {}
  BY <1>1, CountedLocations DEF WorkersAt
<1>3. Cardinality({}) = 0
  BY FS_EmptySet
<1>4. FreeCountExact' /\ PoolSizeExact' /\ PoolWithinBounds'
  BY <1>1, <1>2, <1>3 DEF FreeCountExact, PoolSizeExact, PoolWithinBounds
<1>5. MainOK' /\ QueueOwned' /\ ClientsExclusive'
  BY <1>1 DEF MainOK, QueueOwned, ClientsExclusive, MainInQueue, WorkerInQueue
<1>6. PointersOK' /\ NodesOK' /\ OrderOK'
  BY <1>1 DEF PointersOK, NodesOK, OrderOK, NULL, NoFd
<1> QED BY <1>1, <1>4, <1>5, <1>6

(***************************************************************************)
(* The counters.                                                           *)
(***************************************************************************)

LEMMA FreeCountStep == IInv /\ [Next]_vars => FreeCountExact'
<1> SUFFICES ASSUME IInv, [Next]_vars
             PROVE  FreeCountExact'
  OBVIOUS
<1> USE DEF IInv, TypeOK, FreeCountExact
<1>1. CASE UNCHANGED <<wpc, free_workers_count>>
  BY <1>1 DEF WorkersAt
<1>2. CASE Boot \/ CreateWorker
  <2>1. /\ free_workers_count' = free_workers_count
        /\ \E w \in Workers : wpc[w] = "dead" /\ wpc' = [wpc EXCEPT ![w] = "ready"]
    BY <1>2 DEF Boot, CreateWorker, Spawn, countVars
  <2> QED BY <2>1, CountSame, CountedLocations
<1>3. CASE Signal \/ SignalAgain
  <2>1. /\ free_workers_count' = free_workers_count
        /\ \/ wpc' = wpc
           \/ \E w \in Workers :
                wpc[w] = "asleep" /\ wpc' = [wpc EXCEPT ![w] = "relock"]
    BY <1>3 DEF Signal, SignalAgain, WakeOne, countVars
  <2>2. CASE wpc' = wpc
    BY <2>1, <2>2 DEF WorkersAt
  <2>3. CASE \E w \in Workers :
               wpc[w] = "asleep" /\ wpc' = [wpc EXCEPT ![w] = "relock"]
    BY <2>1, <2>3, CountSame, CountedLocations
  <2> QED BY <2>1, <2>2, <2>3
<1>4. ASSUME NEW w \in Workers, WorkerRuns(w) \/ WakeSpuriously(w)
      PROVE  FreeCountExact'
  <2>1. CASE BecomeFree(w)
    <3>1. /\ wpc[w] = "ready" /\ wpc' = [wpc EXCEPT ![w] = "wait"]
          /\ free_workers_count' = free_workers_count + 1
      BY <2>1 DEF BecomeFree, WorkerGoes
    <3> QED BY <3>1, CountEnter, CountedLocations
  <2>2. CASE Engage(w)
    <3>1. /\ wpc[w] = "engage" /\ wpc' = [wpc EXCEPT ![w] = "serve"]
          /\ free_workers_count' = free_workers_count - 1
      BY <2>2 DEF Engage, WorkerGoes
    <3> QED BY <3>1, CountLeave, CountedLocations
  <2>3. CASE Leave(w)
    <3>1. /\ wpc[w] = "leave" /\ wpc' = [wpc EXCEPT ![w] = "dead"]
          /\ free_workers_count' = free_workers_count - 1
      BY <2>3 DEF Leave, WorkerGoes
    <3> QED BY <3>1, CountLeave, CountedLocations
  <2>4. CASE /\ free_workers_count' = free_workers_count
             /\ \E to : /\ to \in Counted <=> wpc[w] \in Counted
                        /\ wpc' = [wpc EXCEPT ![w] = to]
    BY <2>4, CountSame
  <2>5. CASE CondWait(w) \/ WakeSpuriously(w) \/ Relock(w) \/ DequeueEmpty(w)
               \/ DequeueTest(w) \/ ReadElem(w) \/ ReadLink(w) \/ FreeHead(w)
    BY <2>4, <2>5, CountedLocations
       DEF CondWait, WakeSpuriously, Relock, DequeueEmpty, DequeueTest,
           ReadElem, ReadLink, FreeHead, WorkerGoes, countVars
  <2>6. CASE Unlink(w) \/ ResetTail(w) \/ UnlockDequeued(w) \/ ShrinkPool(w)
               \/ KeepWorker(w) \/ Serve(w)
    BY <2>4, <2>6, CountedLocations
       DEF Unlink, ResetTail, UnlockDequeued, ShrinkPool, KeepWorker, Serve,
           WorkerGoes, countVars
  <2>7. CASE WorkerFault(w)
    BY <1>1, <2>7 DEF WorkerFault, workerVars, countVars
  <2> QED BY <1>4, <2>1, <2>2, <2>3, <2>5, <2>6, <2>7 DEF WorkerRuns
<1>5. CASE SetPoolSize \/ Accept \/ LockQueue \/ EnqueueTest \/ FirstHead
             \/ FirstTail \/ FirstTest \/ FirstElem \/ Link
  BY <1>1, <1>5
     DEF SetPoolSize, Accept, LockQueue, EnqueueTest, FirstHead, FirstTail,
         FirstTest, FirstElem, Link, workerVars, countVars
<1>6. CASE LinkElem \/ Advance \/ UnlockQueue \/ CheckFree \/ GrowPool
             \/ PoolFull \/ MainFault \/ UNCHANGED vars
  BY <1>1, <1>6
     DEF LinkElem, Advance, UnlockQueue, CheckFree, GrowPool, PoolFull,
         MainFault, workerVars, countVars, vars
<1>7. CASE Cleanup
  BY <1>7, CleanupStep
<1> QED BY <1>2, <1>3, <1>4, <1>5, <1>6, <1>7 DEF Next, MainNext

LEMMA PoolSizeStep ==
  IInv /\ [Next]_vars => PoolSizeExact' /\ PoolWithinBounds'
<1> SUFFICES ASSUME IInv, [Next]_vars
             PROVE  PoolSizeExact' /\ PoolWithinBounds'
  OBVIOUS
<1> USE PoolAssumption DEF IInv, TypeOK, MainOK, PoolSizeExact, PoolWithinBounds
<1>1. CASE /\ wpc' = wpc /\ pool_size' = pool_size
           /\ mpc' # "boot" => mpc # "boot"
           /\ mpc' = "create" <=> mpc = "create"
  BY <1>1 DEF WorkersAt
<1>2. CASE Boot
  BY <1>2 DEF Boot, MainGoes
<1>3. CASE SetPoolSize
  <2>1. wpc' = wpc /\ pool_size' = N /\ Cardinality(WorkersAt(Members)) = N
        /\ mpc' = "accept"
    BY <1>3 DEF SetPoolSize, MainGoes, workerVars
  <2> QED BY <2>1 DEF WorkersAt
<1>4. CASE GrowPool
  <2>1. wpc' = wpc /\ pool_size' = pool_size + 1 /\ pool_size < K
        /\ mpc = "check_pool" /\ mpc' = "create"
    BY <1>4 DEF GrowPool, MainGoes, workerVars
  <2>2. WorkersAt(Members)' = WorkersAt(Members)
    BY <2>1 DEF WorkersAt
  <2>3. Cardinality(WorkersAt(Members)) \in Nat
    BY WorkersAtFinite
  <2> QED BY <2>1, <2>2, <2>3
<1>5. CASE CreateWorker
  <2>1. PICK w \in Workers :
          /\ wpc[w] = "dead" /\ wpc' = [wpc EXCEPT ![w] = "ready"]
    BY <1>5 DEF CreateWorker, Spawn
  <2>2. mpc = "create" /\ mpc' = "signal" /\ pool_size' = pool_size
    BY <1>5 DEF CreateWorker, MainGoes, countVars
  <2>3. Cardinality(WorkersAt(Members)') = Cardinality(WorkersAt(Members)) + 1
    BY <2>1, CountEnter, CountedLocations
  <2>4. Cardinality(WorkersAt(Members)) \in Nat
    BY WorkersAtFinite
  <2> QED BY <2>2, <2>3, <2>4
<1>6. CASE Signal \/ SignalAgain
  <2>1. /\ pool_size' = pool_size
        /\ mpc \in {"signal", "signal_again"} /\ mpc' \in {"signal_again", "accept"}
        /\ \/ wpc' = wpc
           \/ \E w \in Workers :
                wpc[w] = "asleep" /\ wpc' = [wpc EXCEPT ![w] = "relock"]
    BY <1>6 DEF Signal, SignalAgain, MainGoes, WakeOne, countVars
  <2>2. CASE wpc' = wpc
    BY <1>1, <2>1, <2>2
  <2>3. CASE \E w \in Workers :
               wpc[w] = "asleep" /\ wpc' = [wpc EXCEPT ![w] = "relock"]
    <3>1. PICK w \in Workers :
            wpc[w] = "asleep" /\ wpc' = [wpc EXCEPT ![w] = "relock"]
      BY <2>3
    <3>2. Cardinality(WorkersAt(Members)') = Cardinality(WorkersAt(Members))
      BY <3>1, CountSame, CountedLocations
    <3> QED BY <2>1, <3>2
  <2> QED BY <2>1, <2>2, <2>3
<1>7. ASSUME NEW w \in Workers, WorkerRuns(w) \/ WakeSpuriously(w)
      PROVE  PoolSizeExact' /\ PoolWithinBounds'
  <2>1. mpc' = mpc
    BY <1>7 DEF WorkerRuns, BecomeFree, CondWait, WakeSpuriously, Relock,
       DequeueEmpty, DequeueTest, ReadElem, ReadLink, FreeHead, Unlink,
       ResetTail, UnlockDequeued, ShrinkPool, KeepWorker, Engage, Serve, Leave,
       WorkerFault, mainVars
  <2>2. CASE ShrinkPool(w)
    <3>1. /\ wpc[w] = "check_size" /\ wpc' = [wpc EXCEPT ![w] = "leave"]
          /\ pool_size > N /\ pool_size' = pool_size - 1
      BY <2>2 DEF ShrinkPool, WorkerGoes
    <3>2. Cardinality(WorkersAt(Members)') = Cardinality(WorkersAt(Members)) - 1
      BY <3>1, CountLeave, CountedLocations
    <3>3. Cardinality(WorkersAt(Members)) \in Nat
      BY WorkersAtFinite
    <3> QED BY <2>1, <3>1, <3>2, <3>3
  <2>3. CASE /\ pool_size' = pool_size
             /\ \E to : /\ to \in Members <=> wpc[w] \in Members
                        /\ wpc' = [wpc EXCEPT ![w] = to]
    BY <2>1, <2>3, CountSame
  <2>4. CASE BecomeFree(w) \/ CondWait(w) \/ WakeSpuriously(w) \/ Relock(w)
               \/ DequeueEmpty(w) \/ DequeueTest(w) \/ ReadElem(w) \/ ReadLink(w)
    BY <2>3, <2>4, CountedLocations
       DEF BecomeFree, CondWait, WakeSpuriously, Relock, DequeueEmpty,
           DequeueTest, ReadElem, ReadLink, WorkerGoes, countVars
  <2>5. CASE FreeHead(w) \/ Unlink(w) \/ ResetTail(w) \/ UnlockDequeued(w)
               \/ KeepWorker(w) \/ Engage(w) \/ Serve(w) \/ Leave(w)
    BY <2>3, <2>5, CountedLocations
       DEF FreeHead, Unlink, ResetTail, UnlockDequeued, KeepWorker, Engage,
           Serve, Leave, WorkerGoes, countVars
  <2>6. CASE WorkerFault(w)
    BY <1>1, <2>1, <2>6 DEF WorkerFault, workerVars, countVars
  <2> QED BY <1>7, <2>2, <2>4, <2>5, <2>6 DEF WorkerRuns
<1>8. CASE Accept \/ LockQueue \/ EnqueueTest \/ FirstHead \/ FirstTail
             \/ FirstTest \/ FirstElem \/ Link
  BY <1>1, <1>8
     DEF Accept, LockQueue, EnqueueTest, FirstHead, FirstTail, FirstTest,
         FirstElem, Link, MainGoes, workerVars, countVars
<1>9. CASE LinkElem \/ Advance \/ UnlockQueue \/ CheckFree \/ PoolFull
             \/ MainFault \/ UNCHANGED vars
  BY <1>1, <1>9
     DEF LinkElem, Advance, UnlockQueue, CheckFree, PoolFull, MainFault,
         MainGoes, mainVars, workerVars, countVars, vars
<1>10. CASE Cleanup
  BY <1>10, CleanupStep
<1> QED BY <1>2, <1>3, <1>4, <1>5, <1>6, <1>7, <1>8, <1>9, <1>10
        DEF Next, MainNext

(***************************************************************************)
(* Types.                                                                  *)
(***************************************************************************)

LEMMA MainStep == IInv /\ [Next]_vars => MainOK'
<1> SUFFICES ASSUME IInv, [Next]_vars
             PROVE  MainOK'
  OBVIOUS
<1> USE PoolAssumption, ClientsAssumption DEF IInv, TypeOK, MainOK
<1>1. CASE UNCHANGED <<mpc, accepted, pool_size>>
  BY <1>1
<1>2. ASSUME NEW w \in Workers, WorkerRuns(w) \/ WakeSpuriously(w)
      PROVE  MainOK'
  BY <1>1, <1>2
     DEF WorkerRuns, BecomeFree, CondWait, WakeSpuriously, Relock,
         DequeueEmpty, DequeueTest, ReadElem, ReadLink, FreeHead, Unlink,
         ResetTail, UnlockDequeued, ShrinkPool, KeepWorker, Engage, Serve,
         Leave, WorkerFault, mainVars, countVars
<1>3. CASE Boot \/ SetPoolSize \/ Accept \/ LockQueue \/ EnqueueTest
             \/ FirstHead \/ FirstTail \/ FirstTest \/ FirstElem \/ Link
  BY <1>3
     DEF Boot, SetPoolSize, Accept, LockQueue, EnqueueTest, FirstHead,
         FirstTail, FirstTest, FirstElem, Link, MainGoes, countVars
<1>4. CASE LinkElem \/ Advance \/ UnlockQueue \/ CheckFree \/ GrowPool
             \/ PoolFull \/ CreateWorker \/ Signal \/ SignalAgain
  BY <1>4
     DEF LinkElem, Advance, UnlockQueue, CheckFree, GrowPool, PoolFull,
         CreateWorker, Signal, SignalAgain, MainGoes, countVars
<1>5. CASE MainFault \/ UNCHANGED vars
  BY <1>1, <1>5 DEF MainFault, mainVars, countVars, vars
<1>6. CASE Cleanup
  BY <1>6, CleanupStep
<1> QED BY <1>2, <1>3, <1>4, <1>5, <1>6 DEF Next, MainNext

\* The count of free workers is in range when it is exact.
FreeCountInRange == free_workers_count \in 0..Cardinality(Workers)

LEMMA FreeCountRange == FreeCountExact => FreeCountInRange
BY WorkersAtFinite DEF FreeCountExact, FreeCountInRange

LEMMA FreeCountRangeNext == FreeCountExact' => FreeCountInRange'
BY FreeCountRange, PTL

\* The part of the type invariant that the counters do not enter.
LocationsOK ==
  /\ mpc \in MainLocations /\ accepted \in 0..MaxClients
  /\ wpc \in [Workers -> WorkerLocations]
  /\ queue_mutex \in Workers \cup {Main, Free}
  /\ stolen \in BOOLEAN /\ heard \in BOOLEAN
  /\ fault \in BOOLEAN /\ exited \in BOOLEAN
MemoryOK ==
  /\ fd \in [Workers -> {NoFd} \cup 0..MaxClients]
  /\ head \in 0..MaxClients /\ tail \in 0..MaxClients
  /\ next \in [Clients -> 0..MaxClients]
  /\ allocated \subseteq Clients /\ assigned \subseteq 0..MaxClients

LEMMA LocationsStep == IInv /\ [Next]_vars => LocationsOK'
<1> SUFFICES ASSUME IInv, [Next]_vars
             PROVE  LocationsOK'
  OBVIOUS
<1> USE ClientsAssumption
    DEF IInv, TypeOK, LocationsOK, MainLocations, WorkerLocations, MainGoes,
        WorkerGoes, workerVars, mainVars, ghostVars, endVars
<1>1. CASE Boot
  BY <1>1 DEF Boot, Spawn
<1>2. CASE SetPoolSize
  BY <1>2 DEF SetPoolSize
<1>3. CASE Accept
  <2>1. accepted' \in 0..MaxClients
    BY <1>3 DEF Accept
  <2> QED BY <1>3, <2>1 DEF Accept
<1>4. CASE LockQueue
  BY <1>4 DEF LockQueue
<1>5. CASE EnqueueTest
  BY <1>5 DEF EnqueueTest
<1>6. CASE FirstHead
  BY <1>6 DEF FirstHead
<1>7. CASE FirstTail
  BY <1>7 DEF FirstTail
<1>8. CASE FirstTest
  BY <1>8 DEF FirstTest
<1>9. CASE FirstElem
  BY <1>9 DEF FirstElem
<1>10. CASE Link
  BY <1>10 DEF Link
<1>11. CASE LinkElem
  BY <1>11 DEF LinkElem
<1>12. CASE Advance
  BY <1>12 DEF Advance
<1>13. CASE UnlockQueue
  BY <1>13 DEF UnlockQueue
<1>14. CASE CheckFree
  BY <1>14 DEF CheckFree
<1>15. CASE GrowPool
  BY <1>15 DEF GrowPool
<1>16. CASE PoolFull
  BY <1>16 DEF PoolFull
<1>17. CASE CreateWorker
  BY <1>17 DEF CreateWorker, Spawn
<1>18. CASE Signal
  BY <1>18 DEF Signal, WakeOne
<1>19. CASE SignalAgain
  BY <1>19 DEF SignalAgain, WakeOne
<1>20. CASE MainFault
  BY <1>20 DEF MainFault
<1>21. ASSUME NEW w \in Workers, WorkerRuns(w) \/ WakeSpuriously(w)
      PROVE  LocationsOK'
  <2>1. CASE BecomeFree(w)
    BY <2>1 DEF BecomeFree
  <2>2. CASE CondWait(w)
    BY <2>2 DEF CondWait
  <2>3. CASE WakeSpuriously(w)
    BY <2>3 DEF WakeSpuriously
  <2>4. CASE Relock(w)
    BY <2>4 DEF Relock
  <2>5. CASE DequeueEmpty(w)
    BY <2>5 DEF DequeueEmpty
  <2>6. CASE DequeueTest(w)
    BY <2>6 DEF DequeueTest
  <2>7. CASE ReadElem(w)
    BY <2>7 DEF ReadElem
  <2>8. CASE ReadLink(w)
    BY <2>8 DEF ReadLink
  <2>9. CASE FreeHead(w)
    BY <2>9 DEF FreeHead
  <2>10. CASE Unlink(w)
    BY <2>10 DEF Unlink
  <2>11. CASE ResetTail(w)
    BY <2>11 DEF ResetTail
  <2>12. CASE UnlockDequeued(w)
    BY <2>12 DEF UnlockDequeued
  <2>13. CASE ShrinkPool(w)
    BY <2>13 DEF ShrinkPool
  <2>14. CASE KeepWorker(w)
    BY <2>14 DEF KeepWorker
  <2>15. CASE Engage(w)
    BY <2>15 DEF Engage
  <2>16. CASE Serve(w)
    BY <2>16 DEF Serve
  <2>17. CASE Leave(w)
    BY <2>17 DEF Leave
  <2>18. CASE WorkerFault(w)
    BY <2>18 DEF WorkerFault
  <2> QED BY <1>21, <2>1, <2>2, <2>3, <2>4, <2>5, <2>6, <2>7, <2>8, <2>9,
             <2>10, <2>11, <2>12, <2>13, <2>14, <2>15, <2>16, <2>17, <2>18
             DEF WorkerRuns
<1>22. CASE Cleanup \/ UNCHANGED vars
  <2>1. CASE Cleanup
    <3>1. wpc' \in [Workers -> WorkerLocations]
      BY <2>1 DEF Cleanup, WorkerLocations
    <3>2. mpc' \in MainLocations /\ accepted' \in 0..MaxClients
      BY <2>1, ClientsAssumption DEF Cleanup, MainLocations
    <3>3. /\ queue_mutex' \in Workers \cup {Main, Free}
          /\ stolen' \in BOOLEAN /\ heard' \in BOOLEAN
          /\ fault' \in BOOLEAN /\ exited' \in BOOLEAN
      BY <2>1 DEF Cleanup
    <3> QED BY <3>1, <3>2, <3>3
  <2>2. CASE UNCHANGED vars
    BY <2>2 DEF vars
  <2> QED BY <1>22, <2>1, <2>2
<1> QED BY <1>1, <1>2, <1>3, <1>4, <1>5, <1>6, <1>7, <1>8, <1>9, <1>10,
           <1>11, <1>12, <1>13, <1>14, <1>15, <1>16, <1>17, <1>18, <1>19,
           <1>20, <1>21, <1>22
           DEF Next, MainNext

LEMMA MemoryStep == IInv /\ [Next]_vars => MemoryOK'
<1> SUFFICES ASSUME IInv, [Next]_vars
             PROVE  MemoryOK'
  OBVIOUS
<1> USE ClientsAssumption
    DEF IInv, TypeOK, MainOK, MemoryOK, Clients, NoFd, NULL, Junk, MainGoes,
        workerVars, mainVars, queueVars
<1>1. CASE UNCHANGED <<fd, queueVars>>
  BY <1>1
<1>2. CASE Boot \/ SetPoolSize \/ Accept \/ LockQueue \/ EnqueueTest \/
             FirstTest \/ UnlockQueue \/ CheckFree \/ GrowPool \/
             PoolFull \/ CreateWorker \/ Signal \/ SignalAgain \/ MainFault
  BY <1>1, <1>2 DEF Boot, SetPoolSize, Accept, LockQueue, EnqueueTest,
     FirstTest, UnlockQueue, CheckFree, GrowPool, PoolFull, CreateWorker,
     Signal, SignalAgain, MainFault
<1>3. CASE FirstHead
  BY <1>3 DEF FirstHead
<1>4. CASE FirstTail
  BY <1>4 DEF FirstTail
<1>5. CASE FirstElem
  BY <1>5 DEF FirstElem
<1>6. CASE Link
  BY <1>6 DEF Link
<1>7. CASE LinkElem
  BY <1>7 DEF LinkElem
<1>8. CASE Advance
  BY <1>8 DEF Advance
<1>9. ASSUME NEW w \in Workers, WorkerRuns(w) \/ WakeSpuriously(w)
      PROVE  MemoryOK'
  <2>1. CASE BecomeFree(w) \/ CondWait(w) \/ WakeSpuriously(w) \/
               Relock(w) \/ DequeueTest(w) \/ ReadLink(w) \/
               UnlockDequeued(w) \/ ShrinkPool(w) \/ KeepWorker(w) \/
               Engage(w) \/ Leave(w) \/ WorkerFault(w)
    BY <1>1, <2>1 DEF BecomeFree, CondWait, WakeSpuriously, Relock,
       DequeueTest, ReadLink, UnlockDequeued, ShrinkPool, KeepWorker,
       Engage, Leave, WorkerFault
  <2>2. CASE DequeueEmpty(w)
    BY <2>2 DEF DequeueEmpty
  <2>3. CASE ReadElem(w)
    BY <2>3 DEF ReadElem
  <2>4. CASE FreeHead(w)
    BY <2>4 DEF FreeHead
  <2>5. CASE Unlink(w)
    BY <2>5 DEF Unlink
  <2>6. CASE ResetTail(w)
    BY <2>6 DEF ResetTail
  <2>7. CASE Serve(w)
    BY <2>7 DEF Serve
  <2> QED BY <1>9, <2>1, <2>2, <2>3, <2>4, <2>5, <2>6, <2>7
             DEF WorkerRuns
<1>10. CASE Cleanup \/ UNCHANGED vars
  <2>1. CASE Cleanup
    <3>1. /\ fd' = [w \in Workers |-> NoFd] /\ head' = NULL /\ tail' = NULL
          /\ next' = [c \in Clients |-> NULL] /\ allocated' = {} /\ assigned' = {}
      BY <2>1 DEF Cleanup
    <3>2. /\ fd' \in [Workers -> {NoFd} \cup 0..MaxClients]
          /\ next' \in [Clients -> 0..MaxClients]
      BY <3>1, ClientsAssumption DEF NULL
    <3> QED BY <3>1, <3>2, ClientsAssumption DEF NULL
  <2>2. CASE UNCHANGED vars
    BY <1>1, <2>2 DEF vars
  <2> QED BY <1>10, <2>1, <2>2
<1> QED BY <1>2, <1>3, <1>4, <1>5, <1>6, <1>7, <1>8, <1>9, <1>10
           DEF Next, MainNext

LEMMA TypeStep == IInv /\ [Next]_vars => TypeOK'
<1> SUFFICES ASSUME IInv, [Next]_vars
             PROVE  TypeOK'
  OBVIOUS
<1>1. LocationsOK' /\ MemoryOK'
  BY LocationsStep, MemoryStep
<1>2. FreeCountInRange'
  BY FreeCountStep, FreeCountRangeNext
<1>3. pool_size' \in 0..K
  BY PoolSizeStep, MainStep, PoolAssumption DEF PoolWithinBounds, MainOK
<1> QED BY <1>1, <1>2, <1>3 DEF TypeOK, LocationsOK, MemoryOK, FreeCountInRange

(***************************************************************************)
(* The queue, while no lock has been stolen.                               *)
(***************************************************************************)

LEMMA OwnedStep == IInv /\ [Next]_vars => QueueOwned'
<1> SUFFICES ASSUME IInv, [Next]_vars, ~stolen'
             PROVE  QueueOwned'
  BY DEF QueueOwned
<1> USE WorkersAssumption
    DEF IInv, TypeOK, QueueOwned, MainInQueue, WorkerInQueue, Main, Free,
        MainGoes, WorkerGoes, workerVars, mainVars, ghostVars
<1>1. CASE Boot
  BY <1>1 DEF Boot, Spawn
<1>2. CASE SetPoolSize
  BY <1>2 DEF SetPoolSize
<1>3. CASE Accept
  BY <1>3 DEF Accept
<1>4. CASE LockQueue
  BY <1>4 DEF LockQueue
<1>5. CASE EnqueueTest
  BY <1>5 DEF EnqueueTest
<1>6. CASE FirstHead
  BY <1>6 DEF FirstHead
<1>7. CASE FirstTail
  BY <1>7 DEF FirstTail
<1>8. CASE FirstTest
  BY <1>8 DEF FirstTest
<1>9. CASE FirstElem
  BY <1>9 DEF FirstElem
<1>10. CASE Link
  BY <1>10 DEF Link
<1>11. CASE LinkElem
  BY <1>11 DEF LinkElem
<1>12. CASE Advance
  BY <1>12 DEF Advance
<1>13. CASE UnlockQueue
  BY <1>13 DEF UnlockQueue
<1>14. CASE CheckFree
  BY <1>14 DEF CheckFree
<1>15. CASE GrowPool
  BY <1>15 DEF GrowPool
<1>16. CASE PoolFull
  BY <1>16 DEF PoolFull
<1>17. CASE CreateWorker
  BY <1>17 DEF CreateWorker, Spawn
<1>18. CASE Signal
  BY <1>18 DEF Signal, WakeOne
<1>19. CASE SignalAgain
  BY <1>19 DEF SignalAgain, WakeOne
<1>20. CASE MainFault
  BY <1>20 DEF MainFault
<1>21. ASSUME NEW w \in Workers, WorkerRuns(w) \/ WakeSpuriously(w)
      PROVE  QueueOwned'
  <2>1. CASE BecomeFree(w)
    BY <2>1 DEF BecomeFree
  <2>2. CASE CondWait(w)
    BY <2>2 DEF CondWait
  <2>3. CASE WakeSpuriously(w)
    BY <2>3 DEF WakeSpuriously
  <2>4. CASE Relock(w)
    BY <2>4 DEF Relock
  <2>5. CASE DequeueEmpty(w)
    BY <2>5 DEF DequeueEmpty
  <2>6. CASE DequeueTest(w)
    BY <2>6 DEF DequeueTest
  <2>7. CASE ReadElem(w)
    BY <2>7 DEF ReadElem
  <2>8. CASE ReadLink(w)
    BY <2>8 DEF ReadLink
  <2>9. CASE FreeHead(w)
    BY <2>9 DEF FreeHead
  <2>10. CASE Unlink(w)
    BY <2>10 DEF Unlink
  <2>11. CASE ResetTail(w)
    BY <2>11 DEF ResetTail
  <2>12. CASE UnlockDequeued(w)
    BY <2>12 DEF UnlockDequeued
  <2>13. CASE ShrinkPool(w)
    BY <2>13 DEF ShrinkPool
  <2>14. CASE KeepWorker(w)
    BY <2>14 DEF KeepWorker
  <2>15. CASE Engage(w)
    BY <2>15 DEF Engage
  <2>16. CASE Serve(w)
    BY <2>16 DEF Serve
  <2>17. CASE Leave(w)
    BY <2>17 DEF Leave
  <2>18. CASE WorkerFault(w)
    BY <2>18 DEF WorkerFault
  <2> QED BY <1>21, <2>1, <2>2, <2>3, <2>4, <2>5, <2>6, <2>7, <2>8, <2>9,
             <2>10, <2>11, <2>12, <2>13, <2>14, <2>15, <2>16, <2>17, <2>18
             DEF WorkerRuns
<1>22. CASE Cleanup \/ UNCHANGED vars
  BY <1>22, CleanupStep DEF vars
<1> QED BY <1>1, <1>2, <1>3, <1>4, <1>5, <1>6, <1>7, <1>8, <1>9, <1>10,
           <1>11, <1>12, <1>13, <1>14, <1>15, <1>16, <1>17, <1>18, <1>19,
           <1>20, <1>21, <1>22
           DEF Next, MainNext

\* A stolen lock is never forgotten.
LEMMA StolenStep == IInv /\ [Next]_vars => (~stolen' => ~stolen)
<1> SUFFICES ASSUME IInv, [Next]_vars
             PROVE  ~stolen' => ~stolen
  OBVIOUS
<1> USE DEF ghostVars
<1>1. CASE MainNext
  BY <1>1 DEF MainNext, Boot, SetPoolSize, Accept, LockQueue, EnqueueTest,
     FirstHead, FirstTail, FirstTest, FirstElem, Link, LinkElem, Advance,
     UnlockQueue, CheckFree, GrowPool, PoolFull, CreateWorker, Signal,
     SignalAgain, MainFault
<1>2. ASSUME NEW w \in Workers, WorkerRuns(w) \/ WakeSpuriously(w)
      PROVE  ~stolen' => ~stolen
  BY <1>2 DEF WorkerRuns, BecomeFree, CondWait, WakeSpuriously, Relock,
     DequeueEmpty, DequeueTest, ReadElem, ReadLink, FreeHead, Unlink,
     ResetTail, UnlockDequeued, ShrinkPool, KeepWorker, Engage, Serve, Leave,
     WorkerFault
<1>3. CASE Cleanup \/ UNCHANGED vars
  BY <1>3 DEF Cleanup, vars
<1> QED BY <1>1, <1>2, <1>3 DEF Next

\* The thread that follows a pointer holds the lock, and the pointer is good.
LEMMA FaultStep == IInv /\ [Next]_vars => (~stolen' => ~fault')
<1> SUFFICES ASSUME IInv, [Next]_vars, ~stolen, ~stolen'
             PROVE  ~fault'
  BY StolenStep
<1> USE WorkersAssumption
    DEF IInv, TypeOK, QueueOwned, QueueOK, MainInQueue, WorkerInQueue,
        PointersOK, NodesOK, NULL, Main, endVars
<1>1. CASE MainFault
  BY <1>1, PoolAssumption DEF MainFault, MainOK, Clients
<1>2. CASE MainNext /\ ~MainFault
  BY <1>2 DEF MainNext, Boot, SetPoolSize, Accept, LockQueue, EnqueueTest,
     FirstHead, FirstTail, FirstTest, FirstElem, Link, LinkElem, Advance,
     UnlockQueue, CheckFree, GrowPool, PoolFull, CreateWorker, Signal,
     SignalAgain
<1>3. ASSUME NEW w \in Workers, WorkerFault(w)
      PROVE  FALSE
  BY <1>3 DEF WorkerFault
<1>4. ASSUME NEW w \in Workers, WorkerRuns(w) \/ WakeSpuriously(w),
             ~WorkerFault(w)
      PROVE  ~fault'
  BY <1>4 DEF WorkerRuns, BecomeFree, CondWait, WakeSpuriously, Relock,
     DequeueEmpty, DequeueTest, ReadElem, ReadLink, FreeHead, Unlink,
     ResetTail, UnlockDequeued, ShrinkPool, KeepWorker, Engage, Serve, Leave
<1>5. CASE Cleanup
  BY <1>5, CleanupStep
<1>6. CASE UNCHANGED vars
  BY <1>6 DEF vars
<1> QED BY <1>1, <1>2, <1>3, <1>4, <1>5, <1>6 DEF Next

\* The pointers of the header at each step.
LEMMA PointersStep == IInv /\ [Next]_vars => (~stolen' => PointersOK')
<1> SUFFICES ASSUME IInv, [Next]_vars, ~stolen, ~stolen'
             PROVE  PointersOK'
  BY StolenStep
<1> USE DEF IInv, TypeOK, MainOK, QueueOwned, QueueOK, MainInQueue, WorkerInQueue,
            MainGoes, WorkerGoes, workerVars, mainVars, queueVars, ghostVars,
            endVars, Clients, NULL, NoFd, Main, Free, PointersOK, NodesOK
<1> USE WorkersAssumption
<1>1. CASE Boot
  BY <1>1 DEF Boot, Spawn
<1>2. CASE SetPoolSize
  BY <1>2 DEF SetPoolSize
<1>3. CASE Accept
  BY <1>3 DEF Accept
<1>4. CASE LockQueue
  BY <1>4 DEF LockQueue
<1>5. CASE EnqueueTest
  BY <1>5 DEF EnqueueTest
<1>6. CASE FirstHead
  BY <1>6 DEF FirstHead
<1>7. CASE FirstTail
  BY <1>7 DEF FirstTail
<1>8. CASE FirstTest
  BY <1>8 DEF FirstTest
<1>9. CASE FirstElem
  BY <1>9 DEF FirstElem
<1>10. CASE Link
  BY <1>10 DEF Link
<1>11. CASE LinkElem
  BY <1>11 DEF LinkElem
<1>12. CASE Advance
  BY <1>12 DEF Advance
<1>13. CASE UnlockQueue
  BY <1>13 DEF UnlockQueue
<1>14. CASE CheckFree
  BY <1>14 DEF CheckFree
<1>15. CASE GrowPool
  BY <1>15 DEF GrowPool
<1>16. CASE PoolFull
  BY <1>16 DEF PoolFull
<1>17. CASE CreateWorker
  BY <1>17 DEF CreateWorker, Spawn
<1>18. CASE Signal
  BY <1>18 DEF Signal, WakeOne
<1>19. CASE SignalAgain
  BY <1>19 DEF SignalAgain, WakeOne
<1>20. CASE MainFault
  BY <1>20 DEF MainFault
<1>21. ASSUME NEW w \in Workers, WorkerRuns(w) \/ WakeSpuriously(w)
      PROVE  PointersOK'
  <2>1. CASE BecomeFree(w)
    BY <2>1 DEF BecomeFree
  <2>2. CASE CondWait(w)
    BY <2>2 DEF CondWait
  <2>3. CASE WakeSpuriously(w)
    BY <2>3 DEF WakeSpuriously
  <2>4. CASE Relock(w)
    BY <2>4 DEF Relock
  <2>5. CASE DequeueEmpty(w)
    BY <2>5 DEF DequeueEmpty
  <2>6. CASE DequeueTest(w)
    BY <2>6 DEF DequeueTest
  <2>7. CASE ReadElem(w)
    BY <2>7 DEF ReadElem
  <2>8. CASE ReadLink(w)
    BY <2>8 DEF ReadLink
  <2>9. CASE FreeHead(w)
    BY <2>9 DEF FreeHead
  <2>10. CASE Unlink(w)
    BY <2>10 DEF Unlink
  <2>11. CASE ResetTail(w)
    BY <2>11 DEF ResetTail
  <2>12. CASE UnlockDequeued(w)
    BY <2>12 DEF UnlockDequeued
  <2>13. CASE ShrinkPool(w)
    BY <2>13 DEF ShrinkPool
  <2>14. CASE KeepWorker(w)
    BY <2>14 DEF KeepWorker
  <2>15. CASE Engage(w)
    BY <2>15 DEF Engage
  <2>16. CASE Serve(w)
    BY <2>16 DEF Serve
  <2>17. CASE Leave(w)
    BY <2>17 DEF Leave
  <2>18. CASE WorkerFault(w)
    BY <2>18 DEF WorkerFault
  <2> QED BY <1>21, <2>1, <2>2, <2>3, <2>4, <2>5, <2>6, <2>7, <2>8, <2>9,
             <2>10, <2>11, <2>12, <2>13, <2>14, <2>15, <2>16, <2>17, <2>18
             DEF WorkerRuns
<1>22. CASE Cleanup \/ UNCHANGED vars
  BY <1>22, CleanupStep DEF vars
<1> QED BY <1>1, <1>2, <1>3, <1>4, <1>5, <1>6, <1>7, <1>8, <1>9, <1>10,
           <1>11, <1>12, <1>13, <1>14, <1>15, <1>16, <1>17, <1>18, <1>19,
           <1>20, <1>21, <1>22
           DEF Next, MainNext

\* What they point to is live, and the head has its element.
LEMMA NodesStep == IInv /\ [Next]_vars => (~stolen' => NodesOK')
<1> SUFFICES ASSUME IInv, [Next]_vars, ~stolen, ~stolen'
             PROVE  NodesOK'
  BY StolenStep
<1> USE DEF IInv, TypeOK, MainOK, QueueOwned, QueueOK, MainInQueue, WorkerInQueue,
            MainGoes, WorkerGoes, workerVars, mainVars, queueVars, ghostVars,
            endVars, Clients, NULL, NoFd, Main, Free, PointersOK, NodesOK
<1> USE WorkersAssumption
<1>1. CASE Boot
  BY <1>1 DEF Boot, Spawn
<1>2. CASE SetPoolSize
  BY <1>2 DEF SetPoolSize
<1>3. CASE Accept
  BY <1>3 DEF Accept
<1>4. CASE LockQueue
  BY <1>4 DEF LockQueue
<1>5. CASE EnqueueTest
  BY <1>5 DEF EnqueueTest
<1>6. CASE FirstHead
  BY <1>6 DEF FirstHead
<1>7. CASE FirstTail
  BY <1>7 DEF FirstTail
<1>8. CASE FirstTest
  BY <1>8 DEF FirstTest
<1>9. CASE FirstElem
  BY <1>9 DEF FirstElem
<1>10. CASE Link
  BY <1>10 DEF Link
<1>11. CASE LinkElem
  BY <1>11 DEF LinkElem
<1>12. CASE Advance
  BY <1>12 DEF Advance
<1>13. CASE UnlockQueue
  BY <1>13 DEF UnlockQueue
<1>14. CASE CheckFree
  BY <1>14 DEF CheckFree
<1>15. CASE GrowPool
  BY <1>15 DEF GrowPool
<1>16. CASE PoolFull
  BY <1>16 DEF PoolFull
<1>17. CASE CreateWorker
  BY <1>17 DEF CreateWorker, Spawn
<1>18. CASE Signal
  BY <1>18 DEF Signal, WakeOne
<1>19. CASE SignalAgain
  BY <1>19 DEF SignalAgain, WakeOne
<1>20. CASE MainFault
  BY <1>20 DEF MainFault
<1>21. ASSUME NEW w \in Workers, WorkerRuns(w) \/ WakeSpuriously(w)
      PROVE  NodesOK'
  <2>1. CASE BecomeFree(w)
    BY <2>1 DEF BecomeFree
  <2>2. CASE CondWait(w)
    BY <2>2 DEF CondWait
  <2>3. CASE WakeSpuriously(w)
    BY <2>3 DEF WakeSpuriously
  <2>4. CASE Relock(w)
    BY <2>4 DEF Relock
  <2>5. CASE DequeueEmpty(w)
    BY <2>5 DEF DequeueEmpty
  <2>6. CASE DequeueTest(w)
    BY <2>6 DEF DequeueTest
  <2>7. CASE ReadElem(w)
    BY <2>7 DEF ReadElem
  <2>8. CASE ReadLink(w)
    BY <2>8 DEF ReadLink
  <2>9. CASE FreeHead(w)
    BY <2>9 DEF FreeHead
  <2>10. CASE Unlink(w)
    BY <2>10 DEF Unlink
  <2>11. CASE ResetTail(w)
    BY <2>11 DEF ResetTail
  <2>12. CASE UnlockDequeued(w)
    BY <2>12 DEF UnlockDequeued
  <2>13. CASE ShrinkPool(w)
    BY <2>13 DEF ShrinkPool
  <2>14. CASE KeepWorker(w)
    BY <2>14 DEF KeepWorker
  <2>15. CASE Engage(w)
    BY <2>15 DEF Engage
  <2>16. CASE Serve(w)
    BY <2>16 DEF Serve
  <2>17. CASE Leave(w)
    BY <2>17 DEF Leave
  <2>18. CASE WorkerFault(w)
    BY <2>18 DEF WorkerFault
  <2> QED BY <1>21, <2>1, <2>2, <2>3, <2>4, <2>5, <2>6, <2>7, <2>8, <2>9,
             <2>10, <2>11, <2>12, <2>13, <2>14, <2>15, <2>16, <2>17, <2>18
             DEF WorkerRuns
<1>22. CASE Cleanup \/ UNCHANGED vars
  BY <1>22, CleanupStep DEF vars
<1> QED BY <1>1, <1>2, <1>3, <1>4, <1>5, <1>6, <1>7, <1>8, <1>9, <1>10,
           <1>11, <1>12, <1>13, <1>14, <1>15, <1>16, <1>17, <1>18, <1>19,
           <1>20, <1>21, <1>22
           DEF Next, MainNext

\* Clients are taken in the order they came.
LEMMA OrderStep == IInv /\ [Next]_vars => (~stolen' => OrderOK')
<1> SUFFICES ASSUME IInv, [Next]_vars, ~stolen, ~stolen'
             PROVE  OrderOK'
  BY StolenStep
<1> USE DEF IInv, TypeOK, MainOK, QueueOwned, QueueOK, MainInQueue, WorkerInQueue,
            MainGoes, WorkerGoes, workerVars, mainVars, queueVars, ghostVars,
            endVars, Clients, NULL, NoFd, Main, Free, PointersOK, NodesOK,
            OrderOK
<1> USE WorkersAssumption
<1>1. CASE Boot
  BY <1>1 DEF Boot, Spawn
<1>2. CASE SetPoolSize
  BY <1>2 DEF SetPoolSize
<1>3. CASE Accept
  BY <1>3 DEF Accept
<1>4. CASE LockQueue
  BY <1>4 DEF LockQueue
<1>5. CASE EnqueueTest
  BY <1>5 DEF EnqueueTest
<1>6. CASE FirstHead
  BY <1>6 DEF FirstHead
<1>7. CASE FirstTail
  BY <1>7 DEF FirstTail
<1>8. CASE FirstTest
  BY <1>8 DEF FirstTest
<1>9. CASE FirstElem
  BY <1>9 DEF FirstElem
<1>10. CASE Link
  BY <1>10 DEF Link
<1>11. CASE LinkElem
  BY <1>11 DEF LinkElem
<1>12. CASE Advance
  BY <1>12 DEF Advance
<1>13. CASE UnlockQueue
  BY <1>13 DEF UnlockQueue
<1>14. CASE CheckFree
  BY <1>14 DEF CheckFree
<1>15. CASE GrowPool
  BY <1>15 DEF GrowPool
<1>16. CASE PoolFull
  BY <1>16 DEF PoolFull
<1>17. CASE CreateWorker
  BY <1>17 DEF CreateWorker, Spawn
<1>18. CASE Signal
  BY <1>18 DEF Signal, WakeOne
<1>19. CASE SignalAgain
  BY <1>19 DEF SignalAgain, WakeOne
<1>20. CASE MainFault
  BY <1>20 DEF MainFault
<1>21. ASSUME NEW w \in Workers, WorkerRuns(w) \/ WakeSpuriously(w)
      PROVE  OrderOK'
  <2>1. CASE BecomeFree(w)
    BY <2>1 DEF BecomeFree
  <2>2. CASE CondWait(w)
    BY <2>2 DEF CondWait
  <2>3. CASE WakeSpuriously(w)
    BY <2>3 DEF WakeSpuriously
  <2>4. CASE Relock(w)
    BY <2>4 DEF Relock
  <2>5. CASE DequeueEmpty(w)
    BY <2>5 DEF DequeueEmpty
  <2>6. CASE DequeueTest(w)
    BY <2>6 DEF DequeueTest
  <2>7. CASE ReadElem(w)
    BY <2>7 DEF ReadElem
  <2>8. CASE ReadLink(w)
    BY <2>8 DEF ReadLink
  <2>9. CASE FreeHead(w)
    BY <2>9 DEF FreeHead
  <2>10. CASE Unlink(w)
    BY <2>10 DEF Unlink
  <2>11. CASE ResetTail(w)
    BY <2>11 DEF ResetTail
  <2>12. CASE UnlockDequeued(w)
    BY <2>12 DEF UnlockDequeued
  <2>13. CASE ShrinkPool(w)
    BY <2>13 DEF ShrinkPool
  <2>14. CASE KeepWorker(w)
    BY <2>14 DEF KeepWorker
  <2>15. CASE Engage(w)
    BY <2>15 DEF Engage
  <2>16. CASE Serve(w)
    BY <2>16 DEF Serve
  <2>17. CASE Leave(w)
    BY <2>17 DEF Leave
  <2>18. CASE WorkerFault(w)
    BY <2>18 DEF WorkerFault
  <2> QED BY <1>21, <2>1, <2>2, <2>3, <2>4, <2>5, <2>6, <2>7, <2>8, <2>9,
             <2>10, <2>11, <2>12, <2>13, <2>14, <2>15, <2>16, <2>17, <2>18
             DEF WorkerRuns
<1>22. CASE Cleanup \/ UNCHANGED vars
  BY <1>22, CleanupStep DEF vars
<1> QED BY <1>1, <1>2, <1>3, <1>4, <1>5, <1>6, <1>7, <1>8, <1>9, <1>10,
           <1>11, <1>12, <1>13, <1>14, <1>15, <1>16, <1>17, <1>18, <1>19,
           <1>20, <1>21, <1>22
           DEF Next, MainNext

\* A client that is read off the head is younger than those held already.
LEMMA ExclusiveStep == IInv /\ [Next]_vars => ClientsExclusive'
<1> SUFFICES ASSUME IInv, [Next]_vars, ~stolen, ~stolen'
             PROVE  ClientsExclusive'
  BY StolenStep DEF ClientsExclusive
<1> USE DEF IInv, TypeOK, QueueOwned, QueueOK, OrderOK, NodesOK, WorkerInQueue,
            MainInQueue, ClientsExclusive, WorkerGoes, workerVars, NULL, NoFd,
            Main
<1> USE WorkersAssumption
<1>1. CASE fd' = fd
  BY <1>1
<1>2. CASE Boot \/ SetPoolSize \/ Accept \/ LockQueue \/ EnqueueTest \/
             FirstHead \/ FirstTail \/ FirstTest \/ FirstElem \/ Link \/
             LinkElem \/ Advance \/ UnlockQueue \/ CheckFree \/ GrowPool \/
             PoolFull \/ CreateWorker \/ Signal \/ SignalAgain \/ MainFault
  BY <1>1, <1>2 DEF Boot, SetPoolSize, Accept, LockQueue, EnqueueTest,
     FirstHead, FirstTail, FirstTest, FirstElem, Link, LinkElem, Advance,
     UnlockQueue, CheckFree, GrowPool, PoolFull, CreateWorker, Signal,
     SignalAgain, MainFault
<1>3. ASSUME NEW w \in Workers, WorkerRuns(w) \/ WakeSpuriously(w)
      PROVE  ClientsExclusive'
  <2>1. CASE BecomeFree(w) \/ CondWait(w) \/ WakeSpuriously(w) \/
               Relock(w) \/ DequeueTest(w) \/ ReadLink(w) \/ FreeHead(w) \/
               Unlink(w) \/ ResetTail(w) \/ UnlockDequeued(w) \/
               ShrinkPool(w) \/ KeepWorker(w) \/ Engage(w) \/ Leave(w) \/
               WorkerFault(w)
    BY <1>1, <2>1 DEF BecomeFree, CondWait, WakeSpuriously, Relock,
       DequeueTest, ReadLink, FreeHead, Unlink, ResetTail, UnlockDequeued,
       ShrinkPool, KeepWorker, Engage, Leave, WorkerFault
  <2>2. CASE DequeueEmpty(w)
    BY <2>2 DEF DequeueEmpty
  <2>3. CASE ReadElem(w)
    <3>1. wpc[w] = "read" /\ queue_mutex = w
      BY <2>3 DEF ReadElem
    <3>2. head # NULL /\ head \in assigned
      BY <3>1 DEF PointersOK
    <3>3. fd' = [fd EXCEPT ![w] = head]
      BY <2>3, <3>2 DEF ReadElem
    <3>4. ASSUME NEW v \in Workers, v # w
          PROVE  fd[v] # head
      BY <3>1, <3>2, <3>4
    <3> QED BY <3>1, <3>2, <3>3, <3>4
  <2>4. CASE Serve(w)
    BY <2>4 DEF Serve
  <2> QED BY <1>3, <2>1, <2>2, <2>3, <2>4
             DEF WorkerRuns
<1>4. CASE Cleanup \/ UNCHANGED vars
  BY <1>1, <1>4, CleanupStep DEF vars
<1> QED BY <1>2, <1>3, <1>4
           DEF Next, MainNext

(***************************************************************************)
(* The theorems.                                                           *)
(***************************************************************************)

LEMMA InitInv == Init => IInv
<1> SUFFICES ASSUME Init PROVE IInv
  OBVIOUS
<1> USE PoolAssumption, WorkersAssumption, ClientsAssumption DEF Init
<1>1. WorkersAt(Counted) = {} /\ WorkersAt(Members) = {}
  BY CountedLocations DEF WorkersAt
<1>2. Cardinality(Workers) \in Nat /\ Cardinality({}) = 0
  BY FS_CardinalityType, FS_EmptySet
<1>3. FreeCountExact /\ PoolSizeExact /\ PoolWithinBounds
  BY <1>1, <1>2 DEF FreeCountExact, PoolSizeExact, PoolWithinBounds
<1>4. LocationsOK
  <2>1. wpc \in [Workers -> WorkerLocations]
    BY DEF WorkerLocations
  <2>2. mpc \in MainLocations
    BY DEF MainLocations
  <2>3. accepted \in 0..MaxClients
    OBVIOUS
  <2>4. /\ queue_mutex \in Workers \cup {Main, Free}
        /\ stolen \in BOOLEAN /\ heard \in BOOLEAN
        /\ fault \in BOOLEAN /\ exited \in BOOLEAN
    OBVIOUS
  <2> QED BY <2>1, <2>2, <2>3, <2>4 DEF LocationsOK
<1>5. MemoryOK
  <2>1. fd \in [Workers -> {NoFd} \cup 0..MaxClients]
    OBVIOUS
  <2>2. next \in [Clients -> 0..MaxClients]
    BY DEF NULL
  <2> QED BY <2>1, <2>2 DEF MemoryOK, NULL
<1>6. free_workers_count \in 0..Cardinality(Workers) /\ pool_size \in 0..K
  BY <1>2
<1>7. TypeOK
  BY <1>4, <1>5, <1>6 DEF TypeOK, LocationsOK, MemoryOK
<1>8. MainOK /\ QueueOwned /\ ClientsExclusive
  BY DEF MainOK, QueueOwned, ClientsExclusive, MainInQueue, WorkerInQueue
<1>9. QueueOK
  BY DEF QueueOK, PointersOK, NodesOK, OrderOK, NULL, NoFd
<1> QED BY <1>3, <1>7, <1>8, <1>9 DEF IInv

LEMMA Invariance == Spec => []IInv
<1>1. IInv /\ [Next]_vars => IInv'
  <2> SUFFICES ASSUME IInv, [Next]_vars PROVE IInv'
    OBVIOUS
  <2>1. TypeOK' /\ MainOK'
    BY TypeStep, MainStep
  <2>2. FreeCountExact' /\ PoolSizeExact' /\ PoolWithinBounds'
    BY FreeCountStep, PoolSizeStep
  <2>3. QueueOwned' /\ ClientsExclusive'
    BY OwnedStep, ExclusiveStep
  <2>4. QueueOK'
    BY FaultStep, PointersStep, NodesStep, OrderStep DEF QueueOK
  <2> QED BY <2>1, <2>2, <2>3, <2>4 DEF IInv
<1> QED BY InitInv, <1>1, PTL DEF Spec

(***************************************************************************)
(* The wakeups.                                                            *)
(***************************************************************************)

\* Where a worker is that has been woken and has not yet emptied the queue.
Taking == {"relock", "dequeue", "read", "read_link", "free", "unlink"}

\* heard is about the signals of main's last client: from the first of them to
\* the next accept a client in the queue has somebody on the way.
WakeupOK ==
  IF mpc \in {"signal_again", "accept"}
  THEN heard /\ head # NULL => \E w \in Workers : wpc[w] \in Taking
  ELSE ~heard

LEMMA WakeupStep == TypeOK /\ WakeupOK /\ [Next]_vars => WakeupOK'
<1> SUFFICES ASSUME TypeOK, WakeupOK, [Next]_vars
             PROVE  WakeupOK'
  OBVIOUS
<1> USE DEF TypeOK, WakeupOK, MainGoes, WorkerGoes, workerVars, mainVars, ghostVars,
            queueVars
<1>1. CASE UNCHANGED <<mpc, heard, head, wpc>>
  BY <1>1
<1>2. CASE Boot \/ CreateWorker
  BY <1>2 DEF Boot, CreateWorker, Spawn
<1>3. CASE SetPoolSize
  BY <1>3 DEF SetPoolSize
<1>4. CASE Accept
  BY <1>4 DEF Accept
<1>5. CASE LockQueue \/ EnqueueTest \/ FirstHead \/ FirstTail \/ FirstTest \/ FirstElem
  BY <1>5 DEF LockQueue, EnqueueTest, FirstHead, FirstTail, FirstTest, FirstElem
<1>6. CASE Link \/ LinkElem \/ Advance \/ UnlockQueue \/ CheckFree \/ GrowPool \/ PoolFull
  BY <1>6 DEF Link, LinkElem, Advance, UnlockQueue, CheckFree, GrowPool, PoolFull
<1>7. CASE Signal \/ SignalAgain
  <2>1. /\ \/ mpc = "signal" /\ mpc' = "signal_again" /\ ~heard
           \/ mpc = "signal_again" /\ mpc' = "accept"
        /\ head' = head
    <3>1. CASE Signal
      BY <3>1 DEF Signal
    <3>2. CASE SignalAgain
      BY <3>2 DEF SignalAgain
    <3> QED BY <1>7, <3>1, <3>2
  <2>2. CASE WorkersAt({"asleep"}) = {} /\ UNCHANGED <<wpc, heard>>
    BY <2>1, <2>2
  <2>3. ASSUME NEW w \in Workers, wpc' = [wpc EXCEPT ![w] = "relock"]
        PROVE  \E v \in Workers : wpc'[v] \in Taking
    BY <2>3 DEF Taking
  <2> QED BY <1>7, <2>1, <2>2, <2>3 DEF Signal, SignalAgain, WakeOne
<1>8. ASSUME NEW w \in Workers,
             \/ BecomeFree(w) \/ CondWait(w) \/ WakeSpuriously(w) \/ Relock(w)
             \/ DequeueTest(w) \/ ReadElem(w) \/ ReadLink(w) \/ FreeHead(w)
             \/ ResetTail(w) \/ UnlockDequeued(w) \/ ShrinkPool(w) \/ KeepWorker(w)
             \/ Engage(w) \/ Serve(w) \/ Leave(w)
      PROVE  WakeupOK'
  <2>1. /\ UNCHANGED <<mpc, heard, head>>
        /\ \E to \in WorkerLocations :
             wpc' = [wpc EXCEPT ![w] = to] /\ (wpc[w] \in Taking => to \in Taking)
    BY <1>8 DEF BecomeFree, CondWait, WakeSpuriously, Relock, DequeueTest, ReadElem,
                ReadLink, FreeHead, ResetTail, UnlockDequeued, ShrinkPool, KeepWorker,
                Engage, Serve, Leave, Taking, WorkerLocations
  <2>2. ASSUME NEW v \in Workers, wpc[v] \in Taking
        PROVE  wpc'[v] \in Taking
    BY <2>1, <2>2
  <2> QED BY <2>1, <2>2
<1>9. ASSUME NEW w \in Workers, DequeueEmpty(w) \/ Unlink(w)
      PROVE  WakeupOK'
  <2>1. UNCHANGED <<mpc, heard>> /\ head' = NULL
    BY <1>9 DEF DequeueEmpty, Unlink
  <2> QED BY <2>1
<1>10. CASE MainFault \/ Cleanup \/ \E w \in Workers : WorkerFault(w)
  BY <1>10 DEF MainFault, Cleanup, WorkerFault
<1>11. CASE UNCHANGED vars
  BY <1>11 DEF vars
<1> QED BY <1>2, <1>3, <1>4, <1>5, <1>6, <1>7, <1>8, <1>9, <1>10, <1>11
        DEF Next, MainNext, WorkerRuns

\* The variables of the pool keep their types: no counter wraps around.
THEOREM TypeCorrect == Spec => []TypeOK
<1>1. IInv => TypeOK
  BY DEF IInv
<1> QED BY <1>1, Invariance, PTL

\* free_workers_count counts exactly the workers between their increment and
\* their decrement.
THEOREM FreeCountCorrect == Spec => []FreeCountExact
<1>1. IInv => FreeCountExact
  BY DEF IInv
<1> QED BY <1>1, Invariance, PTL

\* pool_size counts exactly the members of the pool.
THEOREM PoolSizeCorrect == Spec => []PoolSizeExact
<1>1. IInv => PoolSizeExact
  BY DEF IInv
<1> QED BY <1>1, Invariance, PTL

\* The pool never has fewer than N members nor more than K.
THEOREM PoolBoundsCorrect == Spec => []PoolWithinBounds
<1>1. IInv => PoolWithinBounds
  BY DEF IInv
<1> QED BY <1>1, Invariance, PTL

\* Until a wait releases a lock that another thread holds, the thread that
\* works on the queue holds queue_mutex.
THEOREM OwnershipCorrect == Spec => []QueueOwned
<1>1. IInv => QueueOwned
  BY DEF IInv
<1> QED BY <1>1, Invariance, PTL

\* Until then, no null or freed pointer is followed.
THEOREM PointersCorrect == Spec => []NoWildPointer
<1>1. IInv => NoWildPointer
  BY DEF IInv, QueueOK, NoWildPointer
<1> QED BY <1>1, Invariance, PTL

\* Until then, no client is in the hands of two workers.
THEOREM ExclusionCorrect == Spec => []ClientsExclusive
<1>1. IInv => ClientsExclusive
  BY DEF IInv
<1> QED BY <1>1, Invariance, PTL

\* No wakeup is lost on an empty queue: a client that is in the queue when main
\* is back at accept, and whose signal woke somebody, has a worker coming.
THEOREM WakeupCorrect == Spec => []WakeupKept
<1>1. Init => WakeupOK
  BY DEF Init, WakeupOK
<1>2. IInv => TypeOK
  BY DEF IInv
<1>3. WakeupOK => WakeupKept
  BY DEF WakeupOK, WakeupKept, Taking, WorkerInQueue
<1> QED BY <1>1, <1>2, <1>3, Invariance, WakeupStep, PTL DEF Spec
=============================================================================
