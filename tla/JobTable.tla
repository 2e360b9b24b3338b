------------------------------ MODULE JobTable ------------------------------
(***************************************************************************)
(* lab4/job.c: the table of background jobs of the shell, one call at a    *)
(* time.  Memory is always there (TRY_ALLOC leaves the shell otherwise).   *)
(* From the first growth on, the last place of the table reaches three     *)
(* bytes past the block that realloc was asked for; allocators round such  *)
(* blocks up, and the model takes what was written there to stay.          *)
(***************************************************************************)
EXTENDS Integers

CONSTANTS
  Pids,        \* process identifiers
  Ids,         \* job numbers that callers ask for
  Capacity,    \* first capacity of the table (255)
  MaxCapacity  \* bound: the table does not grow past it

ASSUME PidsAssumption == Pids \subseteq Nat \ {0}
ASSUME IdsAssumption == Ids \subseteq Nat
ASSUME CapacityAssumption == Capacity \in Nat \ {0} /\ MaxCapacity \in Nat

VARIABLES
  jobs_capacity,
  jobs,          \* the table, from place 0 to place jobs_capacity
  result         \* what the last call returned

tableVars == <<jobs_capacity, jobs, result>>

\* The pointer is NULL until the first job is added.
NULL == [i \in {} |-> 0]

Places == 1..jobs_capacity

TableInit == jobs_capacity = Capacity /\ jobs = NULL /\ result = 0

\* calloc, at the first job.
Table == IF jobs = NULL THEN [i \in 0..jobs_capacity |-> 0] ELSE jobs

\* Mutant: the search for a free place starts at place 0.
AddFromZero(pid) ==
  \E i \in {0} \cup Places :
    /\ Table[i] = 0
    /\ \A k \in 0..(i - 1) : Table[k] # 0
    /\ jobs' = [Table EXCEPT ![i] = pid]
    /\ result' = i
    /\ UNCHANGED jobs_capacity

\* The first free place gets the job.
Add(pid) ==
  \E i \in Places :
    /\ Table[i] = 0
    /\ \A k \in 1..(i - 1) : Table[k] # 0
    /\ jobs' = [Table EXCEPT ![i] = pid]
    /\ result' = i
    /\ UNCHANGED jobs_capacity

\* Mutant: the loop that clears the new half of the table stops before its
\* last place, which keeps what the memory had before.
GrowUncleared(pid) ==
  /\ \A k \in Places : Table[k] # 0
  /\ 2 * jobs_capacity <= MaxCapacity
  /\ jobs_capacity' = 2 * jobs_capacity
  /\ jobs' = [k \in 0..jobs_capacity' |->
                IF k \in DOMAIN Table THEN Table[k]
                ELSE IF k \in {jobs_capacity + 1, jobs_capacity'} THEN pid
                ELSE 0]
  /\ result' = jobs_capacity + 1

\* No place is free: the table is doubled, its new half is cleared, and the
\* job gets the first place of it.
Grow(pid) ==
  /\ \A k \in Places : Table[k] # 0
  /\ 2 * jobs_capacity <= MaxCapacity
  /\ jobs_capacity' = 2 * jobs_capacity
  /\ jobs' = [k \in 0..jobs_capacity' |->
                IF k \in DOMAIN Table THEN Table[k]
                ELSE IF k = jobs_capacity + 1 THEN pid ELSE 0]
  /\ result' = jobs_capacity + 1

get_job(id) ==
  /\ result' = IF jobs = NULL \/ id > jobs_capacity THEN 0 ELSE jobs[id]
  /\ UNCHANGED <<jobs_capacity, jobs>>

\* i is the first place with this pid, or 0 when there is none.
Finds(pid, i) ==
  \/ /\ jobs # NULL
     /\ i \in Places /\ jobs[i] = pid
     /\ \A k \in 1..(i - 1) : jobs[k] # pid
  \/ /\ i = 0
     /\ jobs # NULL => \A k \in Places : jobs[k] # pid

get_job_id(pid) ==
  /\ \E i \in {0} \cup Places : Finds(pid, i) /\ result' = i
  /\ UNCHANGED <<jobs_capacity, jobs>>

\* Place 0 is cleared like any other: it is 0 anyhow.
Clear(id) ==
  /\ jobs' = IF jobs = NULL \/ id > jobs_capacity THEN jobs
             ELSE [jobs EXCEPT ![id] = 0]
  /\ UNCHANGED <<jobs_capacity, result>>

delete_job_by_id(id) == Clear(id)

delete_job_by_pid(pid) ==
  \E i \in {0} \cup Places : Finds(pid, i) /\ Clear(i)

TableNext ==
  \/ \E pid \in Pids :
       Add(pid) \/ Grow(pid) \/ get_job_id(pid) \/ delete_job_by_pid(pid)
  \/ \E id \in Ids : get_job(id) \/ delete_job_by_id(id)

TableSpec == TableInit /\ [][TableNext]_tableVars

-----------------------------------------------------------------------------
(* Correctness.                                                            *)

\* The table has a place for every number up to its capacity, and place 0,
\* which stands for "no job", is never taken.
TypeOK ==
  /\ jobs_capacity \in Nat \ {0}
  /\ jobs # NULL =>
       /\ jobs \in [0..jobs_capacity -> Pids \cup {0}]
       /\ jobs[0] = 0
  /\ result \in Nat

\* The jobs by number.
Listed ==
  LET taken == IF jobs = NULL THEN {} ELSE {i \in Places : jobs[i] # 0}
  IN  [i \in taken |-> jobs[i]]

\* The table keeps the promise of job.h: a job gets the least free number and
\* keeps it, whatever else is added, deleted or looked up, and however often
\* the table grows meanwhile.
Jobs == INSTANCE JobList WITH listed <- Listed, answer <- result
JobRefinement == Jobs!Spec
=============================================================================
