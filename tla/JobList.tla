------------------------------- MODULE JobList ------------------------------
(***************************************************************************)
(* What lab4/job.h promises: numbered background jobs.  A new job gets the *)
(* least number that is free and keeps it until it is deleted.             *)
(***************************************************************************)
EXTENDS Integers

CONSTANTS Pids,      \* process identifiers of jobs
          Ids        \* job numbers that are asked for

VARIABLES listed,    \* the pid of each job; DOMAIN listed has its number
          answer     \* what the last call returned

vars == <<listed, answer>>

Numbers == DOMAIN listed

Init == Numbers = {} /\ answer = 0

\* The new job's number is the answer.
Add(pid) ==
  /\ answer' \in Nat \ (Numbers \cup {0})
  /\ \A k \in 1..(answer' - 1) : k \in Numbers
  /\ listed' = [k \in Numbers \cup {answer'} |->
                  IF k = answer' THEN pid ELSE listed[k]]

PidOf(id) ==
  /\ answer' = IF id \in Numbers THEN listed[id] ELSE 0
  /\ UNCHANGED listed

\* The least number of a job with this pid, or 0.
Finds(pid, id) ==
  \/ /\ id \in Numbers /\ listed[id] = pid
     /\ \A k \in Numbers : listed[k] = pid => id <= k
  \/ id = 0 /\ \A k \in Numbers : listed[k] # pid

NumberOf(pid) == Finds(pid, answer') /\ UNCHANGED listed

Without(id) == [k \in Numbers \ {id} |-> listed[k]]

DeleteId(id) == listed' = Without(id) /\ UNCHANGED answer

DeletePid(pid) ==
  /\ \E id \in Numbers \cup {0} : Finds(pid, id) /\ listed' = Without(id)
  /\ UNCHANGED answer

Next ==
  \/ \E pid \in Pids : Add(pid) \/ NumberOf(pid) \/ DeletePid(pid)
  \/ \E id \in Ids : PidOf(id) \/ DeleteId(id)

Spec == Init /\ [][Next]_vars
=============================================================================
