---------------------------- MODULE StringThreads ----------------------------
(***************************************************************************)
(* lab5: the programs whose threads rewrite one string.  multithread.c     *)
(* ("rounds": two threads per round, joined, under a semaphore of either   *)
(* kind), multithread6.c ("mutex": two endless threads) and                *)
(* multithread7.c ("rwlock": a third one counts capitals).                 *)
(*                                                                         *)
(* One step of a loop is one index of the string.  A lock that is          *)
(* initialised while a thread holds it is broken, and the model follows    *)
(* the threads no further.  multithread.c run without a lock, and the      *)
(* unlocked puts of multithread7.c, which changes nothing, are left out.   *)
(***************************************************************************)
EXTENDS Integers, Sequences, SequencesExt, FiniteSetsExt, Functions

CONSTANTS
  Upper,       \* the capital of every small letter
  Source       \* the string each program starts with

Programs == {"rounds", "mutex", "rwlock"}
Threads  == {"main", "reverse", "change", "count"}
Rounds   == 5      \* how often a thread goes over the string, under one lock

Letters == DOMAIN Upper \cup Range(Upper)

\* A letter is either a capital or a small one, and has one counterpart.
ASSUME UpperAssumption ==
  /\ DOMAIN Upper \cap Range(Upper) = {}
  /\ \A k, l \in DOMAIN Upper : Upper[k] = Upper[l] => k = l

\* Only multithread7.c looks whether a character is a letter.
ASSUME SourceAssumption ==
  /\ DOMAIN Source = Programs
  /\ \A q \in Programs : Source[q] \in Seq(Range(Source[q])) /\ Source[q] # <<>>
  /\ \A q \in {"rounds", "mutex"} : Source[q] \in Seq(Letters)

VARIABLES
  program,     \* which program runs; never changes
  toy,         \* the string
  at,          \* where each thread is
  i, j,        \* its loop variables
  cnt,         \* capitals counted so far
  writer,      \* the thread that holds the lock for itself, or "none"
  readers,     \* the threads that share it
  broken,      \* init_sync was called while the lock was held
  ended,       \* the process has ended
  settled,     \* the string when the lock was last let go by a writer
  shown        \* the last string printed

loop == <<i, j, cnt>>
lock == <<writer, readers, broken>>
vars == <<program, toy, at, loop, lock, ended, settled, shown>>

len == Len(toy)

\* The threads a program has besides main.
Started == IF program = "rwlock" THEN Threads \ {"main"}
           ELSE {"reverse", "change"}

Held == writer # "none" \/ readers # {}

Init ==
  /\ program \in Programs
  /\ toy = Source[program] /\ settled = toy /\ shown = toy
  /\ at = [t \in Threads |-> IF t = "main" THEN "create" ELSE "none"]
  /\ i = [t \in Threads |-> 0] /\ j = [t \in Threads |-> 0] /\ cnt = 0
  /\ writer = "none" /\ readers = {}
  /\ broken = FALSE /\ ended = FALSE

Goes(t, from, to) ==
  /\ ~ended /\ ~broken
  /\ at[t] = from
  /\ at' = [at EXCEPT ![t] = to]
  /\ UNCHANGED <<program, ended>>

-----------------------------------------------------------------------------
(* main                                                                    *)

\* In every round, or once: all threads are created, one after another, but
\* they need not have begun.
Create ==
  /\ ~ended /\ ~broken
  /\ at["main"] = "create"
  /\ at' = [t \in Threads |->
              IF t = "main" THEN IF program = "rounds" THEN "join" ELSE "init"
              ELSE IF t \in Started THEN "lock" ELSE at[t]]
  /\ UNCHANGED <<program, toy, loop, lock, ended, settled, shown>>

\* init_sync() comes after the threads that use the lock; before, it is a
\* static one, all zeros, and works.
InitSync ==
  /\ Goes("main", "init", IF program = "mutex" THEN "lock" ELSE "idle")
  /\ broken' = Held
  /\ writer' = "none" /\ readers' = {}
  /\ UNCHANGED <<toy, loop, settled, shown>>

\* Mutant: only the first thread is joined.
JoinFirst ==
  /\ Goes("main", "join", "show")
  /\ at["reverse"] = "ended"
  /\ UNCHANGED <<toy, loop, lock, settled, shown>>

Join ==
  /\ Goes("main", "join", "show")
  /\ \A t \in Started : at[t] = "ended"
  /\ UNCHANGED <<toy, loop, lock, settled, shown>>

\* puts(toy)
Show ==
  /\ Goes("main", "show", IF program = "rounds" THEN "create" ELSE "unlock")
  /\ shown' = toy
  /\ UNCHANGED <<toy, loop, lock, settled>>

-----------------------------------------------------------------------------
(* The lock.                                                               *)

\* Mutant: a writer takes the lock as a reader does.
LockShared(t) ==
  /\ Goes(t, "lock", IF t = "main" THEN "show" ELSE "loop")
  /\ t # "count"
  /\ writer = "none" /\ readers' = readers \cup {t}
  /\ i' = [i EXCEPT ![t] = 0] /\ j' = [j EXCEPT ![t] = 0]
  /\ UNCHANGED <<toy, cnt, writer, broken, settled, shown>>

\* lock() and wlock()
Lock(t) ==
  /\ Goes(t, "lock", IF t = "main" THEN "show" ELSE "loop")
  /\ t # "count"
  /\ ~Held /\ writer' = t
  /\ i' = [i EXCEPT ![t] = 0] /\ j' = [j EXCEPT ![t] = 0]
  /\ UNCHANGED <<toy, cnt, readers, broken, settled, shown>>

\* rlock()
RLock ==
  /\ Goes("count", "lock", "loop")
  /\ writer = "none" /\ readers' = readers \cup {"count"}
  /\ i' = [i EXCEPT !["count"] = 0] /\ cnt' = 0
  /\ UNCHANGED <<toy, j, writer, broken, settled, shown>>

\* Mutant: a thread forgets to unlock.
UnlockForgotten(t) ==
  /\ Goes(t, "unlock", IF program = "rounds" THEN "ended" ELSE "lock")
  /\ settled' = IF t \in {"reverse", "change"} THEN toy ELSE settled
  /\ UNCHANGED <<toy, loop, lock, shown>>

\* The threads of a round end; the others come back.
Unlock(t) ==
  /\ Goes(t, "unlock", IF program = "rounds" THEN "ended" ELSE "lock")
  /\ writer' = IF writer = t THEN "none" ELSE writer
  /\ readers' = readers \ {t}
  /\ settled' = IF t \in {"reverse", "change"} THEN toy ELSE settled
  /\ UNCHANGED <<toy, loop, broken, shown>>

-----------------------------------------------------------------------------
(* The loops: Rounds times over the string, under one lock.                *)

\* The next index below limit, or the first one of the next round.
Advances(t, limit) ==
  IF i[t] + 1 < limit
  THEN i' = [i EXCEPT ![t] = @ + 1] /\ UNCHANGED j
  ELSE i' = [i EXCEPT ![t] = 0] /\ j' = [j EXCEPT ![t] = @ + 1]

Finished(t) == j[t] = Rounds

\* toy[k] and toy[len - k - 1] change places.
Swapped(k) == [toy EXCEPT ![k + 1] = toy[len - k], ![len - k] = toy[k + 1]]

Swap ==
  /\ ~Finished("reverse")
  /\ Goes("reverse", "loop", "loop")
  /\ toy' = Swapped(i["reverse"])
  /\ Advances("reverse", len \div 2)
  /\ UNCHANGED <<cnt, lock, settled, shown>>

Atomic == INSTANCE AtomicString WITH text <- settled

\* Mutant: the last character is missed.
ChangeButLast ==
  /\ ~Finished("change")
  /\ Goes("change", "loop", "loop")
  /\ toy' = [toy EXCEPT ![i["change"] + 1] = Atomic!OtherCase(@)]
  /\ Advances("change", len - 1)
  /\ UNCHANGED <<cnt, lock, settled, shown>>

ChangeCase ==
  /\ ~Finished("change")
  /\ Goes("change", "loop", "loop")
  /\ toy' = [toy EXCEPT ![i["change"] + 1] = Atomic!OtherCase(@)]
  /\ Advances("change", len)
  /\ UNCHANGED <<cnt, lock, settled, shown>>

LoopEnds(t) ==
  /\ t \in {"reverse", "change"} /\ Finished(t)
  /\ Goes(t, "loop", "unlock")
  /\ UNCHANGED <<toy, loop, lock, settled, shown>>

Count ==
  /\ Goes("count", "loop", IF i["count"] + 1 = len THEN "unlock" ELSE "loop")
  /\ cnt' = cnt + (IF toy[i["count"] + 1] \in Range(Upper) THEN 1 ELSE 0)
  /\ i' = [i EXCEPT !["count"] = @ + 1]
  /\ UNCHANGED <<toy, j, lock, settled, shown>>

-----------------------------------------------------------------------------
\* A signal, or a call that fails: the process ends where it is.
End == ~ended /\ ended' = TRUE
       /\ UNCHANGED <<program, toy, at, loop, lock, settled, shown>>

MainStep == Create \/ InitSync \/ Join \/ Show \/ Lock("main") \/ Unlock("main")

ThreadStep(t) ==
  \/ Lock(t) \/ Unlock(t) \/ LoopEnds(t)
  \/ t = "reverse" /\ Swap
  \/ t = "change" /\ ChangeCase
  \/ t = "count" /\ (RLock \/ Count)

Next == MainStep \/ End \/ \E t \in Threads \ {"main"} : ThreadStep(t)

Fairness ==
  WF_vars(MainStep) /\ \A t \in Threads \ {"main"} : WF_vars(ThreadStep(t))

Spec == Init /\ [][Next]_vars /\ Fairness

-----------------------------------------------------------------------------
(* Correctness.                                                            *)

\* Seen at the unlocks, five passes of each loop over the string come to one
\* reversal or one change of case, and no pass meets another's half-done work.
Refinement == Atomic!Spec

\* What main prints under a lock, or after a join, is a whole string, and in
\* multithread.c one that each thread has gone over exactly once since the
\* last.
ShownWhole ==
  [][ shown' # shown =>
        /\ shown' = settled
        /\ program = "rounds" =>
             shown' = Reverse(Atomic!Turned(shown)) ]_vars

\* The number of capitals that is printed is that of one whole string.
CountOfOne ==
  ~broken /\ at["count"] = "unlock" =>
    cnt = Quantify(DOMAIN settled, LAMBDA k : settled[k] \in Range(Upper))

\* A round of multithread.c ends: no thread keeps the other or main waiting.
RoundEnds ==
  program = "rounds" /\ at["main"] = "join" ~> at["main"] = "show" \/ ended
=============================================================================
