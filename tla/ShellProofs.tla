----------------------------- MODULE ShellProofs -----------------------------
(***************************************************************************)
(* Proofs about the processes of lab4's shell, for any number of them and  *)
(* any lines: of all the shells that a session grows one is in front, with *)
(* the terminal, and each lists the children it has not reaped.            *)
(***************************************************************************)
EXTENDS Shell, SequenceTheorems, FiniteSetTheorems, WellFoundedInduction, TLAPS

(***************************************************************************)
(* The inductive invariant.                                                *)
(***************************************************************************)

Commands == [kind : Kinds, bg : BOOLEAN]

Process ==
  [at : ShellAt \cup OtherAt \cup {"none", "zombie", "gone"},
   parent : Pids \cup {None}, group : Pids \cup {None}, todo : Seq(Commands),
   fg : Pids \cup {None}, jobs : SUBSET Pids, pending : SUBSET Signals,
   stopped : BOOLEAN, handled : SUBSET Signals,
   saved : {"none", "cooked", "raw"}, input : {"tty", "other"}]

ProcessesOK ==
  /\ proc \in [Pids -> Process]
  /\ tty \in {"cooked", "raw"} /\ disturbed \in BOOLEAN

\* p waits for its command c.
WaitsFor(p, c) ==
  proc[p].at = "wait" /\ proc[p].fg = c /\ proc[c].parent = p

\* Parents are shells, and alive.
ParentOK(p) ==
  proc[p].parent # None =>
    /\ proc[p].parent # p
    /\ proc[proc[p].parent].at \in ShellAt \ {"child"}
    /\ Alive(p) \/ Zombie(p)

\* A command that a shell waits for is its child, alive or dead; a shell has
\* one only while it waits.
WaitOK(p) ==
  IF proc[p].at = "wait" THEN proc[p].fg \in Pids /\ proc[proc[p].fg].parent = p
                         ELSE proc[p].fg = None

\* Commands are left, somebody reaps the dead, and who has been told to stop is
\* a shell.
StateOK(p) ==
  /\ proc[p].at \in {"child", "wait"} => proc[p].todo # <<>>
  /\ Zombie(p) => proc[p].parent # None
  /\ "TERM" \in proc[p].pending => proc[p].at \in ShellAt \ {"child"}

FamilyOK == \A p \in Pids : ParentOK(p) /\ WaitOK(p) /\ StateOK(p)

\* The first shell and what is in front with it.
FrontOK ==
  /\ proc[First].at \in (ShellAt \ {"child"}) \cup {"gone"}
  /\ proc[First].parent = None
  /\ ~Over => Foreground(First)
  /\ \A p \in Pids :
       /\ proc[p].stopped => ~Foreground(p)
       /\ Foreground(p) => Alive(p)
       /\ Foreground(p) /\ proc[p].parent # None => Foreground(proc[p].parent)
       /\ proc[p].at = "read" => Foreground(p) /\ proc[p].saved # "none"
       /\ proc[p].saved # "none" =>
            Foreground(p) /\ proc[p].at \in {"reap", "init", "read", "bye"}

\* What a shell in front waits for is in front as well, or dead, and whatever
\* is in front is waited for, unless it was meant for the background or leaves.
ChainOK ==
  \A p \in Pids : Foreground(p) =>
    /\ proc[p].at = "wait" =>
         \/ Zombie(proc[p].fg)
         \/ /\ Foreground(proc[p].fg)
            /\ proc[proc[p].fg].at = "child" => ~Head(proc[proc[p].fg].todo).bg
    /\ \/ p = First
       \/ proc[p].at = "exiting"
       \/ proc[p].at = "child" /\ Head(proc[p].todo).bg
       \/ proc[p].parent # None /\ WaitsFor(proc[p].parent, p)

\* The end of that chain.
Tip(p) ==
  /\ Foreground(p)
  /\ proc[p].at = "wait" => Zombie(proc[p].fg)
  /\ proc[p].at \in {"child", "exiting"} =>
       proc[p].parent # None /\ WaitsFor(proc[p].parent, p)

TipOK == \A p, q \in Pids : Tip(p) /\ Tip(q) => p = q

\* Who has made the terminal raw will make it cooked again.
TerminalOK ==
  /\ \A p \in Pids : proc[p].saved \in {"none", "cooked"}
  /\ tty = "raw" <=> \E p \in Pids : proc[p].saved # "none"

IInv ==
  /\ ProcessesOK /\ FamilyOK /\ FrontOK
  /\ ~disturbed => ChainOK /\ TipOK /\ TerminalOK /\ JobsListed

(***************************************************************************)
(* The steps.                                                              *)
(***************************************************************************)

Gone == [NoProcess EXCEPT !.at = "gone"]

LEMMA Constants ==
  /\ First \in Pids /\ First # None /\ None \notin Pids /\ Pids \subseteq Nat
  /\ NoProcess \in Process /\ Gone \in Process
  /\ \A l \in Lines : l \in Seq(Commands)
<1>1. First \in Pids /\ First # None /\ None \notin Pids /\ Pids \subseteq Nat
  BY MaxPidAssumption DEF First, None, Pids
<1>2. <<>> \in Seq(Commands)
  BY EmptySeq
<1>3. NoProcess \in Process /\ Gone \in Process
  BY <1>2 DEF NoProcess, Gone, Process
<1> QED BY <1>1, <1>3, LinesAssumption DEF Commands

LEMMA Fields ==
  ASSUME ProcessesOK, NEW p \in Pids
  PROVE  /\ proc[p].at \in ShellAt \cup OtherAt \cup {"none", "zombie", "gone"}
         /\ proc[p].parent \in Pids \cup {None} /\ proc[p].group \in Pids \cup {None}
         /\ proc[p].todo \in Seq(Commands) /\ proc[p].fg \in Pids \cup {None}
         /\ proc[p].jobs \subseteq Pids /\ proc[p].pending \subseteq Signals
         /\ proc[p].stopped \in BOOLEAN /\ proc[p].handled \subseteq Signals
         /\ proc[p].saved \in {"none", "cooked", "raw"}
BY DEF ProcessesOK, Process

LEMMA Rest ==
  ASSUME NEW s \in Seq(Commands), s # <<>>
  PROVE  Tail(s) \in Seq(Commands) /\ Head(s) \in Commands
BY HeadTailProperties

LEMMA NextPidFree == Free # {} => NextPid \in Free
<1> SUFFICES ASSUME Free # {}
             PROVE  \E q \in Free : \A r \in Free : q <= r
  BY DEF NextPid
<1>1. Free \subseteq Nat
  BY Constants DEF Free
<1> DEFINE R == {ss \in Nat \X Nat : ss[1] < ss[2]}
<1>2. IsWellFoundedOn(R, Nat)
  BY NatLessThanWellFounded DEF OpToRel
<1> HIDE DEF R
<1>3. PICK q \in Free : \A r \in Free : <<r, q>> \notin R
  BY <1>1, <1>2, WFMin
<1>4. ASSUME NEW r \in Nat, NEW p \in Nat, r < p
      PROVE  <<r, p>> \in R
  <2> DEFINE ss == <<r, p>>
  <2>1. ss \in Nat \X Nat /\ ss[1] < ss[2]
    BY <1>4
  <2> QED BY <2>1 DEF R
<1>5. ASSUME NEW r \in Free
      PROVE  q <= r
  <2>1. r \in Nat /\ q \in Nat
    BY <1>1
  <2>2. ~ (r < q)
    BY <1>3, <1>4, <2>1
  <2> QED BY <2>1, <2>2
<1> QED BY <1>5

\* What is left of the processes when p has ended.
LEMMA EndedOK ==
  ASSUME ProcessesOK, NEW p \in Pids, proc' = Ended(proc, p)
  PROVE  /\ proc' \in [Pids -> Process]
         /\ proc'[p] = IF proc[p].parent = None THEN Gone
                       ELSE [NoProcess EXCEPT !.at = "zombie", !.parent = proc[p].parent]
         /\ \A q \in Pids \ {p} :
              proc'[q] = IF proc[q].parent # p THEN proc[q]
                         ELSE IF Zombie(q) THEN Gone
                         ELSE [proc[q] EXCEPT !.parent = None]
<1> DEFINE left == IF proc[p].parent = None THEN Gone
                   ELSE [NoProcess EXCEPT !.at = "zombie", !.parent = proc[p].parent]
           other(q) == IF proc[q].parent # p THEN proc[q]
                       ELSE IF Zombie(q) THEN Gone
                       ELSE [proc[q] EXCEPT !.parent = None]
<1>1. proc' = [q \in Pids |-> IF q = p THEN left ELSE other(q)]
  BY DEF Ended, Gone, Zombie
<1>2. left \in Process
  <2>1. "zombie" \in ShellAt \cup OtherAt \cup {"none", "zombie", "gone"}
        /\ proc[p].parent \in Pids \cup {None}
    BY DEF ProcessesOK, Process
  <2>2. [NoProcess EXCEPT !.at = "zombie", !.parent = proc[p].parent] \in Process
    BY <2>1, Constants, Zenon DEF Process
  <2> QED BY <2>2, Constants
<1>3. \A q \in Pids : other(q) \in Process
  BY Constants DEF ProcessesOK, Process
<1> QED BY <1>1, <1>2, <1>3

(***************************************************************************)
(* A process ends.                                                         *)
(***************************************************************************)

\* What the ways to end have in common.
Ends(p) ==
  /\ ~Over /\ Alive(p) /\ proc' = Ended(proc, p)
  /\ tty' \in {"cooked", "raw"} /\ disturbed' \in BOOLEAN
  /\ ~disturbed' =>
       /\ ~disturbed
       /\ Foreground(p) => proc[p].at \in OtherAt \cup {"bye"}
       /\ tty' = IF proc[p].saved = "none" THEN tty ELSE proc[p].saved

LEMMA EndsCases ==
  ASSUME ProcessesOK, FrontOK, NEW p \in Pids,
         End(p) \/ Goodnight(p) \/ Hangup(p)
           \/ (~Over /\ Alive(p) /\ Kill(p))
           \/ (~Over /\ proc[p].at = "bye" /\ Leave(p) /\ UNCHANGED disturbed)
  PROVE  Ends(p)
<1> USE DEF ProcessesOK, Process, FrontOK, Ends, Alive, OtherAt, ShellAt
<1>1. proc[p] \in Process
  OBVIOUS
<1>2. CASE End(p)
  BY <1>1, <1>2 DEF End, Runs
<1>3. CASE Goodnight(p) \/ (~Over /\ proc[p].at = "bye" /\ Leave(p) /\ UNCHANGED disturbed)
  BY <1>1, <1>3 DEF Goodnight, Leave
<1>4. CASE Hangup(p)
  BY <1>1, <1>4 DEF Hangup
<1>5. CASE ~Over /\ Alive(p) /\ Kill(p)
  BY <1>1, <1>5 DEF Kill, IsShell
<1> QED BY <1>2, <1>3, <1>4, <1>5

\* The same, field by field.
LEMMA EndsFields ==
  ASSUME ProcessesOK, NEW p \in Pids, Ends(p), ParentOK(p), NEW q \in Pids
  PROVE  /\ proc'[q].parent = IF proc[q].parent = p THEN None ELSE proc[q].parent
         /\ q = p => /\ proc'[q].at = IF proc[p].parent = None THEN "gone" ELSE "zombie"
         /\ q # p => proc'[q].at = IF proc[q].parent = p /\ Zombie(q) THEN "gone" ELSE proc[q].at
         /\ IF q = p \/ (proc[q].parent = p /\ Zombie(q))
            THEN /\ proc'[q].fg = None /\ proc'[q].pending = {} /\ proc'[q].group = None
                 /\ ~proc'[q].stopped /\ proc'[q].saved = "none"
            ELSE /\ proc'[q].fg = proc[q].fg /\ proc'[q].pending = proc[q].pending
                 /\ proc'[q].group = proc[q].group /\ (proc'[q].stopped <=> proc[q].stopped)
                 /\ proc'[q].saved = proc[q].saved /\ proc'[q].todo = proc[q].todo
                 /\ proc'[q].jobs = proc[q].jobs
<1>0. proc' = Ended(proc, p)
  BY DEF Ends
<1> USE DEF Gone, NoProcess
<1>1. CASE q = p
  <2>0. proc[p].parent # p
    BY Constants DEF ParentOK
  <2>1. CASE proc[p].parent = None
    <3>1. proc'[p] = Gone
      BY <1>0, <2>1, EndedOK
    <3> QED BY <1>1, <2>0, <2>1, <3>1
  <2>2. CASE proc[p].parent # None
    <3>1. proc'[p] = [NoProcess EXCEPT !.at = "zombie", !.parent = proc[p].parent]
      BY <1>0, <2>2, EndedOK
    <3> QED BY <1>1, <2>0, <2>2, <3>1
  <2> QED BY <2>1, <2>2
<1>2. CASE q # p /\ proc[q].parent = p
  <2>1. proc[q] \in Process
    BY DEF ProcessesOK
  <2>2. CASE Zombie(q)
    <3>1. proc'[q] = Gone
      BY <1>0, <1>2, <2>2, EndedOK
    <3> QED BY <1>2, <2>2, <3>1
  <2>3. CASE ~Zombie(q)
    <3>1. proc'[q] = [proc[q] EXCEPT !.parent = None]
      BY <1>0, <1>2, <2>3, EndedOK
    <3> QED BY <1>2, <2>1, <2>3, <3>1 DEF Process
  <2> QED BY <2>2, <2>3
<1>3. CASE q # p /\ proc[q].parent # p
  BY <1>0, <1>3, EndedOK, ZenonT(60)
<1> QED BY <1>1, <1>2, <1>3

LEMMA EndsFamily ==
  ASSUME ProcessesOK, FamilyOK, NEW p \in Pids, Ends(p)
  PROVE  ProcessesOK' /\ FamilyOK'
<1>1. ProcessesOK'
  BY EndedOK DEF Ends, ProcessesOK
<1>2. Alive(p) /\ proc[p].parent \in Pids \cup {None} /\ None \notin Pids
  BY Constants DEF Ends, ProcessesOK, Process
<1> USE <1>2, EndsFields DEF FamilyOK, Zombie, Alive, ShellAt, OtherAt
<1>3. ASSUME NEW q \in Pids
      PROVE  ParentOK(q)'
  <2>1. proc[q].parent \in Pids \cup {None}
    BY Fields
  <2>2. CASE q = p
    BY <2>1, <2>2 DEF ParentOK
  <2>3. CASE q # p
    BY <2>1, <2>3 DEF ParentOK
  <2> QED BY <2>2, <2>3
<1>4. ASSUME NEW q \in Pids
      PROVE  WaitOK(q)'
  BY DEF WaitOK, ParentOK
<1>5. ASSUME NEW q \in Pids
      PROVE  StateOK(q)'
  BY DEF StateOK, ParentOK
<1> QED BY <1>1, <1>3, <1>4, <1>5 DEF FamilyOK

LEMMA EndsFront ==
  ASSUME ProcessesOK, FamilyOK, FrontOK, NEW p \in Pids, Ends(p)
  PROVE  FrontOK'
<1>1. ParentOK(p) /\ Alive(p) /\ ~Over /\ proc[First].parent = None
  BY DEF FamilyOK, Ends, FrontOK
<1> USE <1>1, Constants DEF Foreground, Zombie, Alive, ShellAt, OtherAt, Over
<1>2. /\ proc'[First].at \in (ShellAt \ {"child"}) \cup {"gone"}
      /\ proc'[First].parent = None
      /\ ~Over' => Foreground(First)'
  BY EndsFields DEF FrontOK
<1>3. ASSUME NEW q \in Pids
      PROVE  /\ proc'[q].stopped => ~Foreground(q)'
             /\ Foreground(q)' => Alive(q)'
             /\ proc'[q].at = "read" => Foreground(q)' /\ proc'[q].saved # "none"
             /\ proc'[q].saved # "none" =>
                  Foreground(q)' /\ proc'[q].at \in {"reap", "init", "read", "bye"}
  BY EndsFields DEF FrontOK
<1>4. ASSUME NEW q \in Pids, NEW r \in Pids, Foreground(q)', proc'[q].parent = r
      PROVE  Foreground(r)'
  <2>1. proc[q].parent = r /\ r # p /\ Foreground(q)
    BY <1>4, EndsFields
  <2>2. Foreground(r) /\ Alive(r)
    BY <2>1 DEF FamilyOK, ParentOK, FrontOK
  <2> QED BY <2>1, <2>2, EndsFields
<1>5. ASSUME NEW q \in Pids, Foreground(q)', proc'[q].parent # None
      PROVE  Foreground(proc[q].parent)'
  <2>1. proc'[q].parent = proc[q].parent /\ proc[q].parent # None
    BY <1>5, EndsFields
  <2>2. PICK r \in Pids : proc[q].parent = r
    BY <2>1, Fields
  <2> QED BY <1>4, <1>5, <2>1, <2>2
<1> QED BY <1>2, <1>3, <1>5 DEF FrontOK

LEMMA EndsChain ==
  ASSUME ProcessesOK, FamilyOK, FrontOK, ChainOK, NEW p \in Pids, Ends(p), ~disturbed'
  PROVE  ChainOK'
<1>1. /\ ParentOK(p) /\ Alive(p)
      /\ Foreground(p) => proc[p].at \in OtherAt \cup {"bye"}
  BY DEF FamilyOK, Ends
<1> USE <1>1, Constants DEF Foreground, Zombie, Alive, ShellAt, OtherAt
<1>2. ASSUME NEW q \in Pids, Foreground(q)'
      PROVE  Foreground(q) /\ q # p /\ proc'[q].at = proc[q].at /\ proc'[q].fg = proc[q].fg
             /\ proc'[q].todo = proc[q].todo
  BY <1>2, EndsFields
<1>3. ASSUME NEW q \in Pids, NEW c \in Pids, Foreground(q)', proc[q].at = "wait", proc[q].fg = c
      PROVE  \/ Zombie(c)'
             \/ /\ Foreground(c)'
                /\ proc'[c].at = "child" => ~Head(proc'[c].todo).bg
  <2>1. proc[c].parent = q
    BY <1>2, <1>3 DEF FamilyOK, WaitOK
  <2>2. \/ Zombie(c)
        \/ Foreground(c) /\ (proc[c].at = "child" => ~Head(proc[c].todo).bg)
    BY <1>2, <1>3 DEF ChainOK
  <2>3. CASE c = p
    BY <1>3, <2>1, <2>3, EndsFields
  <2>4. CASE c # p
    BY <1>2, <1>3, <2>1, <2>2, <2>4, EndsFields
  <2> QED BY <2>3, <2>4
<1>4. ASSUME NEW q \in Pids, NEW r \in Pids, Foreground(q)', proc[q].parent = r, WaitsFor(r, q)
      PROVE  proc'[q].parent = r /\ WaitsFor(r, q)'
  <2>1. Foreground(r) /\ Foreground(q) /\ proc[r].at = "wait" /\ q # p
    BY <1>2, <1>4 DEF WaitsFor, FrontOK
  <2>2. r # p
    BY <1>2, <2>1
  <2> QED BY <1>2, <1>4, <2>1, <2>2, EndsFields DEF WaitsFor
<1>5. ASSUME NEW q \in Pids, Foreground(q)'
      PROVE  \/ q = First
             \/ proc'[q].at = "exiting"
             \/ proc'[q].at = "child" /\ Head(proc'[q].todo).bg
             \/ proc'[q].parent # None /\ WaitsFor(proc[q].parent, q)'
  <2>1. CASE q = First \/ proc[q].at = "exiting" \/ (proc[q].at = "child" /\ Head(proc[q].todo).bg)
    BY <1>2, <1>5, <2>1
  <2>2. CASE proc[q].parent # None /\ WaitsFor(proc[q].parent, q)
    <3>1. PICK r \in Pids : proc[q].parent = r
      BY <2>2, Fields
    <3>2. WaitsFor(r, q)
      BY <2>2, <3>1
    <3>3. proc'[q].parent = r /\ WaitsFor(r, q)'
      BY <1>4, <1>5, <3>1, <3>2
    <3> QED BY <3>3
  <2> QED BY <1>2, <1>5, <2>1, <2>2 DEF ChainOK
<1>6. ASSUME NEW q \in Pids, Foreground(q)', proc'[q].at = "wait"
      PROVE  \/ Zombie(proc[q].fg)'
             \/ /\ Foreground(proc[q].fg)'
                /\ proc'[proc'[q].fg].at = "child" => ~Head(proc'[proc'[q].fg].todo).bg
  <2>1. proc[q].at = "wait" /\ proc'[q].fg = proc[q].fg /\ proc[q].fg \in Pids
    BY <1>2, <1>6 DEF FamilyOK, WaitOK
  <2>2. PICK c \in Pids : proc[q].fg = c
    BY <2>1
  <2> QED BY <1>3, <1>6, <2>1, <2>2
<1> QED BY <1>5, <1>6 DEF ChainOK

\* Whoever waits for p, if p was the tip, is the tip now.
LEMMA EndsTip ==
  ASSUME ProcessesOK, FamilyOK, FrontOK, ChainOK, TipOK, NEW p \in Pids, Ends(p), ~disturbed'
  PROVE  TipOK'
<1>1. /\ ParentOK(p) /\ Alive(p)
      /\ Foreground(p) => proc[p].at \in OtherAt \cup {"bye"}
  BY DEF FamilyOK, Ends
<1> USE <1>1, Constants DEF Foreground, Zombie, Alive, ShellAt, OtherAt
<1>2. ASSUME NEW q \in Pids, Foreground(q)'
      PROVE  Foreground(q) /\ q # p /\ proc'[q].at = proc[q].at /\ proc'[q].fg = proc[q].fg
  BY <1>2, EndsFields
<1>3. ASSUME NEW q \in Pids, Tip(q)', ~Tip(q)
      PROVE  proc[p].parent = q /\ Tip(p)
  <2>1. Foreground(q) /\ q # p /\ proc'[q].at = proc[q].at /\ proc'[q].fg = proc[q].fg
    BY <1>2, <1>3 DEF Tip
  <2>2. CASE proc[q].at = "wait"
    <3>1. PICK c \in Pids : proc[q].fg = c /\ proc[c].parent = q
      BY <2>2 DEF FamilyOK, WaitOK
    <3>2. Zombie(c)' /\ ~Zombie(c)
      BY <1>3, <2>1, <2>2, <3>1 DEF Tip
    <3>3. c = p
      BY <3>2, EndsFields
    <3>4. Foreground(p) /\ WaitsFor(q, p)
      BY <2>1, <2>2, <3>1, <3>2, <3>3 DEF ChainOK, WaitsFor
    <3> QED BY <3>1, <3>3, <3>4 DEF Tip
  <2>3. CASE proc[q].at \in {"child", "exiting"}
    <3>1. proc[q].parent # None /\ proc'[q].parent = proc[q].parent
      BY <1>3, <2>1, <2>3, EndsFields DEF Tip
    <3>2. PICK r \in Pids : proc[q].parent = r
      BY <3>1, Fields
    <3>3. WaitsFor(r, q)'
      BY <1>3, <2>1, <2>3, <3>1, <3>2 DEF Tip
    <3>4. WaitsFor(r, q)
      BY <3>2, <3>3, EndsFields DEF WaitsFor
    <3> QED BY <1>3, <2>1, <2>3, <3>2, <3>4 DEF Tip
  <2> QED BY <1>3, <2>1, <2>2, <2>3 DEF Tip
<1>4. ASSUME NEW q \in Pids, Tip(q)'
      PROVE  q # p
  BY <1>2, <1>4 DEF Tip
<1> QED BY <1>3, <1>4 DEF TipOK

\* The shells that have made the terminal raw are at the tip.
LEMMA OwnersAreTips ==
  ASSUME FrontOK, NEW p \in Pids, proc[p].saved # "none"
  PROVE  Tip(p)
BY DEF FrontOK, Tip

LEMMA EndsTerminal ==
  ASSUME ProcessesOK, FamilyOK, FrontOK, TipOK, TerminalOK, NEW p \in Pids, Ends(p), ~disturbed'
  PROVE  TerminalOK'
<1>1. ParentOK(p) /\ tty' = IF proc[p].saved = "none" THEN tty ELSE proc[p].saved
  BY DEF FamilyOK, Ends
<1>2. ASSUME NEW q \in Pids
      PROVE  proc'[q].saved = IF q = p THEN "none" ELSE proc[q].saved
  <2>1. Zombie(q) => proc[q].saved = "none"
    BY DEF FrontOK, Zombie
  <2> QED BY <1>1, <2>1, EndsFields
<1>3. ASSUME NEW q \in Pids, proc[q].saved # "none", proc[p].saved # "none"
      PROVE  q = p
  BY <1>3, OwnersAreTips DEF TipOK
<1> QED BY <1>1, <1>2, <1>3 DEF TerminalOK

LEMMA EndsJobs ==
  ASSUME ProcessesOK, FamilyOK, JobsListed, NEW p \in Pids, Ends(p), ~disturbed'
  PROVE  JobsListed'
<1>1. ParentOK(p) /\ Alive(p) /\ ~disturbed
  BY DEF FamilyOK, Ends
<1>2. ASSUME NEW q \in Pids, proc'[q].at \in ShellAt \ {"bye"}
      PROVE  /\ proc[q].at \in ShellAt \ {"bye"} /\ Unreaped(q)' = Unreaped(q)
             /\ proc'[q].jobs = proc[q].jobs
  <2>1. /\ q # p /\ proc[q].at \in ShellAt \ {"bye"}
        /\ proc'[q].fg = proc[q].fg /\ proc'[q].jobs = proc[q].jobs
    BY <1>1, <1>2, EndsFields DEF ShellAt, Zombie
  <2>2. ASSUME NEW c \in Pids
        PROVE  c \in Children(q)' <=> c \in Children(q)
    BY <1>1, <2>1, Constants, EndsFields DEF Children, Alive, Zombie, ShellAt, OtherAt
  <2>3. Children(q)' = Children(q)
    BY <2>2 DEF Children
  <2> QED BY <2>1, <2>3 DEF Unreaped
<1> QED BY <1>1, <1>2 DEF JobsListed

(***************************************************************************)
(* Signals come in, groups are stopped, and nothing else changes.          *)
(***************************************************************************)

Quiet ==
  /\ proc' \in [Pids -> Process] /\ tty' = tty /\ disturbed' = disturbed
  /\ \A q \in Pids :
       /\ proc'[q].at = proc[q].at /\ proc'[q].parent = proc[q].parent
       /\ proc'[q].group = proc[q].group /\ proc'[q].todo = proc[q].todo
       /\ proc'[q].fg = proc[q].fg /\ proc'[q].jobs = proc[q].jobs
       /\ proc'[q].saved = proc[q].saved
       /\ "TERM" \in proc'[q].pending => "TERM" \in proc[q].pending
       /\ proc'[q].stopped => proc[q].stopped \/ ~Foreground(q)

LEMMA QuietStep ==
  ASSUME IInv, Quiet
  PROVE  IInv'
<1> USE DEF IInv, Quiet
<1>1. ProcessesOK'
  BY DEF ProcessesOK
<1>2. /\ \A q \in Pids : /\ Foreground(q)' <=> Foreground(q)
                         /\ Alive(q)' <=> Alive(q)
                         /\ Zombie(q)' <=> Zombie(q)
      /\ Over' <=> Over
  BY Constants DEF Foreground, Alive, Zombie, Over
<1>3. \A q \in Pids : ParentOK(q)' /\ WaitOK(q)' /\ StateOK(q)'
  BY <1>2, Fields DEF FamilyOK, ParentOK, WaitOK, StateOK
<1>4. FrontOK'
  BY <1>2, Constants, Fields DEF FrontOK, Foreground
<1>5. \A q, r \in Pids : WaitsFor(q, r)' <=> WaitsFor(q, r)
  BY DEF WaitsFor
<1>6. ASSUME ChainOK
      PROVE  ChainOK'
  BY <1>2, <1>6, Fields DEF ChainOK, WaitsFor, Foreground, Zombie, FamilyOK, WaitOK
<1>7. ASSUME TipOK
      PROVE  TipOK'
  <2>1. ASSUME NEW q \in Pids, Tip(q)'
        PROVE  Tip(q)
    <3>1. proc[q].at = "wait" => Zombie(proc[q].fg)
      BY <1>2, <2>1 DEF Tip, Zombie, FamilyOK, WaitOK
    <3>2. ASSUME NEW r \in Pids, WaitsFor(r, q)'
          PROVE  WaitsFor(r, q)
      BY <3>2 DEF WaitsFor
    <3>3. proc[q].at \in {"child", "exiting"} =>
            proc[q].parent # None /\ WaitsFor(proc[q].parent, q)
      BY <2>1, <3>2, Fields DEF Tip
    <3> QED BY <1>2, <2>1, <3>1, <3>3 DEF Tip
  <2> QED BY <1>7, <2>1 DEF TipOK
<1>8. TerminalOK => TerminalOK'
  BY DEF TerminalOK
<1>9. ASSUME ~disturbed
      PROVE  JobsListed'
  <2>1. \A q \in Pids : Children(q)' = Children(q)
    BY <1>2 DEF Children
  <2> QED BY <1>9, <2>1, Constants DEF JobsListed, Unreaped
<1> QED BY <1>1, <1>3, <1>4, <1>6, <1>7, <1>8, <1>9 DEF FamilyOK

(***************************************************************************)
(* A shell goes on by itself.                                              *)
(***************************************************************************)

\* The terminal changes hands only between its user's shell and the outside.
TerminalMoves(p) ==
  \/ proc'[p].saved = proc[p].saved /\ tty' = tty
  \/ /\ proc[p].at = "init" /\ Foreground(p) /\ tty' = "raw"
     /\ proc'[p].saved = IF proc[p].saved = "none" THEN tty ELSE proc[p].saved
  \/ proc[p].at = "read" /\ proc'[p].saved = "none" /\ tty' = proc[p].saved

Moves(p) ==
  /\ proc' \in [Pids -> Process] /\ tty' \in {"cooked", "raw"} /\ disturbed' \in BOOLEAN
  /\ \A q \in Pids \ {p} : proc'[q] = proc[q]
  /\ proc'[p].parent = proc[p].parent /\ proc'[p].group = proc[p].group
  /\ proc'[p].jobs = proc[p].jobs /\ (proc'[p].stopped <=> proc[p].stopped)
  /\ proc[p].at \in ShellAt \ {"child"} /\ proc'[p].at \in ShellAt \ {"child", "wait"}
  /\ proc'[p].fg = None
  /\ proc'[p].at = "read" => Foreground(p) /\ proc'[p].saved # "none"
  /\ proc'[p].saved # "none" =>
       Foreground(p) /\ proc'[p].at \in {"reap", "init", "read", "bye"}
  /\ ~disturbed' =>
       /\ ~disturbed /\ TerminalMoves(p)
       /\ proc[p].at = "wait" => proc[proc[p].fg].at \in {"exiting", "zombie"}
       /\ proc[p].at \in {"bye", "wait"} => proc'[p].at = "bye"

LEMMA MovesFront ==
  ASSUME ProcessesOK, FamilyOK, FrontOK, NEW p \in Pids, Moves(p)
  PROVE  ProcessesOK' /\ FamilyOK' /\ FrontOK'
<1> USE DEF Moves
<1>1. ProcessesOK'
  BY DEF ProcessesOK
<1> USE DEF Foreground, Zombie, Alive, ShellAt, OtherAt
<1>2. ASSUME NEW q \in Pids
      PROVE  /\ proc'[q].parent = proc[q].parent /\ proc'[q].group = proc[q].group
             /\ proc'[q].stopped <=> proc[q].stopped
             /\ q # p => proc'[q] = proc[q]
  OBVIOUS
<1>3. ASSUME NEW q \in Pids
      PROVE  ParentOK(q)' /\ WaitOK(q)' /\ StateOK(q)'
  <2>1. ParentOK(q)'
    BY <1>2, Fields DEF FamilyOK, ParentOK
  <2>2. WaitOK(q)' /\ StateOK(q)'
    BY <1>2, Fields DEF FamilyOK, WaitOK, StateOK
  <2> QED BY <2>1, <2>2
<1>4. FrontOK'
  <2>1. proc'[First].at \in (ShellAt \ {"child"}) \cup {"gone"} /\ proc'[First].parent = None
        /\ (~Over' => Foreground(First)')
    BY <1>2, Constants DEF FrontOK, Over
  <2>2. ASSUME NEW q \in Pids
        PROVE  /\ proc'[q].stopped => ~Foreground(q)'
               /\ Foreground(q)' => Alive(q)'
               /\ Foreground(q)' /\ proc'[q].parent # None => Foreground(proc[q].parent)'
               /\ proc'[q].at = "read" => Foreground(q)' /\ proc'[q].saved # "none"
               /\ proc'[q].saved # "none" =>
                    Foreground(q)' /\ proc'[q].at \in {"reap", "init", "read", "bye"}
    BY <1>2, Fields DEF FrontOK
  <2> QED BY <2>1, <2>2 DEF FrontOK
<1> QED BY <1>1, <1>3, <1>4 DEF FamilyOK

LEMMA MovesChain ==
  ASSUME ProcessesOK, FamilyOK, FrontOK, ChainOK, TipOK, NEW p \in Pids, Moves(p), ~disturbed'
  PROVE  ChainOK' /\ TipOK'
<1> USE DEF Foreground, Zombie, Alive, ShellAt, OtherAt
<1>1. /\ proc[p].at \in ShellAt \ {"child"} /\ proc'[p].at \in ShellAt \ {"child", "wait"}
      /\ \A q \in Pids \ {p} : proc'[q] = proc[q]
      /\ proc[p].at = "wait" => proc[proc[p].fg].at \in {"exiting", "zombie"}
  BY DEF Moves
<1>2. ASSUME NEW q \in Pids
      PROVE  proc'[q].parent = proc[q].parent /\ (Foreground(q)' <=> Foreground(q))
             /\ (Zombie(q)' <=> Zombie(q))
  BY DEF Moves
<1>3. ASSUME NEW q \in Pids, NEW r \in Pids
      PROVE  /\ WaitsFor(r, q)' => WaitsFor(r, q)
             /\ WaitsFor(r, q) /\ r # p => WaitsFor(r, q)'
  BY <1>1, <1>2 DEF WaitsFor
<1>4. ASSUME NEW q \in Pids, Foreground(q)', proc'[q].at = "wait"
      PROVE  \/ Zombie(proc[q].fg)'
             \/ /\ Foreground(proc[q].fg)'
                /\ proc'[proc'[q].fg].at = "child" => ~Head(proc'[proc'[q].fg].todo).bg
  <2>1. q # p /\ proc'[q] = proc[q] /\ Foreground(q)
    BY <1>1, <1>2, <1>4
  <2>2. PICK c \in Pids : proc[q].fg = c
    BY <1>4, <2>1 DEF FamilyOK, WaitOK
  <2>3. Zombie(c) \/ (Foreground(c) /\ (proc[c].at = "child" => ~Head(proc[c].todo).bg))
    BY <1>4, <2>1, <2>2 DEF ChainOK
  <2> QED BY <1>1, <1>2, <2>1, <2>2, <2>3
<1>5. ASSUME NEW q \in Pids, Foreground(q)'
      PROVE  \/ q = First
             \/ proc'[q].at = "exiting"
             \/ proc'[q].at = "child" /\ Head(proc'[q].todo).bg
             \/ proc'[q].parent # None /\ WaitsFor(proc[q].parent, q)'
  <2>1. CASE q # p /\ (q = First \/ proc[q].at = "exiting"
                         \/ (proc[q].at = "child" /\ Head(proc[q].todo).bg))
    BY <1>1, <2>1
  <2>2. CASE q = First
    BY <2>2
  <2>3. CASE proc[q].parent # None /\ WaitsFor(proc[q].parent, q)
    <3>1. PICK r \in Pids : proc[q].parent = r
      BY <2>3, Fields
    <3>2. CASE r = p
      <4>1. proc[q].at \in {"exiting", "zombie"} /\ q # p
        BY <1>1, <2>3, <3>1, <3>2 DEF WaitsFor, FamilyOK, ParentOK
      <4>2. Alive(q)
        BY <1>2, <1>5 DEF FrontOK
      <4> QED BY <1>1, <4>1, <4>2
    <3>3. CASE r # p
      BY <1>2, <1>3, <2>3, <3>1, <3>3
    <3> QED BY <3>2, <3>3
  <2> QED BY <1>1, <1>2, <1>5, <2>1, <2>2, <2>3 DEF ChainOK
<1>6. ASSUME NEW q \in Pids, Tip(q)', q # p
      PROVE  Tip(q) /\ ~WaitsFor(p, q)
  <2>1. proc'[q] = proc[q] /\ Foreground(q)
    BY <1>1, <1>2, <1>6 DEF Tip
  <2>2. proc[q].at = "wait" => Zombie(proc[q].fg)
    BY <1>2, <1>6, <2>1 DEF Tip, FamilyOK, WaitOK
  <2>3. proc[q].at \in {"child", "exiting"} =>
          proc[q].parent # None /\ WaitsFor(proc[q].parent, q)
    BY <1>3, <1>6, <2>1, Fields DEF Tip
  <2>4. ASSUME WaitsFor(p, q)
        PROVE  FALSE
    <3>1. proc[q].at = "exiting" /\ proc[q].parent = p
      BY <1>1, <2>1, <2>4 DEF WaitsFor, FrontOK
    <3>2. WaitsFor(p, q)'
      BY <1>6, <2>1, <3>1, Constants DEF Tip
    <3> QED BY <1>1, <3>2 DEF WaitsFor
  <2> QED BY <2>1, <2>2, <2>3, <2>4 DEF Tip
<1>7. ASSUME Tip(p)'
      PROVE  Tip(p) \/ \E c \in Pids : WaitsFor(p, c) /\ Tip(c)
  <2>1. Foreground(p)
    BY <1>2, <1>7 DEF Tip
  <2>2. CASE proc[p].at = "wait" /\ ~Zombie(proc[p].fg)
    <3>1. PICK c \in Pids : proc[p].fg = c /\ proc[c].parent = p
      BY <2>2 DEF FamilyOK, WaitOK
    <3>2. WaitsFor(p, c) /\ proc[c].at = "exiting" /\ Foreground(c)
      BY <1>1, <2>1, <2>2, <3>1 DEF WaitsFor, ChainOK
    <3> QED BY <3>1, <3>2, Constants DEF Tip
  <2>3. CASE ~ (proc[p].at = "wait" /\ ~Zombie(proc[p].fg))
    BY <1>1, <2>1, <2>3 DEF Tip
  <2> QED BY <2>2, <2>3
<1>8. TipOK'
  <2> SUFFICES ASSUME NEW q \in Pids, NEW r \in Pids, Tip(q)', Tip(r)'
               PROVE  q = r
    BY DEF TipOK
  <2> QED BY <1>6, <1>7 DEF TipOK
<1> QED BY <1>4, <1>5, <1>8 DEF ChainOK

LEMMA MovesTerminal ==
  ASSUME ProcessesOK, FamilyOK, FrontOK, TipOK, TerminalOK, NEW p \in Pids, Moves(p), ~disturbed'
  PROVE  TerminalOK'
<1>1. TerminalMoves(p) /\ \A q \in Pids \ {p} : proc'[q].saved = proc[q].saved
  BY DEF Moves
<1>2. ASSUME NEW q \in Pids, proc[q].saved # "none", Tip(p)
      PROVE  q = p
  BY <1>2, OwnersAreTips DEF TipOK
<1>3. CASE proc'[p].saved = proc[p].saved /\ tty' = tty
  BY <1>1, <1>3 DEF TerminalOK
<1>4. CASE /\ proc[p].at = "init" /\ Foreground(p) /\ tty' = "raw"
           /\ proc'[p].saved = IF proc[p].saved = "none" THEN tty ELSE proc[p].saved
  <2>1. Tip(p)
    BY <1>4 DEF Tip
  <2> QED BY <1>1, <1>2, <1>4, <2>1 DEF TerminalOK, ProcessesOK
<1>5. CASE proc[p].at = "read" /\ proc'[p].saved = "none" /\ tty' = proc[p].saved
  <2>1. Tip(p) /\ proc[p].saved # "none"
    BY <1>5 DEF Tip, FrontOK
  <2> QED BY <1>1, <1>2, <1>5, <2>1 DEF TerminalOK
<1> QED BY <1>1, <1>3, <1>4, <1>5 DEF TerminalMoves

LEMMA MovesJobs ==
  ASSUME ProcessesOK, FamilyOK, JobsListed, NEW p \in Pids, Moves(p), ~disturbed'
  PROVE  JobsListed'
<1> USE DEF ShellAt, OtherAt
<1>1. ASSUME NEW q \in Pids
      PROVE  Children(q)' = Children(q)
  <2>1. \A c \in Pids : /\ proc'[c].parent = proc[c].parent
                        /\ (Alive(c) \/ Zombie(c))' <=> (Alive(c) \/ Zombie(c))
    BY DEF Moves, Alive, Zombie
  <2> QED BY <2>1 DEF Children
<1>2. ASSUME NEW q \in Pids, proc'[q].at \in ShellAt \ {"bye"}
      PROVE  /\ proc[q].at \in ShellAt \ {"bye"} /\ Unreaped(q)' = Unreaped(q)
             /\ proc'[q].jobs = proc[q].jobs
  <2>1. proc[q].at \in ShellAt \ {"bye"} /\ proc'[q].fg = proc[q].fg /\ proc'[q].jobs = proc[q].jobs
    BY <1>2 DEF Moves, FamilyOK, WaitOK
  <2> QED BY <1>1, <2>1 DEF Unreaped
<1> QED BY <1>2 DEF JobsListed, Moves

LEMMA MovesStep ==
  ASSUME IInv, NEW p \in Pids, Moves(p)
  PROVE  IInv'
<1>1. ~disturbed' => ~disturbed
  BY DEF Moves
<1> QED BY <1>1, MovesFront, MovesChain, MovesTerminal, MovesJobs DEF IInv

LEMMA EndsStep ==
  ASSUME IInv, NEW p \in Pids, Ends(p)
  PROVE  IInv'
<1>1. ~disturbed' => ~disturbed
  BY DEF Ends
<1> QED BY <1>1, EndsFamily, EndsFront, EndsChain, EndsTip, EndsTerminal, EndsJobs DEF IInv

(***************************************************************************)
(* A dead child is reaped.                                                 *)
(***************************************************************************)

Reaps(p, c) ==
  /\ proc' \in [Pids -> Process] /\ tty' = tty /\ disturbed' = disturbed
  /\ proc[c].parent = p /\ Zombie(c) /\ proc'[c] = Gone
  /\ \A q \in Pids \ {p, c} : proc'[q] = proc[q]
  /\ proc'[p].parent = proc[p].parent /\ proc'[p].group = proc[p].group
  /\ proc'[p].pending = proc[p].pending /\ proc'[p].saved = proc[p].saved
  /\ (proc'[p].stopped <=> proc[p].stopped) /\ proc'[p].fg = None
  /\ \/ /\ proc[p].at = "reap" /\ proc'[p].at = "init"
        /\ proc'[p].jobs = proc[p].jobs \ {c}
     \/ /\ proc[p].at = "wait" /\ proc[p].fg = c /\ proc'[p].at = "run"
        /\ proc'[p].jobs = proc[p].jobs

LEMMA ReapsFront ==
  ASSUME ProcessesOK, FamilyOK, FrontOK, NEW p \in Pids, NEW c \in Pids, Reaps(p, c)
  PROVE  ProcessesOK' /\ FamilyOK' /\ FrontOK'
<1> USE DEF Foreground, Zombie, Alive, ShellAt, OtherAt, Gone, NoProcess
<1>1. /\ ProcessesOK' /\ p # c /\ p # None /\ c # First
      /\ \A q \in Pids : proc[q].parent # c
  <2>1. ProcessesOK' /\ proc[c].parent = p /\ Zombie(c) /\ p # None /\ c # None
    BY Constants DEF Reaps, ProcessesOK
  <2>2. p # c /\ c # First
    BY <2>1 DEF FamilyOK, ParentOK, FrontOK
  <2>3. ASSUME NEW q \in Pids
        PROVE  proc[q].parent # c
    BY <2>1 DEF FamilyOK, ParentOK
  <2> QED BY <2>1, <2>2, <2>3
<1>2. ASSUME NEW q \in Pids
      PROVE  /\ q = c => /\ proc'[q].parent = None /\ proc'[q].at = "gone" /\ proc'[q].fg = None
                         /\ proc'[q].group = None /\ ~proc'[q].stopped
                         /\ proc'[q].pending = {} /\ proc'[q].saved = "none"
             /\ q # c => /\ proc'[q].parent = proc[q].parent
                         /\ proc'[q].group = proc[q].group
                         /\ proc'[q].stopped <=> proc[q].stopped
                         /\ proc'[q].pending = proc[q].pending
                         /\ proc'[q].saved = proc[q].saved
             /\ q \notin {p, c} => proc'[q] = proc[q]
  BY DEF Reaps
<1>3. proc[p].at \in {"reap", "wait"} /\ proc'[p].at \in {"init", "run"} /\ proc'[p].fg = None
      /\ proc[c].parent = p /\ (proc[p].at = "wait" => proc[p].fg = c /\ proc'[p].at = "run")
      /\ (proc[p].at = "reap" => proc'[p].at = "init")
  BY DEF Reaps
<1>4. ASSUME NEW q \in Pids
      PROVE  ParentOK(q)' /\ WaitOK(q)' /\ StateOK(q)'
  <2>1. ASSUME proc'[q].parent # None
        PROVE  ParentOK(q)'
    <3>1. q # c /\ proc'[q].parent = proc[q].parent
      BY <1>2, <2>1
    <3>2. PICK r \in Pids \ {c} : proc[q].parent = r
      BY <1>1, <2>1, <3>1, Fields
    <3> QED BY <1>2, <1>3, <3>1, <3>2, Constants DEF FamilyOK, ParentOK
  <2>2. WaitOK(q)'
    <3>1. CASE q \in {p, c}
      BY <1>2, <1>3, <3>1 DEF WaitOK
    <3>2. CASE q \notin {p, c} /\ proc[q].at = "wait"
      <4>1. PICK d \in Pids : proc[q].fg = d /\ proc[d].parent = q
        BY <3>2 DEF FamilyOK, WaitOK
      <4> QED BY <1>2, <1>3, <3>2, <4>1 DEF WaitOK
    <3>3. CASE q \notin {p, c} /\ proc[q].at # "wait"
      BY <1>2, <3>3 DEF FamilyOK, WaitOK
    <3> QED BY <3>1, <3>2, <3>3
  <2>3. StateOK(q)'
    BY <1>1, <1>2, <1>3 DEF FamilyOK, StateOK
  <2> QED BY <2>1, <2>2, <2>3 DEF ParentOK
<1>5. FrontOK'
  <2>1. proc'[First].at \in (ShellAt \ {"child"}) \cup {"gone"} /\ proc'[First].parent = None
        /\ (~Over' => Foreground(First)')
    BY <1>1, <1>2, <1>3, Constants DEF FrontOK, Over
  <2>2. ASSUME NEW q \in Pids
        PROVE  /\ proc'[q].stopped => ~Foreground(q)'
               /\ Foreground(q)' => Alive(q)'
               /\ proc'[q].at = "read" => Foreground(q)' /\ proc'[q].saved # "none"
               /\ proc'[q].saved # "none" =>
                    Foreground(q)' /\ proc'[q].at \in {"reap", "init", "read", "bye"}
    <3>1. CASE q = c
      BY <1>2, <3>1, Constants
    <3>2. CASE q = p
      <4>1. proc[p].at = "wait" => proc[p].saved = "none"
        BY DEF FrontOK
      <4> QED BY <1>1, <1>2, <1>3, <3>2, <4>1 DEF FrontOK
    <3>3. CASE q \notin {p, c}
      BY <1>2, <3>3 DEF FrontOK
    <3> QED BY <3>1, <3>2, <3>3
  <2>3. ASSUME NEW q \in Pids, Foreground(q)', proc'[q].parent # None
        PROVE  Foreground(proc[q].parent)'
    <3>1. q # c /\ proc'[q].parent = proc[q].parent /\ Foreground(q)
      BY <1>2, <2>3, Constants
    <3>2. PICK r \in Pids \ {c} : proc[q].parent = r
      BY <1>1, <2>3, <3>1, Fields
    <3> QED BY <1>2, <2>3, <3>1, <3>2 DEF FrontOK
  <2> QED BY <2>1, <2>2, <2>3 DEF FrontOK
<1> QED BY <1>1, <1>4, <1>5 DEF FamilyOK

LEMMA ReapsChain ==
  ASSUME ProcessesOK, FamilyOK, FrontOK, ChainOK, TipOK,
         NEW p \in Pids, NEW c \in Pids, Reaps(p, c)
  PROVE  ChainOK' /\ TipOK'
<1> USE DEF Foreground, Zombie, Alive, ShellAt, OtherAt, Gone, NoProcess
<1>1. /\ p # c /\ proc[p].at \in {"reap", "wait"} /\ proc'[p].at \in {"init", "run"}
      /\ proc[p].at = "wait" => proc[p].fg = c
      /\ proc[c].parent = p /\ Zombie(c) /\ ~Foreground(c)
      /\ \A q \in Pids \ {p, c} : proc'[q] = proc[q]
      /\ proc'[p].group = proc[p].group /\ proc'[p].parent = proc[p].parent
      /\ proc'[c].at = "gone" /\ proc'[c].group = None /\ First # None
  BY Constants DEF Reaps, FrontOK
<1>2. ASSUME NEW q \in Pids, Foreground(q)'
      PROVE  q # c /\ Foreground(q) /\ proc'[q].parent = proc[q].parent
             /\ (q # p => proc'[q] = proc[q])
  BY <1>1, <1>2
<1>3. ASSUME NEW q \in Pids, NEW r \in Pids, Foreground(q)'
      PROVE  WaitsFor(r, q)' <=> WaitsFor(r, q)
  BY <1>1, <1>2, <1>3, Constants DEF WaitsFor
<1>4. ASSUME NEW q \in Pids, Foreground(q)', proc'[q].at = "wait"
      PROVE  \/ Zombie(proc[q].fg)'
             \/ /\ Foreground(proc[q].fg)'
                /\ proc'[proc'[q].fg].at = "child" => ~Head(proc'[proc'[q].fg].todo).bg
  <2>1. q # p /\ proc'[q] = proc[q] /\ Foreground(q)
    BY <1>1, <1>2, <1>4
  <2>2. PICK d \in Pids : proc[q].fg = d /\ proc[d].parent = q
    BY <1>4, <2>1 DEF FamilyOK, WaitOK
  <2>3. Zombie(d) \/ (Foreground(d) /\ (proc[d].at = "child" => ~Head(proc[d].todo).bg))
    BY <1>4, <2>1, <2>2 DEF ChainOK
  <2> QED BY <1>1, <2>1, <2>2, <2>3
<1>5. ASSUME NEW q \in Pids, Foreground(q)'
      PROVE  \/ q = First
             \/ proc'[q].at = "exiting"
             \/ proc'[q].at = "child" /\ Head(proc'[q].todo).bg
             \/ proc'[q].parent # None /\ WaitsFor(proc[q].parent, q)'
  <2>1. CASE q # p /\ (q = First \/ proc[q].at = "exiting"
                         \/ (proc[q].at = "child" /\ Head(proc[q].todo).bg))
    BY <1>2, <1>5, <2>1
  <2>2. CASE q = First
    BY <2>2
  <2>3. CASE proc[q].parent # None /\ WaitsFor(proc[q].parent, q)
    BY <1>2, <1>3, <1>5, <2>3, Fields
  <2> QED BY <1>1, <1>2, <1>5, <2>1, <2>2, <2>3 DEF ChainOK
<1>6. ASSUME NEW q \in Pids, Tip(q)'
      PROVE  Tip(q)
  <2>1. Foreground(q) /\ q # c
    BY <1>2, <1>6 DEF Tip
  <2>2. CASE q = p
    BY <1>1, <2>1, <2>2 DEF Tip
  <2>3. CASE q # p
    <3>1. proc'[q] = proc[q]
      BY <1>2, <1>6, <2>3 DEF Tip
    <3>2. ASSUME proc[q].at = "wait"
          PROVE  Zombie(proc[q].fg)
      <4>1. PICK d \in Pids : proc[q].fg = d /\ proc[d].parent = q
        BY <3>2 DEF FamilyOK, WaitOK
      <4> QED BY <1>1, <1>6, <2>3, <3>1, <3>2, <4>1 DEF Tip
    <3>3. proc[q].at \in {"child", "exiting"} =>
            proc[q].parent # None /\ WaitsFor(proc[q].parent, q)
      BY <1>3, <1>6, <3>1, Fields DEF Tip
    <3> QED BY <2>1, <3>2, <3>3 DEF Tip
  <2> QED BY <2>2, <2>3
<1>7. TipOK'
  BY <1>6 DEF TipOK
<1> QED BY <1>4, <1>5, <1>7 DEF ChainOK

LEMMA ReapsJobs ==
  ASSUME ProcessesOK, FamilyOK, FrontOK, JobsListed, ~disturbed,
         NEW p \in Pids, NEW c \in Pids, Reaps(p, c)
  PROVE  JobsListed'
<1> USE DEF Zombie, Alive, ShellAt, OtherAt, Gone, NoProcess
<1>1. /\ p # c /\ p # None /\ proc[c].parent = p /\ Zombie(c)
      /\ proc'[c].at = "gone" /\ proc'[c].parent = None
      /\ \A q \in Pids \ {p, c} : proc'[q] = proc[q]
      /\ proc'[p].parent = proc[p].parent /\ Alive(p) /\ Alive(p)' /\ proc'[p].fg = None
  BY Constants DEF Reaps
<1>2. ASSUME NEW q \in Pids
      PROVE  Children(q)' = Children(q) \ {c}
  <2>1. \A d \in Pids : d \in Children(q)' <=> d \in Children(q) /\ d # c
    BY <1>1 DEF Children
  <2> QED BY <2>1 DEF Children
<1>3. ASSUME NEW q \in Pids \ {p, c}
      PROVE  proc'[q] = proc[q] /\ Unreaped(q)' = Unreaped(q)
  <2>1. c \notin Children(q)
    BY <1>1 DEF Children
  <2> QED BY <1>1, <1>2, <2>1 DEF Unreaped
<1>4. Unreaped(p)' = Children(p) \ {c}
  BY <1>1, <1>2, Constants DEF Unreaped, Children
<1>5. CASE proc[p].at = "reap" /\ proc'[p].jobs = proc[p].jobs \ {c}
  <2>1. Unreaped(p) = Children(p)
    BY <1>5, Constants DEF Unreaped, Children, FamilyOK, WaitOK
  <2> QED BY <1>1, <1>3, <1>4, <1>5, <2>1 DEF JobsListed, Reaps
<1>6. CASE proc[p].at = "wait" /\ proc[p].fg = c /\ proc'[p].jobs = proc[p].jobs
  <2>1. Unreaped(p) = Children(p) \ {c}
    BY <1>6 DEF Unreaped
  <2> QED BY <1>1, <1>3, <1>4, <1>6, <2>1 DEF JobsListed, Reaps
<1> QED BY <1>5, <1>6 DEF Reaps

LEMMA ReapsStep ==
  ASSUME IInv, NEW p \in Pids, NEW c \in Pids, Reaps(p, c)
  PROVE  IInv'
<1>1. disturbed' = disturbed
  BY DEF Reaps
<1>2. TerminalOK => TerminalOK'
  <2>1. \A q \in Pids : proc'[q].saved = proc[q].saved
    BY DEF Reaps, IInv, FrontOK, Zombie, Gone, NoProcess
  <2> QED BY <2>1 DEF TerminalOK, Reaps
<1> QED BY <1>1, <1>2, ReapsFront, ReapsChain, ReapsJobs DEF IInv

(***************************************************************************)
(* A child begins, and its group is set.                                   *)
(***************************************************************************)

Begins(p) ==
  /\ proc' \in [Pids -> Process] /\ tty' = tty /\ disturbed' = disturbed
  /\ proc[p].at = "child" /\ proc'[p].at \in {"program", "filler", "run", "exiting"}
  /\ proc'[p].parent = proc[p].parent /\ proc'[p].group = Regrouped(p)
  /\ proc'[p].fg = None /\ proc'[p].pending = {} /\ ~proc'[p].stopped
  /\ proc'[p].saved = "none"
  /\ \A q \in Pids \ {p} :
       /\ proc'[q].at = proc[q].at /\ proc'[q].parent = proc[q].parent
       /\ proc'[q].group = proc[q].group /\ proc'[q].todo = proc[q].todo
       /\ proc'[q].fg = proc[q].fg /\ proc'[q].jobs = proc[q].jobs
       /\ proc'[q].saved = proc[q].saved /\ (proc'[q].stopped <=> proc[q].stopped)
       /\ "TERM" \in proc'[q].pending =>
            "TERM" \in proc[q].pending \/ proc[p].parent = q

\* A child that joins the group in front was meant for the front.
LEMMA BeginsFront ==
  ASSUME ProcessesOK, FamilyOK, FrontOK, NEW p \in Pids, Begins(p)
  PROVE  /\ ProcessesOK' /\ FamilyOK' /\ FrontOK'
         /\ \A q \in Pids : Foreground(q)' => Foreground(q)
         /\ Foreground(p) /\ ~Head(proc[p].todo).bg <=> Foreground(p)'
         /\ p # First
<1> USE DEF Begins
<1>1. ProcessesOK' /\ p # First /\ p # None
  BY Constants DEF ProcessesOK, FrontOK, ShellAt
<1>2. proc[p].todo # <<>> /\ \A q \in Pids : proc[q].parent # p
  BY <1>1 DEF FamilyOK, StateOK, ParentOK
<1> USE DEF Foreground, Zombie, Alive, ShellAt, OtherAt
<1>3. /\ \A q \in Pids : Foreground(q)' => Foreground(q)
      /\ Foreground(p) /\ ~Head(proc[p].todo).bg <=> Foreground(p)'
  BY <1>1 DEF Regrouped
<1>4. ASSUME NEW q \in Pids
      PROVE  ParentOK(q)' /\ WaitOK(q)' /\ StateOK(q)'
  <2>1. ASSUME proc'[q].parent # None
        PROVE  ParentOK(q)'
    <3>1. PICK r \in Pids \ {p} : proc[q].parent = r /\ proc'[q].parent = r
      BY <1>2, <2>1, Fields
    <3> QED BY <3>1, Constants DEF FamilyOK, ParentOK
  <2>2. WaitOK(q)'
    BY <1>1, Fields DEF FamilyOK, WaitOK
  <2>3. StateOK(q)'
    <3>1. CASE q = p
      BY <3>1 DEF StateOK
    <3>2. CASE q # p
      <4>1. proc[p].parent = q => proc[q].at \in ShellAt \ {"child"}
        BY Constants DEF FamilyOK, ParentOK
      <4> QED BY <3>2, <4>1 DEF FamilyOK, StateOK
    <3> QED BY <3>1, <3>2
  <2> QED BY <2>1, <2>2, <2>3 DEF ParentOK
<1>5. FrontOK'
  <2>1. proc'[First].at \in (ShellAt \ {"child"}) \cup {"gone"} /\ proc'[First].parent = None
        /\ (~Over' => Foreground(First)')
    BY <1>1, Constants DEF FrontOK, Over
  <2>2. ASSUME NEW q \in Pids
        PROVE  /\ proc'[q].stopped => ~Foreground(q)'
               /\ Foreground(q)' => Alive(q)'
               /\ proc'[q].at = "read" => Foreground(q)' /\ proc'[q].saved # "none"
               /\ proc'[q].saved # "none" =>
                    Foreground(q)' /\ proc'[q].at \in {"reap", "init", "read", "bye"}
    <3>1. CASE q = p
      BY <3>1
    <3>2. CASE q # p
      BY <3>2 DEF FrontOK
    <3> QED BY <3>1, <3>2
  <2>3. ASSUME NEW q \in Pids, Foreground(q)', proc'[q].parent # None
        PROVE  Foreground(proc[q].parent)'
    <3>1. PICK r \in Pids \ {p} : proc[q].parent = r /\ proc'[q].parent = r
      BY <1>2, <2>3, Fields
    <3>2. Foreground(r)
      BY <1>3, <2>3, <3>1, Constants DEF FrontOK
    <3> QED BY <3>1, <3>2
  <2> QED BY <2>1, <2>2, <2>3 DEF FrontOK
<1> QED BY <1>1, <1>3, <1>4, <1>5 DEF FamilyOK

LEMMA BeginsChain ==
  ASSUME ProcessesOK, FamilyOK, FrontOK, ChainOK, TipOK, NEW p \in Pids, Begins(p)
  PROVE  ChainOK' /\ TipOK'
<1>1. /\ \A q \in Pids : Foreground(q)' => Foreground(q)
      /\ Foreground(p)' <=> Foreground(p) /\ ~Head(proc[p].todo).bg
      /\ p # First
  BY BeginsFront
<1>2. proc[p].at = "child" /\ proc'[p].at \in {"program", "filler", "run", "exiting"}
      /\ proc'[p].parent = proc[p].parent
  BY DEF Begins
<1>3. ASSUME NEW q \in Pids \ {p}
      PROVE  /\ proc'[q].at = proc[q].at /\ proc'[q].parent = proc[q].parent
             /\ proc'[q].group = proc[q].group /\ proc'[q].todo = proc[q].todo
             /\ proc'[q].fg = proc[q].fg
  BY DEF Begins
<1> USE DEF Zombie
<1>4. ASSUME NEW q \in Pids, NEW r \in Pids
      PROVE  WaitsFor(r, q)' <=> WaitsFor(r, q)
  BY <1>2, <1>3 DEF WaitsFor
<1>5. ASSUME NEW q \in Pids, Foreground(q)', proc'[q].at = "wait"
      PROVE  \/ Zombie(proc[q].fg)'
             \/ /\ Foreground(proc[q].fg)'
                /\ proc'[proc'[q].fg].at = "child" => ~Head(proc'[proc'[q].fg].todo).bg
  <2>1. q # p /\ proc[q].at = "wait" /\ Foreground(q)
    BY <1>1, <1>2, <1>3, <1>5
  <2>2. PICK d \in Pids : proc[q].fg = d
    BY <2>1 DEF FamilyOK, WaitOK
  <2>3. Zombie(d) \/ (Foreground(d) /\ (proc[d].at = "child" => ~Head(proc[d].todo).bg))
    BY <2>1, <2>2 DEF ChainOK
  <2>4. CASE d = p
    BY <1>1, <1>2, <1>3, <2>1, <2>2, <2>3, <2>4
  <2>5. CASE d # p
    BY <1>3, <2>1, <2>2, <2>3, <2>5 DEF Foreground
  <2> QED BY <2>4, <2>5
<1>6. ASSUME NEW q \in Pids, Foreground(q)'
      PROVE  \/ q = First
             \/ proc'[q].at = "exiting"
             \/ proc'[q].at = "child" /\ Head(proc'[q].todo).bg
             \/ proc'[q].parent # None /\ WaitsFor(proc[q].parent, q)'
  <2>1. CASE q # p /\ (q = First \/ proc[q].at = "exiting"
                         \/ (proc[q].at = "child" /\ Head(proc[q].todo).bg))
    BY <1>3, <2>1
  <2>2. CASE proc[q].parent # None /\ WaitsFor(proc[q].parent, q)
    <3>1. proc'[q].parent = proc[q].parent
      BY <1>2, <1>3
    <3> QED BY <1>4, <2>2, <3>1, Fields
  <2> QED BY <1>1, <1>2, <1>6, <2>1, <2>2 DEF ChainOK
<1>7. ASSUME NEW q \in Pids, Tip(q)'
      PROVE  Tip(q)
  <2>1. Foreground(q) /\ Foreground(q)'
    BY <1>1, <1>7 DEF Tip
  <2>2. CASE q = p
    <3>1. proc[p].parent # None /\ WaitsFor(proc[p].parent, p)
      BY <1>1, <1>2, <2>1, <2>2 DEF ChainOK
    <3> QED BY <1>2, <2>1, <2>2, <3>1 DEF Tip
  <2>3. CASE q # p
    <3>1. ASSUME proc[q].at = "wait"
          PROVE  Zombie(proc[q].fg)
      <4>1. PICK d \in Pids : proc[q].fg = d
        BY <3>1 DEF FamilyOK, WaitOK
      <4> QED BY <1>2, <1>3, <1>7, <2>3, <3>1, <4>1 DEF Tip
    <3>2. proc[q].at \in {"child", "exiting"} =>
            proc[q].parent # None /\ WaitsFor(proc[q].parent, q)
      BY <1>3, <1>4, <1>7, <2>3, Fields DEF Tip
    <3> QED BY <2>1, <3>1, <3>2 DEF Tip
  <2> QED BY <2>2, <2>3
<1>8. TipOK'
  BY <1>7 DEF TipOK
<1> QED BY <1>5, <1>6, <1>8 DEF ChainOK

LEMMA BeginsStep ==
  ASSUME IInv, NEW p \in Pids, Begins(p)
  PROVE  IInv'
<1>1. disturbed' = disturbed
  BY DEF Begins
<1>2. TerminalOK => TerminalOK'
  <2>1. \A q \in Pids : proc'[q].saved = proc[q].saved
    BY DEF Begins, IInv, FrontOK
  <2> QED BY <2>1 DEF TerminalOK, Begins
<1>3. ASSUME ~disturbed
      PROVE  JobsListed'
  <2>1. p # First /\ \A q \in Pids : proc[q].parent # p
    BY Constants DEF IInv, FamilyOK, ParentOK, FrontOK, Begins, ShellAt
  <2>2. ASSUME NEW q \in Pids
        PROVE  Children(q)' = Children(q)
    <3>1. \A c \in Pids : /\ proc'[c].parent = proc[c].parent
                          /\ (Alive(c) \/ Zombie(c))' <=> (Alive(c) \/ Zombie(c))
      BY DEF Begins, Alive, Zombie, ShellAt, OtherAt
    <3> QED BY <3>1 DEF Children
  <2>3. Unreaped(p)' = {}
    BY <2>1, <2>2 DEF Unreaped, Children
  <2>4. ASSUME NEW q \in Pids \ {p}
        PROVE  proc'[q].at = proc[q].at /\ proc'[q].jobs = proc[q].jobs
               /\ Unreaped(q)' = Unreaped(q)
    BY <2>2 DEF Begins, Unreaped
  <2> QED BY <1>3, <2>1, <2>3, <2>4 DEF JobsListed, IInv
<1> QED BY <1>1, <1>2, <1>3, BeginsFront, BeginsChain DEF IInv

(***************************************************************************)
(* A shell forks.                                                          *)
(***************************************************************************)

Forks(p, c) ==
  /\ proc' \in [Pids -> Process] /\ tty' = tty /\ disturbed' = disturbed
  /\ proc[p].at = "run" /\ proc[p].todo # <<>> /\ proc[p].pending = {} /\ ~proc[p].stopped
  /\ proc[c].at = "none"
  /\ \A q \in Pids \ {p, c} : proc'[q] = proc[q]
  /\ proc'[c].at = "child" /\ proc'[c].parent = p /\ proc'[c].group = proc[p].group
  /\ proc'[c].todo = proc[p].todo /\ proc'[c].fg = None /\ proc'[c].pending = {}
  /\ ~proc'[c].stopped /\ proc'[c].saved = proc[p].saved
  /\ proc'[p].parent = proc[p].parent /\ proc'[p].group = proc[p].group
  /\ proc'[p].pending = {} /\ ~proc'[p].stopped /\ proc'[p].saved = proc[p].saved
  /\ IF Head(proc[p].todo).bg
     THEN /\ proc'[p].at = "run" /\ proc'[p].fg = None
          /\ proc'[p].jobs = proc[p].jobs \cup {c}
     ELSE /\ proc'[p].at = "wait" /\ proc'[p].fg = c /\ proc'[p].jobs = proc[p].jobs
          /\ proc'[p].todo = proc[p].todo

LEMMA ForksFront ==
  ASSUME ProcessesOK, FamilyOK, FrontOK, NEW p \in Pids, NEW c \in Pids, Forks(p, c)
  PROVE  /\ ProcessesOK' /\ FamilyOK' /\ FrontOK'
         /\ p # c /\ c # First /\ p # None /\ proc[c].parent = None /\ proc[p].fg = None
         /\ ~Foreground(c) /\ proc[c].saved = "none" /\ proc[p].saved = "none"
         /\ \A q \in Pids : proc[q].parent # c
<1> USE DEF Foreground, Zombie, Alive, ShellAt, OtherAt
<1>1. ProcessesOK'
  BY DEF Forks, ProcessesOK
<1>2. /\ p # c /\ c # First /\ p # None /\ proc[c].parent = None /\ proc[p].fg = None
      /\ ~Foreground(c) /\ proc[c].saved = "none" /\ proc[p].saved = "none"
      /\ \A q \in Pids : proc[q].parent # c
  <2>1. proc[c].at = "none" /\ proc[p].at = "run" /\ p # None /\ c # None
    BY Constants DEF Forks
  <2>2. p # c /\ c # First /\ ~Foreground(c) /\ proc[c].saved = "none" /\ proc[p].saved = "none"
    BY <2>1 DEF FrontOK
  <2>3. proc[c].parent = None /\ proc[p].fg = None
    BY <2>1 DEF FamilyOK, ParentOK, WaitOK
  <2>4. ASSUME NEW q \in Pids
        PROVE  proc[q].parent # c
    BY <2>1 DEF FamilyOK, ParentOK
  <2> QED BY <2>1, <2>2, <2>3, <2>4
<1>3. /\ proc[p].at = "run" /\ proc'[p].at \in {"run", "wait"} /\ proc'[p].parent = proc[p].parent
      /\ proc'[p].group = proc[p].group /\ ~proc'[p].stopped
      /\ proc'[p].pending = {} /\ proc'[p].saved = "none"
      /\ IF proc'[p].at = "wait" THEN proc'[p].fg = c /\ proc'[p].todo # <<>>
                                 ELSE proc'[p].fg = None
  BY <1>2 DEF Forks
<1>4. /\ proc'[c].at = "child" /\ proc'[c].parent = p /\ proc'[c].group = proc[p].group
      /\ proc'[c].fg = None /\ proc'[c].pending = {} /\ proc'[c].todo # <<>>
      /\ ~proc'[c].stopped /\ proc'[c].saved = "none"
  BY <1>2 DEF Forks
<1>5. \A q \in Pids \ {p, c} : proc'[q] = proc[q]
  BY DEF Forks
<1>6. ASSUME NEW q \in Pids
      PROVE  ParentOK(q)' /\ WaitOK(q)' /\ StateOK(q)'
  <2>1. CASE q = c
    BY <1>2, <1>3, <1>4, <2>1 DEF ParentOK, WaitOK, StateOK
  <2>2. ASSUME q # c, proc'[q].parent # None
        PROVE  ParentOK(q)'
    <3>1. PICK r \in Pids \ {c} : proc[q].parent = r /\ proc'[q].parent = r
      BY <1>2, <1>3, <1>5, <2>2, Fields
    <3> QED BY <1>3, <1>5, <2>2, <3>1, Constants DEF FamilyOK, ParentOK
  <2>3. ASSUME q = p
        PROVE  WaitOK(q)' /\ StateOK(q)'
    BY <1>3, <1>4, <2>3 DEF WaitOK, StateOK
  <2>4. ASSUME q \notin {p, c}
        PROVE  WaitOK(q)'
    <3>1. CASE proc[q].at = "wait"
      <4>1. PICK d \in Pids : proc[q].fg = d /\ proc[d].parent = q
        BY <3>1 DEF FamilyOK, WaitOK
      <4> QED BY <1>2, <1>3, <1>5, <2>4, <3>1, <4>1, Constants DEF WaitOK
    <3>2. CASE proc[q].at # "wait"
      BY <1>5, <2>4, <3>2 DEF FamilyOK, WaitOK
    <3> QED BY <3>1, <3>2
  <2>5. ASSUME q \notin {p, c}
        PROVE  StateOK(q)'
    BY <1>5, <2>5 DEF FamilyOK, StateOK
  <2> QED BY <2>1, <2>2, <2>3, <2>4, <2>5 DEF ParentOK
<1>7. FrontOK'
  <2>1. proc'[First].at \in (ShellAt \ {"child"}) \cup {"gone"} /\ proc'[First].parent = None
        /\ (~Over' => Foreground(First)')
    BY <1>2, <1>3, <1>5, Constants DEF FrontOK, Over
  <2>2. ASSUME NEW q \in Pids
        PROVE  /\ proc'[q].stopped => ~Foreground(q)'
               /\ Foreground(q)' => Alive(q)'
               /\ proc'[q].at = "read" => Foreground(q)' /\ proc'[q].saved # "none"
               /\ proc'[q].saved # "none" =>
                    Foreground(q)' /\ proc'[q].at \in {"reap", "init", "read", "bye"}
    <3>1. CASE q \in {p, c}
      BY <1>3, <1>4, <3>1
    <3>2. CASE q \notin {p, c}
      BY <1>5, <3>2 DEF FrontOK
    <3> QED BY <3>1, <3>2
  <2>3. ASSUME NEW q \in Pids, Foreground(q)', proc'[q].parent # None
        PROVE  Foreground(proc[q].parent)'
    <3>1. CASE q = c
      BY <1>3, <1>4, <2>3, <3>1
    <3>2. CASE q # c
      <4>1. PICK r \in Pids \ {c} : proc[q].parent = r /\ proc'[q].parent = r
        BY <1>2, <1>3, <1>5, <2>3, <3>2, Fields
      <4>2. Foreground(q) /\ Foreground(r)
        BY <1>3, <1>5, <2>3, <3>2, <4>1, Constants DEF FrontOK
      <4> QED BY <1>3, <1>5, <4>1, <4>2
    <3> QED BY <3>1, <3>2
  <2> QED BY <2>1, <2>2, <2>3 DEF FrontOK
<1> QED BY <1>1, <1>2, <1>6, <1>7 DEF FamilyOK

LEMMA ForksChain ==
  ASSUME ProcessesOK, FamilyOK, FrontOK, ChainOK, TipOK,
         NEW p \in Pids, NEW c \in Pids, Forks(p, c)
  PROVE  ChainOK' /\ TipOK'
<1> USE DEF Zombie, Foreground
<1>1. /\ p # c /\ c # First /\ p # None /\ proc[c].parent = None /\ proc[p].fg = None
      /\ ~Foreground(c) /\ \A q \in Pids : proc[q].parent # c
  BY ForksFront
<1>2. /\ proc[p].at = "run" /\ proc'[p].parent = proc[p].parent /\ proc'[p].group = proc[p].group
      /\ proc'[c].at = "child" /\ proc'[c].parent = p /\ proc'[c].group = proc[p].group
      /\ proc'[c].todo = proc[p].todo /\ proc'[c].fg = None
      /\ IF Head(proc[p].todo).bg THEN proc'[p].at = "run" /\ proc'[p].fg = None
                                  ELSE proc'[p].at = "wait" /\ proc'[p].fg = c
      /\ \A q \in Pids \ {p, c} : proc'[q] = proc[q]
  BY DEF Forks
<1>3. ASSUME NEW q \in Pids \ {c}
      PROVE  proc'[q].parent = proc[q].parent /\ proc'[q].group = proc[q].group
  BY <1>2
<1>4. ASSUME NEW q \in Pids \ {c}, NEW r \in Pids
      PROVE  WaitsFor(r, q)' <=> WaitsFor(r, q)
  BY <1>1, <1>2, <1>3, Constants DEF WaitsFor
<1>5. WaitsFor(p, c)' <=> ~Head(proc[p].todo).bg
  BY <1>1, <1>2 DEF WaitsFor
<1>6. ASSUME NEW q \in Pids, Foreground(q)', proc'[q].at = "wait"
      PROVE  \/ Zombie(proc[q].fg)'
             \/ /\ Foreground(proc[q].fg)'
                /\ proc'[proc'[q].fg].at = "child" => ~Head(proc'[proc'[q].fg].todo).bg
  <2>1. CASE q = p
    BY <1>2, <1>6, <2>1
  <2>2. CASE q # p
    <3>1. q # c /\ proc'[q] = proc[q]
      BY <1>2, <1>6, <2>2
    <3>2. PICK d \in Pids : proc[q].fg = d /\ proc[d].parent = q
      BY <1>6, <3>1 DEF FamilyOK, WaitOK
    <3>3. d # c
      BY <1>1, <3>2, Constants
    <3>4. Zombie(d) \/ (Foreground(d) /\ (proc[d].at = "child" => ~Head(proc[d].todo).bg))
      BY <1>6, <3>1, <3>2 DEF ChainOK
    <3>5. CASE d = p
      BY <1>2, <3>1, <3>2, <3>4, <3>5
    <3>6. CASE d # p
      BY <1>2, <3>1, <3>2, <3>3, <3>4, <3>6
    <3> QED BY <3>5, <3>6
  <2> QED BY <2>1, <2>2
<1>7. ASSUME NEW q \in Pids, Foreground(q)'
      PROVE  \/ q = First
             \/ proc'[q].at = "exiting"
             \/ proc'[q].at = "child" /\ Head(proc'[q].todo).bg
             \/ proc'[q].parent # None /\ WaitsFor(proc[q].parent, q)'
  <2>1. CASE q = c
    BY <1>1, <1>2, <1>5, <2>1
  <2>2. CASE q # c
    <3>1. CASE q # p /\ (q = First \/ proc[q].at = "exiting"
                           \/ (proc[q].at = "child" /\ Head(proc[q].todo).bg))
      BY <1>2, <2>2, <3>1
    <3>2. CASE proc[q].parent # None /\ WaitsFor(proc[q].parent, q)
      BY <1>3, <1>4, <2>2, <3>2, Fields
    <3> QED BY <1>2, <1>3, <1>7, <2>2, <3>1, <3>2 DEF ChainOK
  <2> QED BY <2>1, <2>2
<1>8. ASSUME NEW q \in Pids \ {p, c}, Tip(q)'
      PROVE  Tip(q)
  <2>1. proc'[q] = proc[q] /\ Foreground(q)
    BY <1>2, <1>8 DEF Tip
  <2>2. ASSUME proc[q].at = "wait"
        PROVE  Zombie(proc[q].fg)
    <3>1. PICK d \in Pids : proc[q].fg = d
      BY <2>2 DEF FamilyOK, WaitOK
    <3> QED BY <1>2, <1>8, <2>1, <2>2, <3>1 DEF Tip
  <2>3. proc[q].at \in {"child", "exiting"} =>
          proc[q].parent # None /\ WaitsFor(proc[q].parent, q)
    BY <1>4, <1>8, <2>1, Fields DEF Tip
  <2> QED BY <2>1, <2>2, <2>3 DEF Tip
<1>9. ASSUME Tip(p)'
      PROVE  Tip(p) /\ Head(proc[p].todo).bg
  BY <1>2, <1>9 DEF Tip
<1>10. ASSUME Tip(c)'
       PROVE  Tip(p) /\ ~Head(proc[p].todo).bg
  BY <1>1, <1>2, <1>5, <1>10 DEF Tip
<1>11. TipOK'
  <2> SUFFICES ASSUME NEW q \in Pids, NEW r \in Pids, Tip(q)', Tip(r)'
               PROVE  q = r
    BY DEF TipOK
  <2> QED BY <1>8, <1>9, <1>10 DEF TipOK
<1> QED BY <1>6, <1>7, <1>11 DEF ChainOK

LEMMA ForksStep ==
  ASSUME IInv, NEW p \in Pids, NEW c \in Pids, Forks(p, c)
  PROVE  IInv'
<1> USE DEF IInv
<1>1. /\ p # c /\ c # First /\ p # None /\ proc[c].parent = None /\ proc[p].fg = None
      /\ proc[c].saved = "none" /\ proc[p].saved = "none" /\ \A q \in Pids : proc[q].parent # c
  BY ForksFront
<1>2. TerminalOK => TerminalOK'
  <2>1. \A q \in Pids : proc'[q].saved = proc[q].saved
    BY <1>1 DEF Forks
  <2> QED BY <2>1 DEF TerminalOK, Forks
<1>3. ASSUME ~disturbed
      PROVE  JobsListed'
  <2>1. /\ proc[p].at = "run" /\ proc'[p].parent = proc[p].parent
        /\ proc'[p].at \in {"run", "wait"} /\ proc'[c].at = "child" /\ proc'[c].parent = p
        /\ \A q \in Pids \ {p, c} : proc'[q] = proc[q]
        /\ IF Head(proc[p].todo).bg
           THEN proc'[p].fg = None /\ proc'[p].jobs = proc[p].jobs \cup {c}
           ELSE proc'[p].fg = c /\ proc'[p].jobs = proc[p].jobs
    BY DEF Forks
  <2>2. ASSUME NEW q \in Pids
        PROVE  Children(q)' = IF q = p THEN Children(p) \cup {c} ELSE Children(q)
    <3>1. ASSUME NEW d \in Pids
          PROVE  d \in Children(q)' <=> d \in Children(q) \/ (q = p /\ d = c)
      BY <1>1, <2>1, Constants DEF Children, Alive, Zombie, ShellAt, OtherAt
    <3> QED BY <3>1 DEF Children
  <2>3. c \notin Children(p) /\ None \notin Children(p) /\ Children(c) = {}
    BY <1>1, Constants DEF Children
  <2>4. Unreaped(p) = Children(p)
    BY <1>1, <2>3 DEF Unreaped
  <2>5. Unreaped(p)' = IF Head(proc[p].todo).bg THEN Children(p) \cup {c} ELSE Children(p)
    <3>1. Children(p)' = Children(p) \cup {c}
      BY <2>2
    <3>2. CASE Head(proc[p].todo).bg
      BY <2>1, <2>3, <3>1, <3>2, Constants DEF Unreaped
    <3>3. CASE ~Head(proc[p].todo).bg
      BY <2>1, <2>3, <3>1, <3>3 DEF Unreaped
    <3> QED BY <3>2, <3>3
  <2>6. Unreaped(c)' = {}
    BY <1>1, <2>2, <2>3 DEF Unreaped
  <2>7. ASSUME NEW q \in Pids \ {p, c}
        PROVE  proc'[q] = proc[q] /\ Unreaped(q)' = Unreaped(q)
    BY <2>1, <2>2 DEF Unreaped
  <2> QED BY <1>1, <1>3, <2>1, <2>4, <2>5, <2>6, <2>7 DEF JobsListed, ShellAt
<1>4. disturbed' = disturbed
  BY DEF Forks
<1> QED BY <1>2, <1>3, <1>4, ForksFront, ForksChain

(***************************************************************************)
(* Every step is one of these.                                             *)
(***************************************************************************)

LEMMA Changed ==
  ASSUME ProcessesOK, NEW p \in Pids, NEW new \in Process, proc' = [proc EXCEPT ![p] = new]
  PROVE  /\ proc' \in [Pids -> Process] /\ proc'[p] = new
         /\ \A q \in Pids \ {p} : proc'[q] = proc[q]
BY DEF ProcessesOK

LEMMA ChangedTwo ==
  ASSUME ProcessesOK, NEW p \in Pids, NEW c \in Pids \ {p},
         NEW new \in Process, NEW other \in Process,
         proc' = [proc EXCEPT ![c] = other, ![p] = new]
  PROVE  /\ proc' \in [Pids -> Process] /\ proc'[p] = new /\ proc'[c] = other
         /\ \A q \in Pids \ {p, c} : proc'[q] = proc[q]
BY DEF ProcessesOK

LEMMA MovesCases ==
  ASSUME IInv, NEW p \in Pids,
         \/ Runs(p, "reap") /\ proc' = [proc EXCEPT ![p].at = "init"] /\ UNCHANGED <<tty, disturbed>>
         \/ InitTerm(p) \/ InitTermFails(p) \/ Quit(p) \/ LineDone(p) \/ ForkFails(p)
         \/ \E line \in Lines : ReadLine(p, line)
  PROVE  Moves(p)
<1> USE DEF Runs, ShellAt
<1>1. ProcessesOK /\ proc[p] \in Process
  BY DEF IInv, ProcessesOK
<1>2. /\ proc[p].at # "wait" => proc[p].fg = None
      /\ proc[p].saved # "none" => Foreground(p) /\ proc[p].at \in {"reap", "init", "read", "bye"}
      /\ proc[p].at = "read" => Foreground(p) /\ proc[p].saved # "none"
      /\ proc[p].saved \in {"none", "cooked", "raw"} /\ tty \in {"cooked", "raw"}
      /\ disturbed \in BOOLEAN /\ proc[p].todo \in Seq(Commands)
  BY <1>1, Fields DEF IInv, FamilyOK, WaitOK, FrontOK, ProcessesOK
<1>3. CASE \/ Runs(p, "reap") /\ proc' = [proc EXCEPT ![p].at = "init"] /\ UNCHANGED <<tty, disturbed>>
           \/ InitTermFails(p) \/ Quit(p) \/ LineDone(p)
  <2>1. PICK at \in {"init", "bye", "reap"} :
          /\ proc' = [proc EXCEPT ![p].at = at] /\ UNCHANGED <<tty, disturbed>>
          /\ proc[p].at \in {"reap", "init", "read", "run"}
    BY <1>3 DEF InitTermFails, Quit, LineDone
  <2> DEFINE new == [proc[p] EXCEPT !.at = at]
  <2>2. new \in Process
    BY <1>1 DEF Process
  <2>3. /\ new.at = at /\ new.parent = proc[p].parent /\ new.group = proc[p].group
        /\ new.jobs = proc[p].jobs /\ (new.stopped <=> proc[p].stopped)
        /\ new.fg = proc[p].fg /\ new.saved = proc[p].saved
    BY <1>1 DEF Process
  <2>4. proc' = [proc EXCEPT ![p] = new]
    BY <2>1
  <2> HIDE DEF new
  <2> QED BY <1>1, <1>2, <2>1, <2>2, <2>3, <2>4, Changed DEF Moves, TerminalMoves
<1>4. CASE InitTerm(p)
  <2> DEFINE saved == IF proc[p].saved = "none" THEN tty ELSE proc[p].saved
             new   == [proc[p] EXCEPT !.at = "read", !.saved = saved]
  <2>1. proc' = [proc EXCEPT ![p] = new]
        /\ tty' = "raw" /\ disturbed' = disturbed /\ proc[p].at = "init" /\ Foreground(p)
    BY <1>4 DEF InitTerm
  <2>2. new \in Process
    BY <1>1, <1>2, ZenonT(60) DEF Process
  <2>3. /\ new.at = "read" /\ new.parent = proc[p].parent /\ new.group = proc[p].group
        /\ new.jobs = proc[p].jobs /\ (new.stopped <=> proc[p].stopped)
        /\ new.fg = proc[p].fg /\ new.saved = saved
    BY <1>1 DEF Process
  <2> HIDE DEF new
  <2> QED BY <1>1, <1>2, <2>1, <2>2, <2>3, Changed DEF Moves, TerminalMoves
<1>5. CASE ForkFails(p)
  <2> DEFINE new == [proc[p] EXCEPT !.todo = Tail(proc[p].todo)]
  <2>1. proc' = [proc EXCEPT ![p] = new] /\ UNCHANGED <<tty, disturbed>>
        /\ proc[p].at = "run" /\ proc[p].todo # <<>>
    BY <1>5 DEF ForkFails
  <2>2. new \in Process
    BY <1>1, <1>2, <2>1, Rest DEF Process
  <2>3. /\ new.at = "run" /\ new.parent = proc[p].parent /\ new.group = proc[p].group
        /\ new.jobs = proc[p].jobs /\ (new.stopped <=> proc[p].stopped)
        /\ new.fg = proc[p].fg /\ new.saved = proc[p].saved
    BY <1>1, <2>1 DEF Process
  <2> HIDE DEF new
  <2> QED BY <1>1, <1>2, <2>1, <2>2, <2>3, Changed DEF Moves, TerminalMoves
<1>6. ASSUME NEW line \in Lines, ReadLine(p, line)
      PROVE  Moves(p)
  <2> DEFINE new == [proc[p] EXCEPT !.at = "run", !.todo = line, !.saved = "none"]
  <2>1. proc' = [proc EXCEPT ![p] = new]
        /\ tty' = proc[p].saved /\ disturbed' = disturbed /\ proc[p].at = "read"
    BY <1>6 DEF ReadLine
  <2>2. new \in Process
    BY <1>1, <2>1, Constants DEF Process
  <2>3. /\ new.at = "run" /\ new.parent = proc[p].parent /\ new.group = proc[p].group
        /\ new.jobs = proc[p].jobs /\ (new.stopped <=> proc[p].stopped)
        /\ new.fg = proc[p].fg /\ new.saved = "none"
    BY <1>1 DEF Process
  <2> HIDE DEF new
  <2> QED BY <1>1, <1>2, <2>1, <2>2, <2>3, Changed DEF Moves, TerminalMoves
<1> QED BY <1>3, <1>4, <1>5, <1>6

LEMMA ReapsCases ==
  ASSUME IInv, NEW p \in Pids, Reap(p) \/ Wait(p)
  PROVE  Moves(p) \/ \E c \in Pids : Reaps(p, c)
<1> USE DEF ShellAt
<1>1. ProcessesOK /\ FamilyOK /\ proc[p] \in Process /\ Gone \in Process
  BY Constants DEF IInv, ProcessesOK
<1>2. CASE Runs(p, "reap") /\ proc' = [proc EXCEPT ![p].at = "init"] /\ UNCHANGED <<tty, disturbed>>
  BY <1>2, MovesCases
<1>3. ASSUME NEW c \in Children(p), Zombie(c), Runs(p, "reap"), UNCHANGED <<tty, disturbed>>,
             proc' = [Reaped(proc, c) EXCEPT ![p].at = "init", ![p].jobs = @ \ {c}]
      PROVE  Reaps(p, c)
  <2>1. proc[c].parent = p /\ c \in Pids /\ p # c /\ proc[p].at = "reap" /\ proc[p].fg = None
    BY <1>1, <1>3, Constants DEF Children, Runs, FamilyOK, ParentOK, WaitOK
  <2> DEFINE new == [proc[p] EXCEPT !.at = "init", !.jobs = proc[p].jobs \ {c}]
  <2>2. new \in Process
    BY <1>1 DEF Process
  <2>3. /\ new.at = "init" /\ new.parent = proc[p].parent /\ new.group = proc[p].group
        /\ new.jobs = proc[p].jobs \ {c} /\ (new.stopped <=> proc[p].stopped)
        /\ new.fg = proc[p].fg /\ new.saved = proc[p].saved /\ new.pending = proc[p].pending
    BY <1>1 DEF Process
  <2>4. proc' = [proc EXCEPT ![c] = Gone, ![p] = new]
    BY <1>1, <1>3, <2>1 DEF Reaped, Gone, ProcessesOK
  <2> HIDE DEF new
  <2>5. proc' \in [Pids -> Process] /\ proc'[p] = new /\ proc'[c] = Gone
        /\ \A q \in Pids \ {p, c} : proc'[q] = proc[q]
    <3>1. c \in Pids \ {p}
      BY <2>1
    <3> QED BY <1>1, <2>2, <2>4, <3>1, ChangedTwo, Zenon
  <2> QED BY <1>3, <2>1, <2>3, <2>5 DEF Reaps
<1>4. ASSUME Wait(p)
      PROVE  \E c \in Pids : Reaps(p, c)
  <2>1. PICK c \in Pids : proc[p].fg = c /\ proc[c].parent = p
    BY <1>1, <1>4 DEF Wait, FamilyOK, WaitOK
  <2>2. Zombie(c) /\ p # c /\ proc[p].at = "wait" /\ proc[p].todo # <<>>
        /\ proc[p].todo \in Seq(Commands)
    BY <1>1, <1>4, <2>1, Constants, Fields DEF Wait, FamilyOK, ParentOK, StateOK
  <2> DEFINE new == [proc[p] EXCEPT !.at = "run", !.todo = Tail(proc[p].todo), !.fg = None]
  <2>3. new \in Process
    BY <1>1, <2>2, Rest DEF Process
  <2>4. /\ new.at = "run" /\ new.parent = proc[p].parent /\ new.group = proc[p].group
        /\ new.jobs = proc[p].jobs /\ (new.stopped <=> proc[p].stopped)
        /\ new.fg = None /\ new.saved = proc[p].saved /\ new.pending = proc[p].pending
    BY <1>1 DEF Process
  <2>5. proc' = [proc EXCEPT ![c] = Gone, ![p] = new] /\ UNCHANGED <<tty, disturbed>>
    BY <1>1, <1>4, <2>1, <2>2 DEF Wait, Reaped, Gone, ProcessesOK
  <2> HIDE DEF new
  <2>6. c \in Pids \ {p}
    BY <2>2
  <2>7. proc' \in [Pids -> Process] /\ proc'[p] = new /\ proc'[c] = Gone
        /\ \A q \in Pids \ {p, c} : proc'[q] = proc[q]
    BY <1>1, <2>3, <2>5, <2>6, ChangedTwo, Zenon
  <2> QED BY <2>1, <2>2, <2>4, <2>5, <2>7 DEF Reaps
<1> QED BY <1>2, <1>3, <1>4 DEF Reap, Children

LEMMA BeginsCases ==
  ASSUME IInv, NEW p \in Pids, Exec(p) \/ Return(p) \/ Exit(p)
  PROVE  Begins(p)
<1> USE DEF Runs
<1>1. ProcessesOK /\ FamilyOK /\ FrontOK /\ proc[p] \in Process
  BY DEF IInv, ProcessesOK
<1>2. /\ proc[p].at = "child" /\ proc[p].pending = {} /\ ~proc[p].stopped /\ proc[p].todo # <<>>
      /\ proc[p].fg = None /\ proc[p].saved = "none" /\ UNCHANGED <<tty, disturbed>>
  BY <1>1 DEF Exec, Return, Exit, FamilyOK, StateOK, WaitOK, FrontOK
<1>3. /\ Regrouped(p) \in Pids \cup {None} /\ proc[p].todo \in Seq(Commands)
      /\ Tail(proc[p].todo) \in Seq(Commands)
  BY <1>1, <1>2, Fields, Rest DEF Regrouped
<1>4. CASE Exec(p)
  <2>1. PICK kind \in {"program", "filler"} :
          proc' = [proc EXCEPT ![p] =
                    [NoProcess EXCEPT !.at = kind, !.parent = proc[p].parent,
                                      !.group = Regrouped(p)]]
    BY <1>4 DEF Exec
  <2> DEFINE new == [NoProcess EXCEPT !.at = kind, !.parent = proc[p].parent,
                                      !.group = Regrouped(p)]
  <2>2. new \in Process
    <3>1. /\ kind \in ShellAt \cup OtherAt \cup {"none", "zombie", "gone"}
          /\ proc[p].parent \in Pids \cup {None} /\ Regrouped(p) \in Pids \cup {None}
      BY <1>1, <1>3, Fields DEF OtherAt
    <3> QED BY <3>1, Constants, Zenon DEF Process
  <2>3. /\ new.at = kind /\ new.parent = proc[p].parent /\ new.group = Regrouped(p)
        /\ new.fg = None /\ new.pending = {} /\ ~new.stopped /\ new.saved = "none"
    BY DEF NoProcess
  <2>4. proc' = [proc EXCEPT ![p] = new]
    BY <2>1
  <2> HIDE DEF new
  <2> QED BY <1>1, <1>2, <2>2, <2>3, <2>4, Changed DEF Begins
<1>5. CASE Return(p)
  <2> DEFINE input == IF Head(proc[p].todo).kind = "returns" THEN proc[p].input ELSE "other"
             new   == [proc[p] EXCEPT !.at = "run", !.todo = Tail(proc[p].todo),
                                      !.group = Regrouped(p), !.input = input]
  <2>1. new \in Process
    <3>1. input \in {"tty", "other"}
      BY <1>1 DEF Process
    <3> HIDE DEF input
    <3> QED BY <1>1, <1>3, <3>1 DEF Process, ShellAt
  <2>2. /\ new.at = "run" /\ new.parent = proc[p].parent /\ new.group = Regrouped(p)
        /\ new.fg = proc[p].fg /\ new.pending = proc[p].pending
        /\ (new.stopped <=> proc[p].stopped) /\ new.saved = proc[p].saved
    BY <1>1 DEF Process
  <2>3. proc' = [proc EXCEPT ![p] = new]
    BY <1>5 DEF Return
  <2> HIDE DEF new
  <2> QED BY <1>1, <1>2, <2>1, <2>2, <2>3, Changed DEF Begins
<1>6. CASE Exit(p)
  <2> DEFINE new == [proc[p] EXCEPT !.at = "exiting", !.todo = <<>>, !.group = Regrouped(p)]
  <2>1. new \in Process
    <3>1. <<>> \in Seq(Commands)
      BY EmptySeq
    <3> QED BY <1>1, <1>3, <3>1 DEF Process, OtherAt
  <2>2. /\ new.at = "exiting" /\ new.parent = proc[p].parent /\ new.group = Regrouped(p)
        /\ new.fg = proc[p].fg /\ new.pending = proc[p].pending
        /\ (new.stopped <=> proc[p].stopped) /\ new.saved = proc[p].saved
    BY <1>1 DEF Process
  <2>3. CASE proc[p].parent = None
    <3>1. proc' = [proc EXCEPT ![p] = new]
      BY <1>6, <2>3 DEF Exit
    <3> HIDE DEF new
    <3> QED BY <1>1, <1>2, <2>1, <2>2, <3>1, Changed DEF Begins
  <2>4. CASE proc[p].parent # None
    <3>1. PICK r \in Pids \ {p} : proc[p].parent = r
      BY <1>1, <2>4, Fields DEF FamilyOK, ParentOK
    <3> DEFINE told == [proc[r] EXCEPT !.pending = proc[r].pending \cup {"TERM"}]
    <3>2. proc[r] \in Process
      BY <1>1 DEF ProcessesOK
    <3>3. told \in Process
      BY <3>2 DEF Process, Signals
    <3>4. /\ told.at = proc[r].at /\ told.parent = proc[r].parent /\ told.group = proc[r].group
          /\ told.todo = proc[r].todo /\ told.fg = proc[r].fg /\ told.jobs = proc[r].jobs
          /\ told.saved = proc[r].saved /\ (told.stopped <=> proc[r].stopped)
      BY <3>2 DEF Process
    <3>5. proc' = [proc EXCEPT ![r] = told, ![p] = new]
      BY <1>1, <1>6, <2>4, <3>1 DEF Exit, ProcessesOK
    <3> HIDE DEF new, told
    <3>6. proc' \in [Pids -> Process] /\ proc'[p] = new /\ proc'[r] = told
          /\ \A q \in Pids \ {p, r} : proc'[q] = proc[q]
      BY <1>1, <2>1, <3>1, <3>3, <3>5, ChangedTwo, ZenonT(60)
    <3> QED BY <1>1, <1>2, <2>2, <3>1, <3>4, <3>6 DEF Begins
  <2> QED BY <2>3, <2>4
<1> QED BY <1>4, <1>5, <1>6

LEMMA ForksCases ==
  ASSUME IInv, NEW p \in Pids, Fork(p)
  PROVE  \E c \in Pids : Forks(p, c)
<1> USE DEF Runs
<1>1. ProcessesOK /\ FamilyOK /\ proc[p] \in Process
  BY DEF IInv, ProcessesOK
<1>2. PICK c \in Pids : c = NextPid /\ proc[c].at = "none"
  BY NextPidFree DEF Fork, Free
<1>3. /\ proc[p].at = "run" /\ proc[p].pending = {} /\ ~proc[p].stopped /\ proc[p].todo # <<>>
      /\ proc[p].fg = None /\ UNCHANGED <<tty, disturbed>> /\ c \in Pids \ {p}
      /\ proc[p].todo \in Seq(Commands) /\ Tail(proc[p].todo) \in Seq(Commands)
  BY <1>1, <1>2, Fields, Rest DEF Fork, FamilyOK, WaitOK
<1> DEFINE copy == [proc[p] EXCEPT !.at = "child", !.parent = p]
<1>4. copy \in Process
  BY <1>1 DEF Process, ShellAt
<1>5. /\ copy.at = "child" /\ copy.parent = p /\ copy.group = proc[p].group
      /\ copy.todo = proc[p].todo /\ copy.fg = proc[p].fg /\ copy.pending = proc[p].pending
      /\ (copy.stopped <=> proc[p].stopped) /\ copy.saved = proc[p].saved
  BY <1>1 DEF Process
<1>6. CASE Head(proc[p].todo).bg
  <2> DEFINE shell == [proc[p] EXCEPT !.jobs = proc[p].jobs \cup {c}, !.todo = Tail(proc[p].todo)]
  <2>1. shell \in Process
    BY <1>1, <1>3 DEF Process
  <2>2. /\ shell.at = "run" /\ shell.parent = proc[p].parent /\ shell.group = proc[p].group
        /\ shell.jobs = proc[p].jobs \cup {c} /\ shell.fg = proc[p].fg
        /\ shell.pending = proc[p].pending /\ (shell.stopped <=> proc[p].stopped)
        /\ shell.saved = proc[p].saved
    BY <1>1, <1>3 DEF Process
  <2>3. proc' = [proc EXCEPT ![c] = copy, ![p] = shell]
    BY <1>1, <1>2, <1>3, <1>6 DEF Fork, ProcessesOK
  <2> HIDE DEF copy, shell
  <2>4. proc' \in [Pids -> Process] /\ proc'[p] = shell /\ proc'[c] = copy
        /\ \A q \in Pids \ {p, c} : proc'[q] = proc[q]
    BY <1>1, <1>3, <1>4, <2>1, <2>3, ChangedTwo
  <2> QED BY <1>2, <1>3, <1>5, <1>6, <2>2, <2>4 DEF Forks
<1>7. CASE ~Head(proc[p].todo).bg
  <2> DEFINE shell == [proc[p] EXCEPT !.at = "wait", !.fg = c]
  <2>1. shell \in Process
    BY <1>1 DEF Process, ShellAt
  <2>2. /\ shell.at = "wait" /\ shell.parent = proc[p].parent /\ shell.group = proc[p].group
        /\ shell.jobs = proc[p].jobs /\ shell.fg = c /\ shell.todo = proc[p].todo
        /\ shell.pending = proc[p].pending /\ (shell.stopped <=> proc[p].stopped)
        /\ shell.saved = proc[p].saved
    BY <1>1, <1>3 DEF Process
  <2>3. proc' = [proc EXCEPT ![c] = copy, ![p] = shell]
    BY <1>1, <1>2, <1>3, <1>7 DEF Fork, ProcessesOK
  <2> HIDE DEF copy, shell
  <2>4. proc' \in [Pids -> Process] /\ proc'[p] = shell /\ proc'[c] = copy
        /\ \A q \in Pids \ {p, c} : proc'[q] = proc[q]
    BY <1>1, <1>3, <1>4, <2>1, <2>3, ChangedTwo
  <2> QED BY <1>2, <1>3, <1>5, <1>7, <2>2, <2>4 DEF Forks
<1> QED BY <1>6, <1>7

LEMMA QuietCases ==
  ASSUME IInv,
         \/ UNCHANGED vars \/ Interrupt
         \/ \E p \in Pids :
              \/ InitTermStops(p)
              \/ /\ proc' = [proc EXCEPT ![p].pending = @ \ {"INT"}, ![p].handled = @ \ {"INT"}]
                 /\ UNCHANGED <<tty, disturbed>>
  PROVE  Quiet
<1>1. ProcessesOK
  BY DEF IInv
<1>2. CASE UNCHANGED vars
  BY <1>1, <1>2 DEF vars, Quiet, ProcessesOK
<1>3. CASE Interrupt
  <2> DEFINE new(q) == [proc[q] EXCEPT !.pending = proc[q].pending \cup {"INT"}]
  <2>1. ASSUME NEW q \in Pids
        PROVE  /\ new(q) \in Process
               /\ new(q).at = proc[q].at /\ new(q).parent = proc[q].parent
               /\ new(q).group = proc[q].group /\ new(q).todo = proc[q].todo
               /\ new(q).fg = proc[q].fg /\ new(q).jobs = proc[q].jobs
               /\ new(q).saved = proc[q].saved /\ (new(q).stopped <=> proc[q].stopped)
               /\ new(q).pending = proc[q].pending \cup {"INT"}
    <3>1. proc[q] \in Process
      BY <1>1 DEF ProcessesOK
    <3> QED BY <3>1 DEF Process, Signals
  <2>2. /\ proc' = [q \in Pids |-> IF Alive(q) /\ Foreground(q) THEN new(q) ELSE proc[q]]
        /\ UNCHANGED <<tty, disturbed>>
    BY <1>3 DEF Interrupt
  <2> HIDE DEF new
  <2>3. proc' \in [Pids -> Process] /\ \A q \in Pids : proc'[q] = new(q) \/ proc'[q] = proc[q]
    BY <1>1, <2>1, <2>2 DEF ProcessesOK
  <2> QED BY <2>1, <2>2, <2>3 DEF Quiet
<1>4. ASSUME NEW p \in Pids, InitTermStops(p)
      PROVE  Quiet
  <2> DEFINE new(q) == [proc[q] EXCEPT !.stopped = TRUE]
  <2>1. ASSUME NEW q \in Pids
        PROVE  /\ new(q) \in Process
               /\ new(q).at = proc[q].at /\ new(q).parent = proc[q].parent
               /\ new(q).group = proc[q].group /\ new(q).todo = proc[q].todo
               /\ new(q).fg = proc[q].fg /\ new(q).jobs = proc[q].jobs
               /\ new(q).saved = proc[q].saved /\ new(q).pending = proc[q].pending
    <3>1. proc[q] \in Process
      BY <1>1 DEF ProcessesOK
    <3> QED BY <3>1 DEF Process
  <2>2. /\ proc' = [q \in Pids |-> IF Alive(q) /\ proc[q].group = proc[p].group
                                   THEN new(q) ELSE proc[q]]
        /\ UNCHANGED <<tty, disturbed>> /\ ~Foreground(p)
    BY <1>4 DEF InitTermStops
  <2> HIDE DEF new
  <2>3. /\ proc' \in [Pids -> Process]
        /\ \A q \in Pids : \/ proc'[q] = proc[q]
                           \/ proc'[q] = new(q) /\ ~Foreground(q)
    BY <1>1, <2>1, <2>2 DEF ProcessesOK, Foreground
  <2> QED BY <2>1, <2>2, <2>3 DEF Quiet
<1>5. ASSUME NEW p \in Pids, UNCHANGED <<tty, disturbed>>,
             proc' = [proc EXCEPT ![p].pending = @ \ {"INT"}, ![p].handled = @ \ {"INT"}]
      PROVE  Quiet
  <2> DEFINE new == [proc[p] EXCEPT !.pending = proc[p].pending \ {"INT"},
                                    !.handled = proc[p].handled \ {"INT"}]
  <2>1. proc[p] \in Process
    BY <1>1 DEF ProcessesOK
  <2>2. /\ new \in Process
        /\ new.at = proc[p].at /\ new.parent = proc[p].parent
        /\ new.group = proc[p].group /\ new.todo = proc[p].todo
        /\ new.fg = proc[p].fg /\ new.jobs = proc[p].jobs
        /\ new.saved = proc[p].saved /\ (new.stopped <=> proc[p].stopped)
        /\ new.pending = proc[p].pending \ {"INT"}
    BY <2>1 DEF Process
  <2>3. proc' = [proc EXCEPT ![p] = new]
    BY <1>5
  <2> HIDE DEF new
  <2>4. proc' \in [Pids -> Process] /\ proc'[p] = new /\ \A q \in Pids \ {p} : proc'[q] = proc[q]
    BY <1>1, <2>2, <2>3, Changed
  <2>5. ASSUME NEW q \in Pids
        PROVE  q = p \/ proc'[q] = proc[q]
    BY <2>4
  <2> QED BY <1>5, <2>2, <2>4, <2>5 DEF Quiet
<1> QED BY <1>2, <1>3, <1>4, <1>5

\* A shell that a signal sends elsewhere.
LEMMA SignalMoves ==
  ASSUME IInv, NEW p \in Pids,
         \/ HandleTerm(p) /\ "TERM" \in proc[p].pending
         \/ HandleInt(p) /\ proc[p].at \in {"read", "wait"} /\ proc'[p].at # proc[p].at
  PROVE  Moves(p)
<1> USE DEF ShellAt
<1>1. ProcessesOK /\ proc[p] \in Process /\ proc[p].todo \in Seq(Commands)
  BY Fields DEF IInv, ProcessesOK
<1>2. /\ proc[p].at # "wait" => proc[p].fg = None
      /\ proc[p].at \in {"child", "wait"} => proc[p].todo # <<>>
      /\ "TERM" \in proc[p].pending => proc[p].at \in ShellAt \ {"child"}
      /\ proc[p].saved # "none" => Foreground(p) /\ proc[p].at \in {"reap", "init", "read", "bye"}
      /\ tty \in {"cooked", "raw"} /\ disturbed \in BOOLEAN
  BY <1>1 DEF IInv, FamilyOK, WaitOK, StateOK, FrontOK, ProcessesOK
<1>3. CASE HandleTerm(p) /\ "TERM" \in proc[p].pending
  <2> DEFINE new == [proc[p] EXCEPT !.at = "bye", !.fg = None, !.todo = <<>>,
                                    !.pending = proc[p].pending \ {"TERM"},
                                    !.handled = proc[p].handled \ {"TERM"}]
  <2>1. new \in Process
    <3>1. <<>> \in Seq(Commands)
      BY EmptySeq
    <3> QED BY <1>1, <3>1 DEF Process
  <2>2. /\ new.at = "bye" /\ new.parent = proc[p].parent /\ new.group = proc[p].group
        /\ new.jobs = proc[p].jobs /\ (new.stopped <=> proc[p].stopped)
        /\ new.fg = None /\ new.saved = proc[p].saved
    BY <1>1 DEF Process
  <2>3. proc' = [proc EXCEPT ![p] = new] /\ tty' = tty /\ disturbed' = (disturbed \/ Forsakes(p))
    BY <1>3 DEF HandleTerm
  <2> HIDE DEF new
  <2>4. proc' \in [Pids -> Process] /\ proc'[p] = new /\ \A q \in Pids \ {p} : proc'[q] = proc[q]
    BY <1>1, <2>1, <2>3, Changed
  <2>5. disturbed' \in BOOLEAN
    BY <1>2, <2>3
  <2>6. ~disturbed' => ~disturbed /\ (proc[p].at = "wait" => proc[proc[p].fg].at \in {"exiting", "zombie"})
    BY <2>3 DEF Forsakes
  <2> QED BY <1>2, <1>3, <2>2, <2>3, <2>4, <2>5, <2>6 DEF Moves, TerminalMoves
<1>4. CASE HandleInt(p) /\ proc[p].at = "read"
  <2> DEFINE new == [proc[p] EXCEPT !.at = "bye",
                                    !.pending = proc[p].pending \ {"INT"},
                                    !.handled = proc[p].handled \ {"INT"}]
  <2>1. /\ new \in Process
        /\ new.at = "bye" /\ new.parent = proc[p].parent /\ new.group = proc[p].group
        /\ new.jobs = proc[p].jobs /\ (new.stopped <=> proc[p].stopped)
        /\ new.fg = proc[p].fg /\ new.saved = proc[p].saved
    BY <1>1 DEF Process
  <2>2. proc' = [proc EXCEPT ![p] = new] /\ UNCHANGED <<tty, disturbed>>
    <3>1. proc' = [[proc EXCEPT ![p].pending = @ \ {"INT"}, ![p].handled = @ \ {"INT"}]
                    EXCEPT ![p].at = "bye"] /\ UNCHANGED <<tty, disturbed>>
      BY <1>4 DEF HandleInt
    <3> QED BY <1>1, <3>1 DEF ProcessesOK, Process
  <2> HIDE DEF new
  <2>3. proc' \in [Pids -> Process] /\ proc'[p] = new /\ \A q \in Pids \ {p} : proc'[q] = proc[q]
    BY <1>1, <2>1, <2>2, Changed
  <2> QED BY <1>2, <1>4, <2>1, <2>2, <2>3 DEF Moves, TerminalMoves
<1>5. CASE HandleInt(p) /\ proc[p].at = "wait" /\ proc'[p].at # "wait"
  <2> DEFINE new == [proc[p] EXCEPT !.at = "run", !.fg = None, !.todo = Tail(proc[p].todo),
                                    !.pending = proc[p].pending \ {"INT"},
                                    !.handled = proc[p].handled \ {"INT"}]
  <2>1. Tail(proc[p].todo) \in Seq(Commands)
    BY <1>1, <1>2, <1>5, Rest
  <2>2. new \in Process
    BY <1>1, <2>1 DEF Process
  <2>3. /\ new.at = "run" /\ new.parent = proc[p].parent /\ new.group = proc[p].group
        /\ new.jobs = proc[p].jobs /\ (new.stopped <=> proc[p].stopped)
        /\ new.fg = None /\ new.saved = proc[p].saved
    BY <1>1 DEF Process
  <2>4. proc' = [proc EXCEPT ![p] = new] /\ tty' = tty /\ disturbed' = TRUE
    <3>1. [proc EXCEPT ![p].pending = @ \ {"INT"}, ![p].handled = @ \ {"INT"}][p].at = "wait"
      BY <1>1, <1>5 DEF ProcessesOK, Process
    <3>2. /\ proc' = [[proc EXCEPT ![p].pending = @ \ {"INT"}, ![p].handled = @ \ {"INT"}]
                       EXCEPT ![p].at = "run", ![p].fg = None, ![p].todo = Tail(@)]
          /\ disturbed' = TRUE /\ tty' = tty
      BY <1>5, <3>1 DEF HandleInt
    <3>3. DOMAIN proc = Pids /\ p \in Pids
      BY <1>1 DEF ProcessesOK
    <3> QED BY <1>1, <3>2, <3>3, ZenonT(60) DEF Process
  <2> HIDE DEF new
  <2>5. proc' \in [Pids -> Process] /\ proc'[p] = new /\ \A q \in Pids \ {p} : proc'[q] = proc[q]
    BY <1>1, <2>2, <2>4, Changed
  <2> QED BY <1>2, <1>5, <2>3, <2>4, <2>5 DEF Moves, TerminalMoves
<1> QED BY <1>3, <1>4, <1>5

LEMMA HandleStep ==
  ASSUME IInv, NEW p \in Pids, NEW sig \in Signals, Handle(p, sig)
  PROVE  IInv'
<1>1. ~Over /\ Alive(p) /\ sig \in proc[p].pending
  BY DEF Handle
<1>2. CASE Kill(p)
  BY <1>1, <1>2, EndsCases, EndsStep DEF IInv
<1>3. CASE sig = "TERM" /\ HandleTerm(p)
  BY <1>1, <1>3, SignalMoves, MovesStep
<1>4. CASE HandleInt(p)
  <2> DEFINE handled == [proc EXCEPT ![p].pending = @ \ {"INT"}, ![p].handled = @ \ {"INT"}]
  <2>1. CASE proc[p].at = "bye" /\ Leave(p) /\ UNCHANGED disturbed
    BY <1>1, <2>1, EndsCases, EndsStep DEF IInv
  <2>2. CASE proc' = handled /\ UNCHANGED <<tty, disturbed>>
    BY <2>2, QuietCases, QuietStep
  <2>3. CASE proc[p].at \in {"read", "wait"} /\ proc'[p].at # proc[p].at
    BY <1>4, <2>3, SignalMoves, MovesStep
  <2>4. ASSUME proc[p].at = "read", proc' = [handled EXCEPT ![p].at = "bye"]
        PROVE  proc'[p].at # "read"
    BY <2>4 DEF IInv, ProcessesOK, Process
  <2>5. ASSUME proc[p].at = "wait",
               proc' = [handled EXCEPT ![p].at = "run", ![p].fg = None, ![p].todo = Tail(@)]
        PROVE  proc'[p].at # "wait"
    BY <2>5 DEF IInv, ProcessesOK, Process
  <2> QED BY <1>4, <2>1, <2>2, <2>3, <2>4, <2>5 DEF HandleInt
<1> QED BY <1>2, <1>3, <1>4 DEF Handle

LEMMA InitInvariant == Init => IInv
<1> SUFFICES ASSUME Init
             PROVE  IInv
  OBVIOUS
<1> DEFINE first == [NoProcess EXCEPT !.at = "reap", !.group = First,
                                      !.handled = Signals, !.saved = "cooked"]
<1>1. proc = [p \in Pids |-> IF p = First THEN first ELSE NoProcess] /\ tty = "raw" /\ disturbed = FALSE
  BY DEF Init
<1>2. first \in Process
  BY Constants DEF Process, ShellAt
<1>3. /\ first.at = "reap" /\ first.parent = None /\ first.group = First /\ first.fg = None
      /\ first.jobs = {} /\ first.pending = {} /\ ~first.stopped /\ first.saved = "cooked"
      /\ NoProcess.at = "none" /\ NoProcess.parent = None /\ NoProcess.group = None
      /\ NoProcess.fg = None /\ NoProcess.pending = {} /\ ~NoProcess.stopped
      /\ NoProcess.saved = "none"
  BY DEF NoProcess
<1> HIDE DEF first
<1>4. proc[First] = first /\ \A p \in Pids \ {First} : proc[p] = NoProcess
  BY <1>1, Constants
<1>5. ProcessesOK
  BY <1>1, <1>2, Constants DEF ProcessesOK
<1>6. FamilyOK
  BY <1>3, <1>4, Constants DEF FamilyOK, ParentOK, WaitOK, StateOK, Zombie, ShellAt
<1>7. FrontOK
  BY <1>3, <1>4, Constants DEF FrontOK, Over, Alive, Foreground, ShellAt
<1>8. ChainOK /\ TipOK
  BY <1>3, <1>4, Constants DEF ChainOK, TipOK, Tip, Foreground
<1>9. TerminalOK
  BY <1>1, <1>3, <1>4, Constants DEF TerminalOK
<1>10. JobsListed
  BY <1>3, <1>4, Constants, ZenonT(60) DEF JobsListed, Unreaped, Children, ShellAt
<1> QED BY <1>5, <1>6, <1>7, <1>8, <1>9, <1>10 DEF IInv

LEMMA NextInvariant == IInv /\ [Next]_vars => IInv'
<1> SUFFICES ASSUME IInv, [Next]_vars
             PROVE  IInv'
  OBVIOUS
<1>1. CASE UNCHANGED vars \/ Interrupt
  BY <1>1, QuietCases, QuietStep
<1>2. ASSUME NEW p \in Pids, Quit(p) \/ (\E line \in Lines : ReadLine(p, line)) \/ InitTerm(p)
                               \/ InitTermFails(p) \/ LineDone(p) \/ ForkFails(p)
      PROVE  IInv'
  <2>1. Moves(p)
    BY <1>2, MovesCases
  <2> QED BY <2>1, MovesStep
<1>3. ASSUME NEW p \in Pids, Reap(p) \/ Wait(p)
      PROVE  IInv'
  BY <1>3, ReapsCases, ReapsStep, MovesStep
<1>4. ASSUME NEW p \in Pids, InitTermStops(p)
      PROVE  IInv'
  BY <1>4, QuietCases, QuietStep
<1>5. ASSUME NEW p \in Pids, Fork(p)
      PROVE  IInv'
  BY <1>5, ForksCases, ForksStep
<1>6. ASSUME NEW p \in Pids, Exec(p) \/ Return(p) \/ Exit(p)
      PROVE  IInv'
  BY <1>6, BeginsCases, BeginsStep
<1>7. ASSUME NEW p \in Pids, End(p) \/ Goodnight(p) \/ Hangup(p)
      PROVE  IInv'
  BY <1>7, EndsCases, EndsStep DEF IInv
<1>8. ASSUME NEW p \in Pids, NEW sig \in Signals, Handle(p, sig)
      PROVE  IInv'
  BY <1>8, HandleStep
<1>9. ASSUME NEW p \in Pids, Step(p)
      PROVE  IInv'
  BY <1>2, <1>3, <1>4, <1>5, <1>6, <1>7, <1>8, <1>9 DEF Step
<1> QED BY <1>1, <1>2, <1>9 DEF Next, User

(***************************************************************************)
(* The theorems.                                                           *)
(***************************************************************************)

\* Whatever signals come and whoever dies, parents are living shells; and until
\* the session is disturbed, the shells in front are a chain of which each
\* waits for the next, and only its end has the terminal.
THEOREM Invariant == Spec => []IInv
BY InitInvariant, NextInvariant, PTL DEF Spec

\* A process is in a state of the program, and what a shell waits for is its
\* child, running or dead but not reaped: waitpid() in fork_and_exec() can
\* always return.
THEOREM TypeCorrect == Spec => []TypeOK
<1>1. IInv => TypeOK
  <2> SUFFICES ASSUME IInv, NEW p \in Pids
               PROVE  /\ proc[p].at \in ShellAt \cup OtherAt \cup {"none", "zombie", "gone"}
                      /\ proc[p].parent \in Pids \cup {None}
                      /\ proc[p].jobs \subseteq Pids /\ proc[p].pending \subseteq Signals
                      /\ proc[p].saved \in {"none", "cooked", "raw"}
                      /\ proc[p].at \in {"child", "wait"} => proc[p].todo # <<>>
                      /\ proc[p].at = "wait" => proc[p].fg \in Children(p)
    BY DEF TypeOK, IInv, ProcessesOK
  <2>1. ProcessesOK /\ StateOK(p) /\ WaitOK(p)
    BY DEF IInv, FamilyOK
  <2>2. ASSUME proc[p].at = "wait"
        PROVE  proc[p].fg \in Children(p)
    <3>1. PICK c \in Pids : proc[p].fg = c /\ proc[c].parent = p
      BY <2>1, <2>2 DEF WaitOK
    <3>2. Alive(c) \/ Zombie(c)
      BY <3>1, Constants DEF IInv, FamilyOK, ParentOK
    <3> QED BY <3>1, <3>2 DEF Children
  <2> QED BY <2>1, <2>2, Fields DEF StateOK
<1> QED BY <1>1, Invariant, PTL

\* The table of jobs and the kernel agree: what the main loop reaps it removes
\* from the table it is in, and fork_and_exec() enters what is not waited for.
THEOREM JobsAgree == Spec => []JobsListed
<1>1. IInv => JobsListed
  BY DEF IInv, JobsListed
<1> QED BY <1>1, Invariant, PTL

\* However many children have come back from fork_and_exec() as shells, one at
\* most reads the terminal, and nothing else in front competes with it.
THEOREM OneReader == Spec => []ReaderAlone
<1>1. IInv => ReaderAlone
  <2> SUFFICES ASSUME IInv, ~disturbed, NEW p \in Pids, NEW q \in Pids,
                      p # q, proc[p].at = "read", Alive(q), Foreground(q)
               PROVE  proc[q].at \in {"wait", "child", "exiting"}
    BY DEF ReaderAlone
  <2>1. Tip(p)
    BY DEF IInv, FrontOK, Tip
  <2>2. ~Tip(q)
    BY <2>1 DEF IInv, TipOK
  <2> QED BY <2>2 DEF Tip
<1> QED BY <1>1, Invariant, PTL

\* init_term() and reset_term() keep the terminal in order: it is raw while the
\* shell at the end of the chain has it so, and that shell, whichever it is,
\* holds the mode from outside.
THEOREM TerminalCorrect == Spec => []TerminalOwned
<1>1. IInv => TerminalOwned
  <2> SUFFICES ASSUME IInv, ~disturbed
               PROVE  LET owners == {p \in Pids : proc[p].saved # "none"}
                      IN  /\ \A p \in owners : proc[p].saved = "cooked"
                          /\ Cardinality(owners) = IF tty = "raw" THEN 1 ELSE 0
    BY DEF TerminalOwned
  <2> DEFINE owners == {p \in Pids : proc[p].saved # "none"}
  <2>1. /\ \A p \in Pids : proc[p].saved \in {"none", "cooked"}
        /\ tty = "raw" <=> \E p \in Pids : proc[p].saved # "none"
    BY DEF IInv, TerminalOK
  <2>2. ASSUME NEW p \in owners, NEW q \in owners
        PROVE  p = q
    BY OwnersAreTips DEF IInv, TipOK
  <2>3. CASE tty = "raw"
    <3>1. PICK p \in Pids : p \in owners
      BY <2>1, <2>3
    <3>2. owners = {p}
      BY <2>2, <3>1
    <3>3. Cardinality(owners) = 1
      BY <3>2, FS_Singleton
    <3> QED BY <2>1, <2>3, <3>3
  <2>4. CASE tty # "raw"
    <3>1. owners = {}
      BY <2>1, <2>4
    <3>2. Cardinality(owners) = 0
      BY <3>1, FS_EmptySet
    <3> QED BY <2>1, <2>4, <3>2
  <2> QED BY <2>3, <2>4
<1> QED BY <1>1, Invariant, PTL

=============================================================================
