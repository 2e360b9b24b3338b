------------------------- MODULE StringThreadsProofs ------------------------
(***************************************************************************)
(* Proofs about the string programs of lab5, for strings of any length and *)
(* any alphabet: seen at the unlocks every step is one reversal or one     *)
(* change of case, the count is that of one string, and what is printed is *)
(* whole.  They speak of all behaviours in which the lock is not           *)
(* initialised while a thread holds it.                                    *)
(***************************************************************************)
EXTENDS StringThreads, SequenceTheorems, FiniteSetTheorems, TLAPS

Alphabet == Letters \cup Range(Source["rwlock"])

Writers == {"reverse", "change"}

(***************************************************************************)
(* The inductive invariant.                                                *)
(***************************************************************************)

Places == {"none", "create", "init", "join", "show", "lock", "loop", "unlock",
           "idle", "ended"}

TypeOK ==
  /\ program \in Programs
  /\ toy \in Seq(Alphabet) /\ settled \in Seq(Alphabet) /\ shown \in Seq(Alphabet)
  /\ Len(toy) > 0 /\ Len(settled) = Len(toy) /\ Len(shown) = Len(toy)
  /\ at \in [Threads -> Places]
  /\ i \in [Threads -> Nat] /\ j \in [Threads -> Nat] /\ cnt \in Nat
  /\ writer \in Threads \cup {"none"} /\ readers \subseteq {"count"}
  /\ broken \in BOOLEAN /\ ended \in BOOLEAN

\* Where the threads can be at the same time: main creates them before they are
\* anywhere, and in multithread.c it prints after both have ended.
PlacesOK ==
  /\ program = "rounds" => at["main"] \in {"create", "join", "show"}
  /\ program = "mutex" => at["main"] \in {"create", "init", "lock", "show", "unlock"}
  /\ program = "rwlock" => at["main"] \in {"create", "init", "idle"}
  /\ \A t \in Threads \ {"main"} :
       /\ at[t] \in {"none", "lock", "loop", "unlock", "ended"}
       /\ t \notin Started => at[t] = "none"
       /\ at[t] = "ended" => program = "rounds"
       /\ at["main"] = "create" => at[t] \in {"none", "ended"}
       /\ at["main"] = "show" /\ program = "rounds" /\ t \in Started => at[t] = "ended"

\* t is between its lock and its unlock.
Holds(t) ==
  at[t] \in {"loop", "unlock"} \/ (at[t] = "show" /\ program = "mutex")

\* The lock is with the thread that is inside, and readers keep writers out.
LockOK ==
  /\ \A t \in Threads \ {"count"} : writer = t <=> Holds(t)
  /\ readers = IF Holds("count") THEN {"count"} ELSE {}
  /\ writer # "count"
  /\ writer # "none" => readers = {}

Odd(n) == n \in {1, 3, 5}

\* What t is after m passes over s, and up to index n in the next: each end of
\* the string has changed places once more than the middle ...
HalfReversed(s, t, n, m) ==
  /\ n \in 0..Len(s) /\ (n = 0 \/ n < Len(s) \div 2)
  /\ m \in 0..Rounds /\ (m = Rounds => n = 0)
  /\ \A k \in 1..Len(s) :
       t[k] = IF Odd(IF k <= n \/ k > Len(s) - n THEN m + 1 ELSE m)
              THEN s[Len(s) - k + 1] ELSE s[k]

\* ... and the beginning its case once more than the rest.
HalfTurned(s, t, n, m) ==
  /\ n \in 0..Len(s) - 1
  /\ m \in 0..Rounds /\ (m = Rounds => n = 0)
  /\ \A k \in 1..Len(s) :
       t[k] = IF Odd(IF k <= n THEN m + 1 ELSE m) THEN Atomic!OtherCase(s[k]) ELSE s[k]

\* The string, while one writer is inside and otherwise.
TextOK ==
  /\ (\A t \in Writers : ~Holds(t)) => toy = settled
  /\ at["reverse"] = "loop" => HalfReversed(settled, toy, i["reverse"], j["reverse"])
  /\ at["reverse"] = "unlock" => toy = Reverse(settled)
  /\ at["change"] = "loop" => HalfTurned(settled, toy, i["change"], j["change"])
  /\ at["change"] = "unlock" => toy = Atomic!Turned(settled)

Capitals(n) == {k \in 1..n : settled[k] \in Range(Upper)}

\* The count of the capitals passed so far.
CountOK ==
  /\ at["count"] = "loop" => i["count"] < len /\ cnt = Cardinality(Capitals(i["count"]))
  /\ at["count"] = "unlock" => cnt = Cardinality(Capitals(len))

\* s after a thread that is at r has reversed it, and one at c has turned it.
GoneOver(s, r, c) ==
  LET turned == IF c = "ended" THEN Atomic!Turned(s) ELSE s
  IN  IF r = "ended" THEN Reverse(turned) ELSE turned

\* In a round of multithread.c the string is the one last printed, as the
\* threads that have ended leave it.
RoundOK ==
  program = "rounds" =>
    /\ at["main"] = "create" => settled = shown
    /\ at["main"] # "create" => settled = GoneOver(shown, at["reverse"], at["change"])

IInv ==
  /\ TypeOK /\ PlacesOK /\ RoundOK
  /\ ~broken => LockOK /\ TextOK /\ CountOK

(***************************************************************************)
(* Strings.                                                                *)
(***************************************************************************)

LEMMA Half ==
  ASSUME NEW n \in Nat
  PROVE  n \div 2 \in Nat /\ 2 * (n \div 2) <= n /\ n < 2 * (n \div 2) + 2
OBVIOUS

\* A function over 1..n is a string of length n.
LEMMA StringMade ==
  ASSUME NEW S, NEW n \in Nat, NEW f \in [1..n -> S]
  PROVE  f \in Seq(S) /\ Len(f) = n
<1>1. f \in Seq(S)
  BY SeqDef
<1>2. Len(f) \in Nat /\ 1..Len(f) = 1..n
  BY <1>1, LenProperties
<1> QED BY <1>1, <1>2

LEMMA OtherCaseOK ==
  ASSUME NEW ch \in Alphabet
  PROVE  /\ Atomic!OtherCase(ch) \in Alphabet
         /\ Atomic!OtherCase(Atomic!OtherCase(ch)) = ch
<1>1. CASE ch \in DOMAIN Upper
  <2>1. Atomic!OtherCase(ch) = Upper[ch]
    BY <1>1 DEF Atomic!OtherCase
  <2>2. Upper[ch] \in Range(Upper) /\ Upper[ch] \notin DOMAIN Upper
    BY <1>1, UpperAssumption DEF Range
  <2>3. (CHOOSE l \in DOMAIN Upper : Upper[l] = Upper[ch]) = ch
    BY <1>1, UpperAssumption
  <2>4. Atomic!OtherCase(Upper[ch]) = ch
    BY <2>2, <2>3 DEF Atomic!OtherCase, Atomic!Range, Range
  <2> QED BY <2>1, <2>2, <2>4 DEF Alphabet, Letters
<1>2. CASE ch \notin DOMAIN Upper /\ ch \in Range(Upper)
  <2>1. PICK l \in DOMAIN Upper : Upper[l] = ch
    BY <1>2 DEF Range
  <2>2. (CHOOSE m \in DOMAIN Upper : Upper[m] = ch) = l
    BY <2>1, UpperAssumption
  <2>3. Atomic!OtherCase(ch) = l
    BY <1>2, <2>2 DEF Atomic!OtherCase, Atomic!Range, Range
  <2>4. Atomic!OtherCase(l) = ch
    BY <2>1 DEF Atomic!OtherCase
  <2> QED BY <2>1, <2>3, <2>4 DEF Alphabet, Letters
<1>3. CASE ch \notin DOMAIN Upper /\ ch \notin Range(Upper)
  BY <1>3 DEF Atomic!OtherCase, Atomic!Range, Range
<1> QED BY <1>1, <1>2, <1>3

LEMMA ReverseOK ==
  ASSUME NEW s \in Seq(Alphabet)
  PROVE  /\ Reverse(s) \in Seq(Alphabet) /\ Len(Reverse(s)) = Len(s)
         /\ \A k \in 1..Len(s) : Reverse(s)[k] = s[Len(s) - k + 1]
<1>1. Len(s) \in Nat /\ s \in [1..Len(s) -> Alphabet]
  BY LenProperties
<1>2. Reverse(s) \in [1..Len(s) -> Alphabet]
  BY <1>1 DEF Reverse
<1> QED BY <1>1, <1>2, StringMade DEF Reverse

LEMMA TurnedOK ==
  ASSUME NEW s \in Seq(Alphabet)
  PROVE  /\ Atomic!Turned(s) \in Seq(Alphabet) /\ Len(Atomic!Turned(s)) = Len(s)
         /\ \A k \in 1..Len(s) : Atomic!Turned(s)[k] = Atomic!OtherCase(s[k])
<1>1. Len(s) \in Nat /\ s \in [1..Len(s) -> Alphabet] /\ DOMAIN s = 1..Len(s)
  BY LenProperties
<1>2. Atomic!Turned(s) \in [1..Len(s) -> Alphabet]
  BY <1>1, OtherCaseOK DEF Atomic!Turned
<1> QED BY <1>1, <1>2, StringMade DEF Atomic!Turned

\* It does not matter which of the two threads of a round comes first.
LEMMA TurnedReverse ==
  ASSUME NEW s \in Seq(Alphabet)
  PROVE  Atomic!Turned(Reverse(s)) = Reverse(Atomic!Turned(s))
<1> DEFINE t == Atomic!Turned(Reverse(s))
           u == Reverse(Atomic!Turned(s))
<1>1. Len(s) \in Nat
  BY LenProperties
<1>2. t \in Seq(Alphabet) /\ Len(t) = Len(s)
  BY ReverseOK, TurnedOK
<1>3. u \in Seq(Alphabet) /\ Len(u) = Len(s)
  BY ReverseOK, TurnedOK
<1>4. ASSUME NEW k \in 1..Len(s)
      PROVE  t[k] = u[k]
  <2>1. Len(s) - k + 1 \in 1..Len(s)
    BY <1>1
  <2>2. t[k] = Atomic!OtherCase(s[Len(s) - k + 1])
    BY ReverseOK, TurnedOK
  <2>3. u[k] = Atomic!OtherCase(s[Len(s) - k + 1])
    BY <2>1, ReverseOK, TurnedOK
  <2> QED BY <2>2, <2>3
<1> HIDE DEF t, u
<1>5. t = u
  BY <1>2, <1>3, <1>4, SeqEqual
<1> QED BY <1>5 DEF t, u

(***************************************************************************)
(* The loops.                                                              *)
(***************************************************************************)

Exchanged(t, p, q) == [t EXCEPT ![p] = t[q], ![q] = t[p]]

TurnedAt(t, p) == [t EXCEPT ![p] = Atomic!OtherCase(t[p])]

LEMMA SwapOK ==
  ASSUME NEW s \in Seq(Alphabet), NEW t \in Seq(Alphabet), Len(t) = Len(s), Len(s) > 0,
         NEW n, NEW m, HalfReversed(s, t, n, m), m # Rounds,
         NEW u, u = Exchanged(t, n + 1, Len(t) - n)
  PROVE  /\ u \in Seq(Alphabet) /\ Len(u) = Len(s)
         /\ n + 1 < Len(s) \div 2 => HalfReversed(s, u, n + 1, m)
         /\ ~ (n + 1 < Len(s) \div 2) => HalfReversed(s, u, 0, m + 1)
<1> DEFINE l == Len(s)
           h == l \div 2
           p == n + 1
           q == l - n
           Passes(k, n1) == IF k <= n1 \/ k > l - n1 THEN m + 1 ELSE m
<1>1. l \in Nat /\ l > 0 /\ t \in [1..l -> Alphabet]
  BY LenProperties
<1>2. h \in Nat /\ 2 * h <= l /\ l < 2 * h + 2
  BY <1>1, Half
<1>3. n \in Nat /\ (n = 0 \/ n < h) /\ m \in 0..4
  BY DEF HalfReversed, Rounds
<1>4. \A k \in 1..l : t[k] = IF Odd(Passes(k, n)) THEN s[l - k + 1] ELSE s[k]
  BY DEF HalfReversed
<1>5. u = [t EXCEPT ![p] = t[q], ![q] = t[p]]
  BY DEF Exchanged
<1>6. /\ p = n + 1 /\ q = l - n
      /\ \A k : Passes(k, p) = IF k <= p \/ k > l - p THEN m + 1 ELSE m
      /\ \A k : Passes(k, n) = IF k <= n \/ k > l - n THEN m + 1 ELSE m
  OBVIOUS
<1>7. /\ HalfReversed(s, u, p, m) <=>
           /\ p \in 0..l /\ (p = 0 \/ p < h) /\ m \in 0..5 /\ (m = 5 => p = 0)
           /\ \A k \in 1..l : u[k] = IF Odd(Passes(k, p)) THEN s[l - k + 1] ELSE s[k]
      /\ HalfReversed(s, u, 0, m + 1) <=>
           /\ 0 \in 0..l /\ m + 1 \in 0..5
           /\ \A k \in 1..l :
                u[k] = IF Odd(IF k <= 0 \/ k > l - 0 THEN m + 1 + 1 ELSE m + 1)
                       THEN s[l - k + 1] ELSE s[k]
  BY DEF HalfReversed, Rounds
<1> HIDE DEF l, h, p, q, Passes
<1>8. p \in 1..l /\ q \in 1..l /\ p <= q
  BY <1>1, <1>2, <1>3, <1>6
<1>9. u \in [1..l -> Alphabet]
  BY <1>1, <1>5, <1>8
<1>10. \A k \in 1..l : u[k] = IF k = q THEN t[p] ELSE IF k = p THEN t[q] ELSE t[k]
  BY <1>1, <1>5, <1>8
<1>11. Odd(m + 1) <=> ~Odd(m)
  BY <1>3 DEF Odd
<1>12. l - p + 1 = q /\ l - q + 1 = p
  BY <1>1, <1>3, <1>6
<1>13. t[p] = (IF Odd(m) THEN s[q] ELSE s[p]) /\ t[q] = (IF Odd(m) THEN s[p] ELSE s[q])
  <2>1. Passes(p, n) = m /\ Passes(q, n) = m
    BY <1>1, <1>2, <1>3, <1>6
  <2> QED BY <1>4, <1>8, <1>12, <2>1
<1>14. ASSUME NEW k \in 1..l
       PROVE  u[k] = IF Odd(Passes(k, p)) THEN s[l - k + 1] ELSE s[k]
  <2>1. CASE k = p \/ k = q
    <3>1. Passes(k, p) = m + 1
      BY <1>1, <1>3, <1>6, <2>1
    <3> QED BY <1>10, <1>11, <1>12, <1>13, <2>1, <3>1
  <2>2. CASE k # p /\ k # q
    <3>1. Passes(k, p) = Passes(k, n)
      BY <1>1, <1>3, <1>6, <2>2
    <3> QED BY <1>4, <1>10, <2>2, <3>1
  <2> QED BY <2>1, <2>2
<1>15. u \in Seq(Alphabet) /\ Len(u) = l
  BY <1>1, <1>9, StringMade
<1>16. ASSUME p < h
       PROVE  HalfReversed(s, u, p, m)
  BY <1>1, <1>3, <1>7, <1>8, <1>14, <1>16
<1>17. ASSUME ~ (p < h)
       PROVE  HalfReversed(s, u, 0, m + 1)
  <2>1. ASSUME NEW k \in 1..l
        PROVE  u[k] = IF Odd(m + 1) THEN s[l - k + 1] ELSE s[k]
    <3>1. CASE Passes(k, p) = m + 1
      BY <1>14, <3>1
    <3>2. CASE Passes(k, p) # m + 1
      <4>1. l - k + 1 = k
        BY <1>1, <1>2, <1>3, <1>6, <1>17, <3>2
      <4> QED BY <1>6, <1>14, <3>2, <4>1
    <3> QED BY <3>1, <3>2
  <2>2. \A k \in 1..l : ~ (k <= 0 \/ k > l - 0)
    BY <1>1
  <2> QED BY <1>1, <1>3, <1>7, <2>1, <2>2
<1> QED BY <1>15, <1>16, <1>17 DEF l, h, p

LEMMA ChangeOK ==
  ASSUME NEW s \in Seq(Alphabet), NEW t \in Seq(Alphabet), Len(t) = Len(s), Len(s) > 0,
         NEW n, NEW m, HalfTurned(s, t, n, m), m # Rounds,
         NEW u, u = TurnedAt(t, n + 1)
  PROVE  /\ u \in Seq(Alphabet) /\ Len(u) = Len(s)
         /\ n + 1 < Len(s) => HalfTurned(s, u, n + 1, m)
         /\ ~ (n + 1 < Len(s)) => HalfTurned(s, u, 0, m + 1)
<1> DEFINE l == Len(s)
           p == n + 1
<1>1. l \in Nat /\ l > 0 /\ t \in [1..l -> Alphabet] /\ s \in [1..l -> Alphabet]
  BY LenProperties
<1>2. n \in Nat /\ n < l /\ m \in 0..4 /\ p \in 1..l
  BY <1>1 DEF HalfTurned, Rounds
<1>3. u \in [1..l -> Alphabet]
  BY <1>1, <1>2, OtherCaseOK DEF TurnedAt
<1>4. \A k \in 1..l : u[k] = IF k = p THEN Atomic!OtherCase(t[p]) ELSE t[k]
  BY <1>1, <1>2 DEF TurnedAt
<1>5. \A k \in 1..l : t[k] = IF Odd(IF k <= n THEN m + 1 ELSE m)
                              THEN Atomic!OtherCase(s[k]) ELSE s[k]
  BY DEF HalfTurned
<1>6. Odd(m + 1) <=> ~Odd(m)
  BY <1>2 DEF Odd
<1>7. Atomic!OtherCase(t[p]) = IF Odd(m) THEN s[p] ELSE Atomic!OtherCase(s[p])
  <2>1. t[p] = IF Odd(m) THEN Atomic!OtherCase(s[p]) ELSE s[p]
    BY <1>2, <1>5
  <2>2. s[p] \in Alphabet
    BY <1>1, <1>2
  <2> QED BY <2>1, <2>2, OtherCaseOK
<1>8. ASSUME NEW k \in 1..l
      PROVE  u[k] = IF Odd(IF k <= p THEN m + 1 ELSE m)
                    THEN Atomic!OtherCase(s[k]) ELSE s[k]
  BY <1>2, <1>4, <1>5, <1>6, <1>7
<1>9. u \in Seq(Alphabet) /\ Len(u) = l
  BY <1>1, <1>3, StringMade
<1>10. ASSUME p < l
       PROVE  HalfTurned(s, u, p, m)
  BY <1>1, <1>2, <1>8, <1>10 DEF HalfTurned, Rounds
<1>11. ASSUME ~ (p < l)
       PROVE  HalfTurned(s, u, 0, m + 1)
  <2>1. \A k \in 1..l : k <= p /\ ~ (k <= 0)
    BY <1>2, <1>11
  <2> QED BY <1>1, <1>2, <1>8, <2>1 DEF HalfTurned, Rounds
<1> QED BY <1>9, <1>10, <1>11

\* Five passes come to one.
LEMMA FiveReversed ==
  ASSUME NEW s \in Seq(Alphabet), NEW t \in Seq(Alphabet), Len(t) = Len(s),
         NEW n, HalfReversed(s, t, n, Rounds)
  PROVE  t = Reverse(s)
<1>1. Len(s) \in Nat
  BY LenProperties
<1>2. \A k \in 1..Len(s) : t[k] = s[Len(s) - k + 1]
  BY <1>1 DEF HalfReversed, Rounds, Odd
<1> QED BY <1>2, ReverseOK, SeqEqual

LEMMA FiveTurned ==
  ASSUME NEW s \in Seq(Alphabet), NEW t \in Seq(Alphabet), Len(t) = Len(s),
         NEW n, HalfTurned(s, t, n, Rounds)
  PROVE  t = Atomic!Turned(s)
<1>1. Len(s) \in Nat
  BY LenProperties
<1>2. \A k \in 1..Len(s) : t[k] = Atomic!OtherCase(s[k])
  BY <1>1 DEF HalfTurned, Rounds, Odd
<1> QED BY <1>2, TurnedOK, SeqEqual

\* The loops begin with the string as it is.
LEMMA LoopsBegin ==
  ASSUME NEW s \in Seq(Alphabet), Len(s) > 0
  PROVE  HalfReversed(s, s, 0, 0) /\ HalfTurned(s, s, 0, 0)
<1>1. Len(s) \in Nat
  BY LenProperties
<1>2. \A k \in 1..Len(s) : ~ (k <= 0 \/ k > Len(s) - 0)
  BY <1>1
<1> QED BY <1>1, <1>2 DEF HalfReversed, HalfTurned, Rounds, Odd

(***************************************************************************)
(* The steps.                                                              *)
(***************************************************************************)

\* What each step is, thread by thread.
LEMMA StepCases ==
  ASSUME [Next]_vars
  PROVE  \/ UNCHANGED vars \/ End \/ Create \/ InitSync \/ Join \/ Show
         \/ \E t \in Threads : Lock(t) \/ Unlock(t) \/ LoopEnds(t)
         \/ RLock \/ Swap \/ ChangeCase \/ Count
BY DEF Next, MainStep, ThreadStep, Threads

\* A writer alone is inside, or readers are.
LEMMA Alone ==
  ASSUME LockOK, NEW t \in Writers, Holds(t)
  PROVE  writer = t /\ ~Holds("count") /\ \A u \in Writers \ {t} : ~Holds(u)
BY DEF LockOK, Writers, Threads

LEMMA PlacesStep == TypeOK /\ PlacesOK /\ [Next]_vars => PlacesOK'
<1> SUFFICES ASSUME TypeOK, PlacesOK, [Next]_vars
             PROVE  PlacesOK'
  OBVIOUS
<1> USE DEF TypeOK, PlacesOK, Programs, Threads, Started
<1>1. CASE UNCHANGED vars \/ End
  BY <1>1 DEF vars, End
<1>2. CASE Create
  BY <1>2 DEF Create
<1>3. CASE InitSync
  BY <1>3 DEF InitSync, Goes
<1>4. CASE Join
  BY <1>4 DEF Join, Goes
<1>5. CASE Show
  BY <1>5 DEF Show, Goes
<1>6. ASSUME NEW t \in Threads, Lock(t)
      PROVE  PlacesOK'
  BY <1>6 DEF Lock, Goes
<1>7. ASSUME NEW t \in Threads, Unlock(t)
      PROVE  PlacesOK'
  BY <1>7 DEF Unlock, Goes
<1>8. ASSUME NEW t \in Threads, LoopEnds(t)
      PROVE  PlacesOK'
  BY <1>8 DEF LoopEnds, Goes
<1>9. CASE RLock
  BY <1>9 DEF RLock, Goes
<1>10. CASE Swap \/ ChangeCase \/ Count
  BY <1>10 DEF Swap, ChangeCase, Count, Goes
<1> QED BY <1>1, <1>2, <1>3, <1>4, <1>5, <1>6, <1>7, <1>8, <1>9, <1>10, StepCases

LEMMA LockStep ==
  TypeOK /\ PlacesOK /\ (~broken => LockOK) /\ [Next]_vars => (~broken' => LockOK')
<1> SUFFICES ASSUME TypeOK, PlacesOK, ~broken => LockOK, [Next]_vars, ~broken'
             PROVE  LockOK'
  OBVIOUS
<1> USE DEF TypeOK, LockOK, Holds, Threads
<1>1. CASE UNCHANGED vars \/ End
  BY <1>1 DEF vars, End, loop, lock
<1>2. CASE Create
  BY <1>2 DEF Create, PlacesOK, Started, lock
<1>3. CASE InitSync
  BY <1>3 DEF InitSync, Goes, Held, PlacesOK
<1>4. CASE Join
  BY <1>4 DEF Join, Goes, PlacesOK, lock, Programs
<1>5. CASE Show
  BY <1>5 DEF Show, Goes, PlacesOK, lock, Programs
<1>6. ASSUME NEW t \in Threads, Lock(t)
      PROVE  LockOK'
  BY <1>6 DEF Lock, Goes, Held, PlacesOK, Programs
<1>7. ASSUME NEW t \in Threads, Unlock(t)
      PROVE  LockOK'
  BY <1>7 DEF Unlock, Goes, PlacesOK, Programs
<1>8. ASSUME NEW t \in Threads, LoopEnds(t)
      PROVE  LockOK'
  BY <1>8 DEF LoopEnds, Goes, lock
<1>9. CASE RLock
  BY <1>9 DEF RLock, Goes
<1>10. CASE Swap \/ ChangeCase
  BY <1>10 DEF Swap, ChangeCase, Goes, lock
<1>11. CASE Count
  BY <1>11 DEF Count, Goes, lock
<1> QED BY <1>1, <1>2, <1>3, <1>4, <1>5, <1>6, <1>7, <1>8, <1>9, <1>10, <1>11, StepCases

\* An index of the reversal, and one of the change of case.
LEMMA SwapStep ==
  ASSUME TypeOK, LockOK, TextOK, Swap
  PROVE  toy' \in Seq(Alphabet) /\ Len(toy') = Len(toy) /\ TextOK'
<1> DEFINE n == i["reverse"]
           m == j["reverse"]
<1>1. /\ at["reverse"] = "loop" /\ m # Rounds /\ at' = at /\ program' = program
      /\ settled' = settled /\ toy' = Exchanged(toy, n + 1, Len(toy) - n)
  BY DEF Swap, Goes, Finished, TypeOK, Threads, Swapped, Exchanged, len
<1>2. HalfReversed(settled, toy, n, m)
  BY <1>1 DEF TextOK
<1>3. /\ toy' \in Seq(Alphabet) /\ Len(toy') = Len(settled)
      /\ n + 1 < Len(settled) \div 2 => HalfReversed(settled, toy', n + 1, m)
      /\ ~ (n + 1 < Len(settled) \div 2) => HalfReversed(settled, toy', 0, m + 1)
  BY <1>1, <1>2, SwapOK DEF TypeOK
<1>4. IF n + 1 < Len(settled) \div 2 THEN i'["reverse"] = n + 1 /\ j'["reverse"] = m
                                     ELSE i'["reverse"] = 0 /\ j'["reverse"] = m + 1
  BY DEF Swap, Advances, TypeOK, Threads, len
<1>5. HalfReversed(settled, toy', i'["reverse"], j'["reverse"])
  BY <1>3, <1>4
<1>6. HalfReversed(settled, toy, i["reverse"], j["reverse"])'
  BY <1>1, <1>5 DEF HalfReversed
<1>7. Holds("reverse") /\ at'["reverse"] = "loop" /\ at'["change"] \notin {"loop", "unlock"}
  BY <1>1, Alone DEF Holds, Writers
<1>8. Holds("reverse")' /\ "reverse" \in Writers
  BY <1>7 DEF Holds, Writers
<1> QED BY <1>3, <1>6, <1>7, <1>8 DEF TextOK, TypeOK

LEMMA ChangeStep ==
  ASSUME TypeOK, LockOK, TextOK, ChangeCase
  PROVE  toy' \in Seq(Alphabet) /\ Len(toy') = Len(toy) /\ TextOK'
<1> DEFINE n == i["change"]
           m == j["change"]
<1>1. /\ at["change"] = "loop" /\ m # Rounds /\ at' = at /\ program' = program
      /\ settled' = settled
  BY DEF ChangeCase, Goes, Finished, TypeOK
<1>2. HalfTurned(settled, toy, n, m)
  BY <1>1 DEF TextOK
<1>3. toy' = TurnedAt(toy, n + 1)
  BY DEF ChangeCase, TurnedAt
<1>4. /\ toy' \in Seq(Alphabet) /\ Len(toy') = Len(settled)
      /\ n + 1 < Len(settled) => HalfTurned(settled, toy', n + 1, m)
      /\ ~ (n + 1 < Len(settled)) => HalfTurned(settled, toy', 0, m + 1)
  BY <1>1, <1>2, <1>3, ChangeOK DEF TypeOK
<1>5. IF n + 1 < Len(settled) THEN i'["change"] = n + 1 /\ j'["change"] = m
                              ELSE i'["change"] = 0 /\ j'["change"] = m + 1
  BY DEF ChangeCase, Advances, TypeOK, Threads, len
<1>6. HalfTurned(settled, toy', i'["change"], j'["change"])
  BY <1>4, <1>5
<1>7. HalfTurned(settled, toy, i["change"], j["change"])'
  BY <1>1, <1>6 DEF HalfTurned, Atomic!OtherCase, Atomic!Range
<1>8. Holds("change") /\ at'["change"] = "loop" /\ at'["reverse"] \notin {"loop", "unlock"}
  BY <1>1, Alone DEF Holds, Writers
<1>9. Holds("change")' /\ "change" \in Writers
  BY <1>8 DEF Holds, Writers
<1> QED BY <1>4, <1>7, <1>8, <1>9 DEF TextOK, TypeOK

\* A writer takes the lock, finishes its passes and gives the lock back.
LEMMA LockText ==
  ASSUME TypeOK, PlacesOK, LockOK, TextOK, NEW t \in Writers, Lock(t)
  PROVE  TextOK'
<1>1. /\ t \in Threads /\ at'[t] = "loop" /\ \A u \in Threads \ {t} : at'[u] = at[u]
      /\ i'[t] = 0 /\ j'[t] = 0 /\ UNCHANGED <<toy, settled, program>>
  BY DEF Lock, Goes, Writers, Threads, TypeOK
<1>2. \A u \in Writers : ~Holds(u)
  BY DEF Lock, Held, LockOK, Writers, Threads
<1>3. toy = settled
  BY <1>2 DEF TextOK
<1>4. HalfReversed(settled, toy, 0, 0) /\ HalfTurned(settled, toy, 0, 0)
  BY <1>3, LoopsBegin DEF TypeOK
<1>5. /\ t = "reverse" => HalfReversed(settled, toy, i["reverse"], j["reverse"])'
      /\ t = "change" => HalfTurned(settled, toy, i["change"], j["change"])'
  <2>1. CASE t = "reverse"
    <3>1. i'["reverse"] = 0 /\ j'["reverse"] = 0
      BY <1>1, <2>1
    <3> QED BY <1>1, <1>4, <2>1, <3>1 DEF HalfReversed
  <2>2. CASE t = "change"
    <3>1. i'["change"] = 0 /\ j'["change"] = 0
      BY <1>1, <2>2
    <3> QED BY <1>1, <1>4, <2>2, <3>1 DEF HalfTurned, Atomic!OtherCase, Atomic!Range
  <2> QED BY <2>1, <2>2
<1>6. \A u \in Writers \ {t} : at'[u] \notin {"loop", "unlock"}
  BY <1>1, <1>2 DEF Holds, Writers, Threads
<1>7. Holds(t)'
  BY <1>1 DEF Holds
<1> QED BY <1>1, <1>5, <1>6, <1>7 DEF TextOK, Writers

LEMMA LoopEndsText ==
  ASSUME TypeOK, LockOK, TextOK, NEW t \in Threads, LoopEnds(t)
  PROVE  TextOK'
<1>1. /\ t \in Writers /\ at[t] = "loop" /\ at'[t] = "unlock" /\ j[t] = Rounds
      /\ \A u \in Threads \ {t} : at'[u] = at[u]
      /\ UNCHANGED <<toy, settled, program>>
  BY DEF LoopEnds, Goes, Finished, Writers, TypeOK
<1>2. \A u \in Writers \ {t} : at'[u] \notin {"loop", "unlock"}
  BY <1>1, Alone DEF Holds, Writers, Threads
<1>3. t = "reverse" => toy = Reverse(settled)
  BY <1>1, FiveReversed DEF TextOK, TypeOK
<1>4. t = "change" => toy = Atomic!Turned(settled)
  BY <1>1, FiveTurned DEF TextOK, TypeOK
<1>5. Holds(t)'
  BY <1>1 DEF Holds
<1>6. /\ t = "reverse" => toy' = Reverse(settled')
      /\ t = "change" => toy' = Atomic!Turned(settled)'
  BY <1>1, <1>3, <1>4 DEF Atomic!Turned, Atomic!OtherCase, Atomic!Range
<1> QED BY <1>1, <1>2, <1>5, <1>6 DEF TextOK, Writers

LEMMA UnlockText ==
  ASSUME TypeOK, PlacesOK, LockOK, TextOK, NEW t \in Writers, Unlock(t)
  PROVE  TextOK'
<1>1. /\ t \in Threads /\ at[t] = "unlock" /\ at'[t] \in {"ended", "lock"}
      /\ \A u \in Threads \ {t} : at'[u] = at[u]
      /\ settled' = toy /\ toy' = toy /\ program' = program
  BY DEF Unlock, Goes, Writers, Threads, TypeOK
<1>2. \A u \in Writers \ {t} : at'[u] \notin {"loop", "unlock"}
  BY <1>1, Alone DEF Holds, Writers, Threads
<1> QED BY <1>1, <1>2 DEF TextOK, Writers

\* What leaves the string and its writers alone leaves TextOK alone.
LEMMA QuietText ==
  ASSUME TypeOK, PlacesOK, TextOK, UNCHANGED <<toy, settled, program>>,
         \A t \in Writers : /\ i'[t] = i[t] /\ j'[t] = j[t]
                            /\ \/ at'[t] = at[t]
                               \/ at[t] \in {"none", "ended"} /\ at'[t] = "lock"
  PROVE  TextOK'
<1>1. \A t \in Writers : Holds(t)' <=> Holds(t)
  BY DEF Holds
<1>2. ASSUME at'["reverse"] = "loop"
      PROVE  HalfReversed(settled, toy, i["reverse"], j["reverse"])'
  <2>1. at["reverse"] = "loop" /\ i'["reverse"] = i["reverse"] /\ j'["reverse"] = j["reverse"]
    BY <1>2 DEF Writers
  <2> QED BY <2>1 DEF TextOK, HalfReversed
<1>3. ASSUME at'["change"] = "loop"
      PROVE  HalfTurned(settled, toy, i["change"], j["change"])'
  <2>1. at["change"] = "loop" /\ i'["change"] = i["change"] /\ j'["change"] = j["change"]
    BY <1>3 DEF Writers
  <2> QED BY <2>1 DEF TextOK, HalfTurned, Atomic!OtherCase, Atomic!Range
<1>4. at'["reverse"] = "unlock" => toy' = Reverse(settled')
  BY DEF TextOK, Writers
<1>5. at'["change"] = "unlock" => toy' = Atomic!Turned(settled)'
  BY DEF TextOK, Writers, Atomic!Turned, Atomic!OtherCase, Atomic!Range
<1>6. (\A t \in Writers : ~Holds(t)') => toy' = settled'
  BY <1>1 DEF TextOK
<1> QED BY <1>2, <1>3, <1>4, <1>5, <1>6 DEF TextOK

LEMMA TextStep == IInv /\ [Next]_vars => (~broken' => TextOK')
<1> SUFFICES ASSUME IInv, [Next]_vars, ~broken'
             PROVE  TextOK'
  OBVIOUS
<1>1. CASE UNCHANGED vars \/ End \/ InitSync
  <2>1. ~broken
    BY <1>1 DEF vars, End, lock, InitSync, Goes
  <2>2. UNCHANGED <<toy, settled, program, i, j>>
    BY <1>1 DEF vars, End, loop, InitSync, Goes
  <2>3. at'["reverse"] = at["reverse"] /\ at'["change"] = at["change"]
    BY <1>1 DEF vars, End, InitSync, Goes, IInv, TypeOK, Threads
  <2> QED BY <2>1, <2>2, <2>3, QuietText DEF IInv, Writers
<1> USE DEF IInv
<1>2. CASE Create
  <2>1. ~broken /\ UNCHANGED <<toy, settled, program, i, j>>
    BY <1>2 DEF Create, loop
  <2>2. \A t \in Writers : at[t] \in {"none", "ended"} /\ at'[t] = "lock"
    BY <1>2 DEF Create, PlacesOK, Started, Writers, Threads, TypeOK
  <2> QED BY <2>1, <2>2, QuietText
<1>3. CASE Join \/ Show \/ RLock \/ Count
  <2>1. ~broken /\ UNCHANGED <<toy, settled, program>>
    BY <1>3 DEF Join, Show, RLock, Count, Goes
  <2>2. \A t \in Writers : i'[t] = i[t] /\ j'[t] = j[t] /\ at'[t] = at[t]
    BY <1>3 DEF Join, Show, RLock, Count, Goes, loop, TypeOK, Writers, Threads
  <2> QED BY <2>1, <2>2, QuietText
<1>4. ASSUME NEW t \in Threads, Lock(t)
      PROVE  TextOK'
  <2>1. ~broken
    BY <1>4 DEF Lock, Goes
  <2>2. CASE t = "main"
    <3>1. UNCHANGED <<toy, settled, program>>
      BY <1>4 DEF Lock, Goes
    <3>2. \A u \in Writers : i'[u] = i[u] /\ j'[u] = j[u] /\ at'[u] = at[u]
      BY <1>4, <2>2 DEF Lock, Goes, TypeOK, Writers
    <3> QED BY <2>1, <3>1, <3>2, QuietText
  <2>3. CASE t \in Writers
    BY <1>4, <2>1, <2>3, LockText
  <2>4. t # "count"
    BY <1>4 DEF Lock
  <2> QED BY <2>2, <2>3, <2>4 DEF Threads, Writers
<1>5. ASSUME NEW t \in Threads, Unlock(t)
      PROVE  TextOK'
  <2>1. ~broken
    BY <1>5 DEF Unlock, Goes
  <2>2. CASE t \notin Writers
    <3>1. UNCHANGED <<toy, settled, program, i, j>>
      BY <1>5, <2>2 DEF Unlock, Goes, loop, Writers
    <3>2. \A u \in Writers : at'[u] = at[u]
      BY <1>5, <2>2 DEF Unlock, Goes, TypeOK, Writers
    <3> QED BY <2>1, <3>1, <3>2, QuietText
  <2>3. CASE t \in Writers
    BY <1>5, <2>1, <2>3, UnlockText
  <2> QED BY <2>2, <2>3
<1>6. ASSUME NEW t \in Threads, LoopEnds(t)
      PROVE  TextOK'
  BY <1>6, LoopEndsText DEF LoopEnds, Goes
<1>7. CASE Swap
  BY <1>7, SwapStep DEF Swap, Goes
<1>8. CASE ChangeCase
  BY <1>8, ChangeStep DEF ChangeCase, Goes
<1> QED BY <1>1, <1>2, <1>3, <1>4, <1>5, <1>6, <1>7, <1>8, StepCases

LEMMA TypeStep == IInv /\ [Next]_vars => TypeOK'
<1> SUFFICES ASSUME IInv, [Next]_vars
             PROVE  TypeOK'
  OBVIOUS
<1> USE DEF IInv
<1>1. toy' \in Seq(Alphabet) /\ Len(toy') = Len(toy) /\ UNCHANGED program
  <2>1. CASE Swap
    BY <2>1, SwapStep DEF Swap, Goes
  <2>2. CASE ChangeCase
    BY <2>2, ChangeStep DEF ChangeCase, Goes
  <2>3. CASE ~Swap /\ ~ChangeCase
    BY <2>3, StepCases DEF vars, End, Create, InitSync, Join, Show, Lock, Unlock,
                           LoopEnds, RLock, Count, Goes, TypeOK
  <2> QED BY <2>1, <2>2, <2>3
<1>2. settled' \in {settled, toy} /\ shown' \in {shown, toy}
  BY StepCases DEF vars, End, Create, InitSync, Join, Show, Lock, Unlock,
                   LoopEnds, RLock, Count, Swap, ChangeCase, Goes
<1>3. at' \in [Threads -> Places]
  BY StepCases DEF vars, End, Create, InitSync, Join, Show, Lock, Unlock, LoopEnds,
                   RLock, Count, Swap, ChangeCase, Goes, TypeOK, Places
<1>4. i' \in [Threads -> Nat] /\ j' \in [Threads -> Nat] /\ cnt' \in Nat
  <2>1. CASE UNCHANGED loop
    BY <2>1 DEF loop, TypeOK
  <2>2. ASSUME NEW t \in Threads, Lock(t)
        PROVE  i' \in [Threads -> Nat] /\ j' \in [Threads -> Nat] /\ cnt' \in Nat
    BY <2>2 DEF Lock, TypeOK
  <2>3. CASE RLock \/ Count
    BY <2>3 DEF RLock, Count, TypeOK, Threads
  <2>4. ASSUME NEW t \in Threads, NEW n, Advances(t, n), cnt' = cnt
        PROVE  i' \in [Threads -> Nat] /\ j' \in [Threads -> Nat] /\ cnt' \in Nat
    <3>1. /\ i \in [Threads -> Nat] /\ j \in [Threads -> Nat] /\ cnt \in Nat
          /\ i[t] + 1 \in Nat /\ j[t] + 1 \in Nat /\ 0 \in Nat
      BY DEF TypeOK
    <3>2. CASE i[t] + 1 < n
      BY <2>4, <3>1, <3>2, Zenon DEF Advances
    <3>3. CASE ~(i[t] + 1 < n)
      BY <2>4, <3>1, <3>3, Zenon DEF Advances
    <3> QED BY <3>2, <3>3
  <2>5. CASE Swap
    BY <2>4, <2>5 DEF Swap, Threads
  <2>6. CASE ChangeCase
    BY <2>4, <2>6 DEF ChangeCase, Threads
  <2> QED BY <2>1, <2>2, <2>3, <2>5, <2>6, StepCases
          DEF vars, End, Create, InitSync, Join, Show, Unlock, LoopEnds
<1>5. writer' \in Threads \cup {"none"} /\ readers' \subseteq {"count"}
      /\ broken' \in BOOLEAN /\ ended' \in BOOLEAN
  BY StepCases DEF vars, End, Create, InitSync, Join, Show, Lock, Unlock, LoopEnds,
                   RLock, Count, Swap, ChangeCase, Goes, TypeOK, lock, Held, Threads
<1> QED BY <1>1, <1>2, <1>3, <1>4, <1>5 DEF TypeOK

(***************************************************************************)
(* The count.                                                              *)
(***************************************************************************)

LEMMA CapitalsOK ==
  ASSUME NEW n \in Nat
  PROVE  /\ IsFiniteSet(Capitals(n)) /\ Cardinality(Capitals(n)) \in Nat
         /\ Cardinality(Capitals(0)) = 0
         /\ Cardinality(Capitals(n + 1)) =
              Cardinality(Capitals(n))
                + (IF settled[n + 1] \in Range(Upper) THEN 1 ELSE 0)
<1>1. IsFiniteSet(Capitals(n))
  <2>1. IsFiniteSet(1..n)
    BY FS_Interval
  <2> QED BY <2>1, FS_Subset DEF Capitals
<1>2. Cardinality(Capitals(n)) \in Nat
  BY <1>1, FS_CardinalityType
<1>3. Capitals(0) = {}
  BY DEF Capitals
<1>4. Capitals(n + 1) = IF settled[n + 1] \in Range(Upper)
                        THEN Capitals(n) \cup {n + 1} ELSE Capitals(n)
  BY DEF Capitals
<1>5. n + 1 \notin Capitals(n)
  BY DEF Capitals
<1>6. Cardinality(Capitals(n) \cup {n + 1}) = Cardinality(Capitals(n)) + 1
  BY <1>1, <1>5, FS_AddElement
<1>7. Cardinality(Capitals(0)) = 0
  BY <1>3, FS_EmptySet
<1>8. CASE settled[n + 1] \in Range(Upper)
  BY <1>1, <1>2, <1>4, <1>6, <1>7, <1>8
<1>9. CASE settled[n + 1] \notin Range(Upper)
  BY <1>1, <1>2, <1>4, <1>7, <1>9
<1> QED BY <1>8, <1>9

\* While count shares the lock no writer is inside.
LEMMA CountAlone ==
  ASSUME TypeOK, LockOK, TextOK, Holds("count")
  PROVE  toy = settled /\ \A t \in Writers : ~Holds(t)
<1>1. writer = "none"
  BY DEF LockOK
<1>2. \A t \in Writers : ~Holds(t)
  BY <1>1 DEF LockOK, Writers, Threads
<1> QED BY <1>2 DEF TextOK

\* What leaves the string and the counting thread alone leaves CountOK alone.
LEMMA QuietCount ==
  ASSUME CountOK, UNCHANGED <<toy, settled, cnt>>, i'["count"] = i["count"],
         at'["count"] = at["count"] \/ at'["count"] \notin {"loop", "unlock"}
  PROVE  CountOK'
BY DEF CountOK, Capitals, len

LEMMA CountStep == IInv /\ [Next]_vars => (~broken' => CountOK')
<1> SUFFICES ASSUME IInv, [Next]_vars, ~broken'
             PROVE  CountOK'
  OBVIOUS
<1> USE DEF IInv
<1>1. CASE UNCHANGED vars \/ End \/ InitSync \/ Create \/ Join \/ Show
  <2>1. ~broken /\ UNCHANGED <<toy, settled, i, cnt>>
    BY <1>1 DEF vars, End, lock, loop, InitSync, Create, Join, Show, Goes
  <2>2. at'["count"] = at["count"] \/ at'["count"] = "lock"
    BY <1>1 DEF vars, End, InitSync, Create, Join, Show, Goes, TypeOK, Threads
  <2> QED BY <2>1, <2>2, QuietCount
<1>2. ASSUME NEW t \in Threads, Lock(t) \/ LoopEnds(t)
      PROVE  CountOK'
  <2>1. t # "count" /\ ~broken /\ UNCHANGED <<toy, settled, cnt>>
    BY <1>2 DEF Lock, LoopEnds, Goes, loop
  <2>2. i'["count"] = i["count"] /\ at'["count"] = at["count"]
    BY <1>2, <2>1 DEF Lock, LoopEnds, Goes, loop, TypeOK, Threads
  <2> QED BY <2>1, <2>2, QuietCount
<1>3. ASSUME NEW t \in Threads, Unlock(t)
      PROVE  CountOK'
  <2>1. ~broken /\ at[t] = "unlock" /\ UNCHANGED <<toy, i, cnt>>
    BY <1>3 DEF Unlock, Goes, loop
  <2>2. CASE t \in Writers
    <3>1. ~Holds("count") /\ at'["count"] = at["count"]
      BY <1>3, <2>1, <2>2, Alone DEF Unlock, Goes, Holds, TypeOK, Writers, Threads
    <3> QED BY <3>1 DEF CountOK, Holds
  <2>3. CASE t \notin Writers
    <3>1. settled' = settled
      BY <1>3, <2>3 DEF Unlock, Writers
    <3>2. at'["count"] = at["count"] \/ at'["count"] \notin {"loop", "unlock"}
      BY <1>3 DEF Unlock, Goes, TypeOK, Threads
    <3> QED BY <2>1, <3>1, <3>2, QuietCount
  <2> QED BY <2>2, <2>3
<1>4. CASE Swap \/ ChangeCase
  <2>1. ~broken /\ \E t \in Writers : Holds(t)
    BY <1>4 DEF Swap, ChangeCase, Goes, Holds, Writers
  <2>2. ~Holds("count") /\ at'["count"] = at["count"]
    BY <1>4, <2>1, Alone DEF Swap, ChangeCase, Goes, TypeOK, Threads
  <2> QED BY <2>2 DEF CountOK, Holds
<1>5. CASE RLock
  <2>1. /\ at'["count"] = "loop" /\ i'["count"] = 0 /\ cnt' = 0
        /\ toy' = toy /\ settled' = settled
    BY <1>5 DEF RLock, Goes, TypeOK, Threads
  <2>2. Cardinality(Capitals(0)) = 0 /\ 0 < len
    BY CapitalsOK, LenProperties DEF TypeOK, len
  <2> QED BY <2>1, <2>2 DEF CountOK, Capitals, len
<1>6. CASE Count
  <2> DEFINE n == i["count"]
  <2>1. /\ at["count"] = "loop" /\ ~broken /\ n \in Nat /\ i'["count"] = n + 1
        /\ at'["count"] = IF n + 1 = len THEN "unlock" ELSE "loop"
        /\ cnt' = cnt + (IF toy[n + 1] \in Range(Upper) THEN 1 ELSE 0)
        /\ toy' = toy /\ settled' = settled
    BY <1>6 DEF Count, Goes, TypeOK, Threads
  <2>2. toy = settled
    BY <2>1, CountAlone DEF Holds
  <2>3. len \in Nat /\ n < len /\ cnt = Cardinality(Capitals(n))
    BY <2>1, LenProperties DEF CountOK, TypeOK, len
  <2>4. cnt' = Cardinality(Capitals(n + 1))
    BY <2>1, <2>2, <2>3, CapitalsOK
  <2>5. Capitals(i["count"])' = Capitals(n + 1) /\ Capitals(len)' = Capitals(len)
        /\ len' = len
    BY <2>1 DEF Capitals, len
  <2> QED BY <2>1, <2>3, <2>4, <2>5 DEF CountOK
<1> QED BY <1>1, <1>2, <1>3, <1>4, <1>5, <1>6, StepCases

(***************************************************************************)
(* The rounds of multithread.c.                                            *)
(***************************************************************************)

LEMMA RoundStep == IInv /\ [Next]_vars => RoundOK'
<1> SUFFICES ASSUME IInv, [Next]_vars
             PROVE  RoundOK'
  OBVIOUS
<1> USE DEF IInv
<1>0. program' = program
  BY StepCases DEF vars, End, Create, InitSync, Join, Show, Lock, Unlock, LoopEnds,
                   RLock, Count, Swap, ChangeCase, Goes
<1> SUFFICES ASSUME program = "rounds"
             PROVE  RoundOK'
  BY <1>0 DEF RoundOK
<1>1. at["main"] \in {"create", "join", "show"}
  BY DEF PlacesOK
<1>2. ASSUME UNCHANGED <<settled, shown>>,
             at'["main"] = "create" <=> at["main"] = "create",
             \A t \in Writers : at'[t] = "ended" <=> at[t] = "ended"
      PROVE  RoundOK'
  BY <1>2 DEF RoundOK, GoneOver, Writers, Atomic!Turned, Atomic!OtherCase, Atomic!Range
<1>3. CASE UNCHANGED vars \/ End \/ Join \/ RLock \/ Swap \/ ChangeCase \/ Count
  BY <1>2, <1>3 DEF vars, End, Join, RLock, Swap, ChangeCase, Count, Goes, TypeOK,
                    Writers, Threads
<1>4. ASSUME NEW t \in Threads, Lock(t) \/ LoopEnds(t)
      PROVE  RoundOK'
  BY <1>1, <1>2, <1>4 DEF Lock, LoopEnds, Goes, TypeOK, Writers, Threads
<1>5. CASE InitSync
  BY <1>1, <1>5 DEF InitSync, Goes
<1>6. CASE Create
  <2>1. settled = shown /\ UNCHANGED <<settled, shown>>
    BY <1>6 DEF Create, RoundOK
  <2>2. at'["main"] = "join" /\ at'["reverse"] = "lock" /\ at'["change"] = "lock"
    BY <1>6 DEF Create, Started, Threads
  <2> QED BY <2>1, <2>2 DEF RoundOK, GoneOver
<1>7. CASE Show
  <2>1. at["main"] = "show" /\ at'["main"] = "create" /\ ~broken
    BY <1>7 DEF Show, Goes, TypeOK, Threads
  <2>2. \A t \in Writers : ~Holds(t)
    BY <2>1 DEF PlacesOK, Started, Holds, Writers, Threads
  <2>3. toy = settled
    BY <2>1, <2>2 DEF TextOK
  <2> QED BY <1>7, <2>1, <2>3 DEF Show, RoundOK
<1>8. ASSUME NEW t \in Threads, Unlock(t)
      PROVE  RoundOK'
  <2>1. ~broken /\ at[t] = "unlock" /\ t \in Writers
    BY <1>1, <1>8 DEF Unlock, Goes, PlacesOK, Started, Writers, Threads
  <2>2. /\ settled' = toy /\ shown' = shown /\ at'[t] = "ended"
        /\ \A u \in Threads \ {t} : at'[u] = at[u]
    BY <1>8, <2>1 DEF Unlock, Goes, TypeOK, Writers
  <2>3. at["main"] # "create" /\ at'["main"] # "create"
    BY <2>1, <2>2 DEF PlacesOK, Writers, Threads
  <2>4. settled = GoneOver(shown, at["reverse"], at["change"])
    BY <2>3 DEF RoundOK
  <2>5. settled' = GoneOver(shown, at'["reverse"], at'["change"])
    <3>1. CASE t = "reverse"
      BY <2>1, <2>2, <2>4, <3>1 DEF TextOK, GoneOver, Threads
    <3>2. CASE t = "change"
      BY <2>1, <2>2, <2>4, <3>2, TurnedReverse DEF TextOK, GoneOver, TypeOK, Threads
    <3> QED BY <2>1, <3>1, <3>2 DEF Writers
  <2> QED BY <2>2, <2>3, <2>5 DEF RoundOK, GoneOver, Atomic!Turned, Atomic!OtherCase,
                                  Atomic!Range
<1> QED BY <1>3, <1>4, <1>5, <1>6, <1>7, <1>8, StepCases

(***************************************************************************)
(* The theorems.                                                           *)
(***************************************************************************)

LEMMA InitOK == Init => IInv
<1> SUFFICES ASSUME Init
             PROVE  IInv
  OBVIOUS
<1>1. program \in Programs /\ toy = Source[program] /\ settled = toy /\ shown = toy
  BY DEF Init
<1>2. toy \in Seq(Alphabet) /\ Len(toy) > 0
  <2>1. CASE program = "rwlock"
    <3>1. toy \in Seq(Range(Source["rwlock"])) /\ toy # <<>>
      BY <1>1, <2>1, SourceAssumption
    <3>2. Range(Source["rwlock"]) \subseteq Alphabet
      BY DEF Alphabet
    <3> QED BY <3>1, <3>2, SeqMonotonic, EmptySeq, LenProperties
  <2>2. CASE program # "rwlock"
    <3>1. toy \in Seq(Letters) /\ toy # <<>>
      BY <1>1, <2>2, SourceAssumption DEF Programs
    <3>2. Letters \subseteq Alphabet
      BY DEF Alphabet
    <3> QED BY <3>1, <3>2, SeqMonotonic, EmptySeq, LenProperties
  <2> QED BY <2>1, <2>2
<1>3. TypeOK
  BY <1>1, <1>2 DEF Init, TypeOK, Places, Threads
<1>4. PlacesOK /\ RoundOK
  BY <1>1 DEF Init, PlacesOK, RoundOK, Threads, Programs
<1>5. LockOK /\ TextOK /\ CountOK
  BY <1>1 DEF Init, LockOK, TextOK, CountOK, Holds, Threads, Writers
<1> QED BY <1>3, <1>4, <1>5 DEF IInv

\* Type correctness, mutual exclusion and the state of the string, for strings
\* of any length: the invariant the other theorems follow from.
THEOREM Invariant == Spec => []IInv
<1>1. Init => IInv
  BY InitOK
<1>2. IInv /\ [Next]_vars => IInv'
  BY TypeStep, PlacesStep, RoundStep, LockStep, TextStep, CountStep DEF IInv
<1> QED BY <1>1, <1>2, PTL DEF Spec

\* The lock excludes: of the threads that rewrite or print the string one is
\* inside, and none while the capitals are counted.
Excluded ==
  ~broken => \A t, u \in Threads : t # u => ~ (Holds(t) /\ Holds(u))

THEOREM MutualExclusion == Spec => []Excluded
<1>1. IInv => Excluded
  BY DEF IInv, LockOK, Excluded, Threads
<1> QED BY <1>1, Invariant, PTL

\* The count multithread7.c prints is the number of capitals of the string as
\* a writer left it, and not of one that is half rewritten.
THEOREM CountCorrect == Spec => []CountOfOne
<1>1. IInv => CountOfOne
  <2> SUFFICES ASSUME IInv, ~broken, at["count"] = "unlock"
               PROVE  cnt = Quantify(DOMAIN settled, LAMBDA k : settled[k] \in Range(Upper))
    BY DEF CountOfOne
  <2>1. cnt = Cardinality(Capitals(len))
    BY DEF IInv, CountOK
  <2>2. DOMAIN settled = 1..len
    BY LenProperties DEF IInv, TypeOK, len
  <2> QED BY <2>1, <2>2 DEF Capitals, Quantify
<1> QED BY <1>1, Invariant, PTL

\* Of the steps only a writer's unlock settles a string, and what it settles is
\* the last one reversed, or with its case changed.
LEMMA Settled ==
  ASSUME IInv, [Next]_vars
  PROVE  settled' = settled \/ settled' = Reverse(settled)
                            \/ settled' = Atomic!Turned(settled)
<1>1. ASSUME NEW t \in Writers, Unlock(t)
      PROVE  settled' = Reverse(settled) \/ settled' = Atomic!Turned(settled)
  <2>1. ~broken /\ at[t] = "unlock" /\ settled' = toy
    BY <1>1 DEF Unlock, Goes, Writers
  <2> QED BY <2>1 DEF IInv, TextOK, Writers
<1>2. ASSUME NEW t \in Threads \ Writers, Unlock(t)
      PROVE  settled' = settled
  BY <1>2 DEF Unlock, Writers
<1> QED BY <1>1, <1>2, StepCases
        DEF vars, End, Create, InitSync, Join, Show, Lock, LoopEnds, RLock, Count,
            Swap, ChangeCase

\* Seen at the unlocks, five passes of a loop over the string are one reversal
\* or one change of case, whatever the other threads do meanwhile.
THEOREM ImplementsAtomicString == Spec => Refinement
<1>1. IInv /\ [Next]_vars => [Atomic!Next]_settled
  BY Settled DEF Atomic!Next, Atomic!Reverse, Reverse
<1> QED BY <1>1, Invariant, PTL DEF Spec, Refinement, Atomic!Spec

\* main prints no half-rewritten string, and in multithread.c one that both
\* threads of the round have gone over, once each.
THEOREM ShownCorrect == Spec => ShownWhole
<1> DEFINE Whole == shown' # shown =>
                      /\ shown' = settled
                      /\ program = "rounds" => shown' = Reverse(Atomic!Turned(shown))
<1>1. ASSUME IInv, [Next]_vars
      PROVE  [Whole]_vars
  <2> SUFFICES ASSUME shown' # shown
               PROVE  Whole
    OBVIOUS
  <2>1. Show
    BY <1>1, StepCases DEF vars, End, Create, InitSync, Join, Lock, Unlock, LoopEnds,
                           RLock, Count, Swap, ChangeCase
  <2>2. at["main"] = "show" /\ ~broken /\ shown' = toy
    BY <2>1 DEF Show, Goes
  <2>3. program \in {"rounds", "mutex"}
    BY <1>1, <2>2 DEF IInv, TypeOK, Programs, PlacesOK
  <2>4. program = "rounds" => at["reverse"] = "ended" /\ at["change"] = "ended"
    BY <1>1, <2>2 DEF IInv, PlacesOK, Started, Threads
  <2>5. \A t \in Writers : ~Holds(t)
    BY <1>1, <2>2, <2>3, <2>4 DEF IInv, LockOK, Holds, Writers, Threads
  <2>6. toy = settled
    BY <1>1, <2>2, <2>5 DEF IInv, TextOK
  <2>7. program = "rounds" => settled = Reverse(Atomic!Turned(shown))
    BY <1>1, <2>2, <2>4 DEF IInv, RoundOK, GoneOver
  <2> QED BY <2>2, <2>6, <2>7
<1> QED BY <1>1, Invariant, PTL DEF Spec, ShownWhole

=============================================================================
