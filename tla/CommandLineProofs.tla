-------------------------- MODULE CommandLineProofs -------------------------
(***************************************************************************)
(* Proofs about the commands of kcsh, for lines of any length and any      *)
(* vector: no word is lost, a line without redirections is parsed as it is *)
(* meant, both ends of every pipe are there, and which lines misuse        *)
(* memory.                                                                 *)
(***************************************************************************)
EXTENDS CommandLine, WellFoundedInduction, TLAPS

Words == Separators \cup {Plain}

\* The line ends where a file name is missing.
EndsOpen == Word(Len(line)) \in {">", "<"}

\* What the rest needs to know of the variables' types.
Shape ==
  /\ line \in Seq(Words) /\ Len(line) <= MaxWords
  /\ length \in Nat /\ length <= MaxWords /\ next \in Nat /\ pipeNext \in BOOLEAN
  /\ DOMAIN commands = 0..MaxWords
  /\ \A k \in 0..MaxWords :
       /\ DOMAIN commands[k] = DOMAIN Blank
       /\ commands[k].in \in BOOLEAN /\ commands[k].out \in BOOLEAN

\* make_cmdv() looks at a word that it has not passed, each command has taken a
\* word, and only the first may begin with a separator.
Parsing ==
  at = "parse" =>
    /\ i \in 1..Len(line) + 1 /\ first \in 1..i /\ length <= first
    /\ i <= Len(line) => length < first
    /\ first > 1 => ~IsSeparator(Word(first))
    /\ pipeNext => i <= Len(line)

\* The vector while it is made and when it is handed over: commands up to the
\* NULL, each with the pipe of the one before it.
Vector ==
  at = "parse" \/ (at = "run" /\ next = 0) =>
    /\ commands[length].is = "null"
    /\ \A k \in 0..length - 1 :
         /\ commands[k].is = "cmd"
         /\ commands[k].in <=> (k > 0 /\ commands[k-1].out)
    /\ at = "parse" => (pipeNext <=> (length > 0 /\ commands[length-1].out))
    /\ at = "run" /\ length > 0 => ~commands[length-1].out

\* The walk of main() meets commands up to the NULL, unless a file name was
\* missing.
Walk ==
  Walks =>
    \/ at = "error" /\ EndsOpen
    \/ /\ next <= length /\ commands[length].is = "null"
       /\ \A k \in next..length - 1 : commands[k].is = "cmd"

\* The first word that no command may have taken.
Passed == IF i <= Len(line) THEN first ELSE Len(line) + 1

\* All that is taken by c stands before what d takes.
Before(c, d) == \A p \in Taken(c), q \in Taken(d) : p < q

\* The commands have the words passed so far, each its own, in their order, and
\* what the next one has of words are the places from first.
Kept ==
  at = "parse" \/ Accepted =>
    /\ at = "parse" /\ i <= Len(line) => \A m \in first..i - 1 : IsPlain(m)
    /\ at = "run" => i = Len(line) + 1
    /\ \A k \in Made : InOrder(commands[k])
    /\ \A k \in Made : Taken(commands[k]) \subseteq 1..Passed - 1
    /\ \A k, m \in Made : k < m => Before(commands[k], commands[m])
    /\ \A j \in 1..Passed - 1 : IsPlain(j) => \E k \in Made : j \in Taken(commands[k])

\* The last of a command's arguments, and the word behind it.
LastOf(c) == c.argv[Len(c.argv)]
After(c)  == Word(LastOf(c) + 1)

\* The run of words from p to e, and nothing else, is what c has taken.
IsRun(c, p, e) ==
  /\ p \in 1..Len(line) /\ e \in p..Len(line)
  /\ c.argv = [a \in 1..e - p + 1 |-> p + a - 1] /\ c.rfile = NoFile /\ c.rifile = NoFile
  /\ ~IsPlain(p - 1) /\ ~IsPlain(e + 1) /\ \A m \in p..e : IsPlain(m)

NoRedirection == \A j \in 1..Len(line) : Word(j) \notin {">", "<"}

\* On a line without redirections a command is a run of words.  It knows of the
\* separator behind it and of the one behind the command it writes into, which
\* begins one place further.
Told ==
  (at = "parse" \/ Accepted) /\ NoRedirection =>
    /\ at = "parse" /\ i <= Len(line) => ~IsPlain(first - 1)
    /\ \A k \in Made :
         /\ IsRun(commands[k], commands[k].argv[1], LastOf(commands[k]))
         /\ commands[k].out <=> After(commands[k]) = "|"
         /\ commands[k].bg \in BOOLEAN
         /\ commands[k].bg <=> \/ After(commands[k]) = "&"
                              \/ /\ commands[k].out /\ k + 1 < length
                                 /\ After(commands[k+1]) = "&"
    /\ \A k \in Made : commands[k].out =>
         IF k + 1 < length THEN commands[k+1].argv[1] = LastOf(commands[k]) + 2
         ELSE at = "parse" /\ first = LastOf(commands[k]) + 2

IInv == Shape /\ Parsing /\ Vector /\ Walk /\ BreaksOnlyBy /\ Kept /\ Told

-----------------------------------------------------------------------------
(* Words and places.                                                       *)

LEMMA LeastExists ==
  ASSUME NEW S, S \subseteq Nat, S # {}
  PROVE  \E n \in S : \A m \in S : n <= m
<1>1. PICK n \in S : \A m \in S : <<m, n>> \notin OpToRel(<, Nat)
  BY WFMin, NatLessThanWellFounded, Zenon
<1>2. \A m \in S : ~ (m < n)
  BY <1>1, Zenon DEF OpToRel
<1>3. \A m \in S : m \in Nat /\ n \in Nat
  OBVIOUS
<1> QED BY <1>2, <1>3

LEMMA WordOK ==
  ASSUME Shape, NEW j \in Int
  PROVE  /\ j \in 1..Len(line) <=> Word(j) # Nul
         /\ IsSeparator(Word(j)) => Word(j) # Nul
         /\ Word(j) # Nul => Word(j) \in Words
<1>1. DOMAIN line = 1..Len(line) /\ \A k \in 1..Len(line) : line[k] \in Words
  BY DEF Shape
<1>2. Nul \notin Words
  BY DEF Nul, Words, Separators, Plain
<1> QED BY <1>1, <1>2 DEF Word, IsSeparator, Words

\* The next word is found: behind the last one there is no separator.
LEMMA NextWordOK ==
  ASSUME Shape, NEW j \in 1..Len(line)
  PROVE  /\ NextWord(j) \in j..Len(line) + 1
         /\ ~IsSeparator(Word(NextWord(j)))
         /\ \A m \in j..NextWord(j) - 1 : IsSeparator(Word(m))
<1> DEFINE S == {k \in j..Len(line) + 1 : ~IsSeparator(Word(k))}
<1>1. Len(line) \in Nat
  BY DEF Shape
<1>2. Len(line) + 1 \in S
  BY <1>1, WordOK
<1>3. S \subseteq Nat
  BY <1>1
<1>4. PICK n \in S : \A m \in S : n <= m
  BY <1>2, <1>3, LeastExists
<1>5. \A m \in j..n - 1 : IsSeparator(Word(m))
  BY <1>1, <1>4
<1>6. \E k \in j..Len(line) + 1 :
        /\ ~IsSeparator(Word(k))
        /\ \A m \in j..k - 1 : IsSeparator(Word(m))
  BY <1>4, <1>5
<1> QED BY <1>6 DEF NextWord

LEMMA ResumeOK ==
  ASSUME Shape, NEW j \in Nat \ {0}
  PROVE  /\ Resume(j) \in 1..Len(line) + 1
         /\ ~IsSeparator(Word(Resume(j)))
         /\ Word(Resume(j)) # Nul => j <= Resume(j)
<1>1. Len(line) \in Nat
  BY DEF Shape
<1>2. CASE Word(j) = Nul
  BY <1>1, <1>2, WordOK DEF Resume
<1>3. CASE Word(j) # Nul
  <2>1. j \in 1..Len(line)
    BY <1>3, WordOK
  <2> QED BY <1>1, <1>3, <2>1, NextWordOK DEF Resume
<1> QED BY <1>2, <1>3

\* A separator at i is the last word of a line that ends with it.
LEMMA LastPlace ==
  ASSUME Shape, NEW j \in Nat, Word(j) # Nul, Word(j + 1) = Nul
  PROVE  j = Len(line)
<1>1. Len(line) \in Nat
  BY DEF Shape
<1> QED BY <1>1, WordOK

-----------------------------------------------------------------------------
(* The command that is made.                                               *)

LEMMA CommandMade ==
  ASSUME Shape
  PROVE  /\ DOMAIN Parsed.cmd = DOMAIN Blank /\ Parsed.cmd.is = "cmd"
         /\ Parsed.cmd.in = pipeNext /\ Parsed.cmd.out = (Separator = "|")
BY DEF Parsed, Blank

LEMMA EndsBehind ==
  ASSUME Shape, i \in Nat
  PROVE  /\ Parsed.ends \in Nat /\ i <= Parsed.ends
         /\ Separator = "|" => Parsed.ends = i
<1>1. RFile(Separator, i) \in {NoFile, i + 1, i + 2}
  BY DEF RFile
<1> DEFINE j == Behind(RFile(Separator, i), i)
           w == WordAt(RFile(Separator, i), i, Separator)
<1>2. j \in Nat /\ i <= j
  BY <1>1 DEF Behind, NoFile
<1>3. RIFile(w, j) \in {NoFile, j + 1}
  BY DEF RIFile
<1>4. Parsed.ends = Behind(RIFile(w, j), j)
  BY DEF Parsed
<1>5. Behind(RIFile(w, j), j) \in Nat /\ j <= Behind(RIFile(w, j), j)
  BY <1>2, <1>3 DEF Behind, NoFile
<1>6. Separator = "|" => j = i /\ w = "|"
  BY DEF RFile, Behind, WordAt, NoFile
<1>7. Separator = "|" => Behind(RIFile(w, j), j) = i
  BY <1>6 DEF RIFile, Behind, NoFile
<1> QED BY <1>2, <1>4, <1>5, <1>7

\* Only a line that ends in ">" or "<" lacks a file name.
LEMMA MissingAtEnd ==
  ASSUME Shape, i \in Nat \ {0}, ~Parsed.ok
  PROVE  EndsOpen
<1> DEFINE out == RFile(Separator, i)
           j   == Behind(out, i)
           w   == WordAt(out, i, Separator)
           in  == RIFile(w, j)
<1>1. Missing(out) \/ Missing(in)
  BY DEF Parsed
<1>2. Separator \in {">", "<"} => Separator = Word(i)
  BY DEF Separator, Nul
<1>3. CASE Missing(out)
  <2>1. Separator = ">" /\ Word(i) = ">"
    BY <1>2, <1>3 DEF RFile, Missing
  <2>2. Word(i) # Nul
    BY <2>1 DEF Nul
  <2>3. CASE Word(i + 1) = ">"
    <3>1. Word(i + 1) # Nul /\ Word(i + 2) = Nul
      BY <1>3, <2>1, <2>3 DEF RFile, Missing, Nul
    <3>2. i + 2 = (i + 1) + 1
      OBVIOUS
    <3>3. i + 1 = Len(line)
      BY <3>1, <3>2, LastPlace
    <3> QED BY <2>3, <3>3 DEF EndsOpen
  <2>4. CASE Word(i + 1) # ">"
    <3>1. Word(i + 1) = Nul
      BY <1>3, <2>1, <2>4 DEF RFile, Missing
    <3>2. i = Len(line)
      BY <2>2, <3>1, LastPlace
    <3> QED BY <2>1, <3>2 DEF EndsOpen
  <2> QED BY <2>3, <2>4
<1>4. CASE Missing(in)
  <2>1. w = "<" /\ Word(j + 1) = Nul
    BY <1>4 DEF RIFile, Missing
  <2>2. out \in {NoFile, i + 1, i + 2}
    BY DEF RFile
  <2>3. Word(j) = "<" /\ j \in Nat
    BY <1>2, <2>1, <2>2 DEF WordAt, Behind, NoFile
  <2>4. j = Len(line)
    BY <2>1, <2>3, LastPlace DEF Nul
  <2> QED BY <2>3, <2>4 DEF EndsOpen
<1> QED BY <1>1, <1>3, <1>4

\* What redirects to and from a file lies between the separator at i and the
\* place where its command ends, the file to write first, and takes every word
\* that is there.
LEMMA FilesBetween ==
  ASSUME Shape, i \in 1..Len(line), IsSeparator(Word(i)), Parsed.ok
  PROVE  LET o == Parsed.cmd.rfile
             f == Parsed.cmd.rifile
             e == Parsed.ends
         IN  /\ e \in i..Len(line) + 1
             /\ o # NoFile => o \in i + 1..e - 1
             /\ f # NoFile => f \in i + 1..e - 1
             /\ o # NoFile /\ f # NoFile => o < f
             /\ \A p \in i..e - 1 : IsPlain(p) => p \in {o, f} \ {NoFile}
             /\ Word(i) \notin {">", "<"} =>
                  o = NoFile /\ f = NoFile /\ e = i /\ (Parsed.cmd.bg <=> Word(i) = "&")
<1> DEFINE o == RFile(Separator, i)
           j == Behind(o, i)
           w == WordAt(o, i, Separator)
           f == RIFile(w, j)
           e == Behind(f, j)
<1>1. Separator = Word(i) /\ Len(line) \in Nat
  BY DEF Separator, Shape
<1>2. /\ Parsed.cmd.rfile = o /\ Parsed.cmd.rifile = f /\ Parsed.ends = e
      /\ Parsed.cmd.bg = (WordAt(f, j, w) = "&")
      /\ ~Missing(o) /\ ~Missing(f)
  BY DEF Parsed, Blank
<1>3. \A p \in Int : Word(p) # Nul => p \in 1..Len(line)
  BY WordOK
<1>4. /\ j \in i..Len(line) + 1
      /\ o # NoFile => o \in i + 1..j - 1 /\ w = Word(j)
      /\ o = NoFile => j = i /\ w = Word(j)
      /\ \A p \in i..j - 1 : IsPlain(p) => p = o
      /\ Word(i) # ">" => o = NoFile
  <2>1. CASE Word(i) # ">"
    BY <1>1, <2>1 DEF RFile, Behind, WordAt, NoFile
  <2>2. CASE Word(i) = ">" /\ Word(i + 1) = ">"
    <3>1. o = i + 2 /\ j = i + 3 /\ w = Word(i + 3)
      BY <1>1, <2>2 DEF RFile, Behind, WordAt, NoFile
    <3>2. i + 2 \in 1..Len(line)
      BY <1>2, <1>3, <3>1 DEF Missing, NoFile
    <3>3. ~IsPlain(i) /\ ~IsPlain(i + 1)
      BY <2>2 DEF IsPlain, Plain
    <3>4. \A p \in i..i + 2 : p = i \/ p = i + 1 \/ p = i + 2
      OBVIOUS
    <3> HIDE DEF o, j, w
    <3>5. \A p \in i..j - 1 : IsPlain(p) => p = o
      BY <3>1, <3>3, <3>4
    <3>6. j \in i..Len(line) + 1 /\ o \in i + 1..j - 1
      BY <1>1, <3>1, <3>2
    <3> QED BY <2>2, <3>1, <3>5, <3>6 DEF NoFile
  <2>3. CASE Word(i) = ">" /\ Word(i + 1) # ">"
    <3>1. o = i + 1 /\ j = i + 2 /\ w = Word(i + 2)
      BY <1>1, <2>3 DEF RFile, Behind, WordAt, NoFile
    <3>2. i + 1 \in 1..Len(line)
      BY <1>2, <1>3, <3>1 DEF Missing, NoFile
    <3>3. ~IsPlain(i)
      BY <2>3 DEF IsPlain, Plain
    <3>4. \A p \in i..i + 1 : p = i \/ p = i + 1
      OBVIOUS
    <3> HIDE DEF o, j, w
    <3>5. \A p \in i..j - 1 : IsPlain(p) => p = o
      BY <3>1, <3>3, <3>4
    <3>6. j \in i..Len(line) + 1 /\ o \in i + 1..j - 1
      BY <1>1, <3>1, <3>2
    <3> QED BY <2>3, <3>1, <3>5, <3>6 DEF NoFile
  <2> QED BY <2>1, <2>2, <2>3
<1>5. /\ e \in j..Len(line) + 1
      /\ f # NoFile => f \in j + 1..e - 1
      /\ \A p \in j..e - 1 : IsPlain(p) => p = f
      /\ w # "<" => f = NoFile /\ e = j /\ WordAt(f, j, w) = w
  <2>1. CASE w # "<"
    BY <1>4, <2>1 DEF RIFile, Behind, WordAt, NoFile
  <2>2. CASE w = "<"
    <3>1. f = j + 1 /\ e = j + 2
      BY <1>4, <2>2 DEF RIFile, Behind, NoFile
    <3>2. j + 1 \in 1..Len(line)
      BY <1>2, <1>3, <1>4, <3>1 DEF Missing, NoFile
    <3>3. ~IsPlain(j)
      BY <1>4, <2>2 DEF IsPlain, Plain
    <3> QED BY <1>1, <1>4, <2>2, <3>1, <3>2, <3>3
  <2> QED BY <2>1, <2>2
<1> HIDE DEF o, j, w, f, e
<1>6. /\ e \in i..Len(line) + 1
      /\ o # NoFile => o \in i + 1..e - 1
      /\ f # NoFile => f \in i + 1..e - 1
  BY <1>1, <1>4, <1>5
<1>7. o # NoFile /\ f # NoFile => o < f
  BY <1>1, <1>4, <1>5
<1>8. \A p \in i..e - 1 : IsPlain(p) => p \in {o, f} \ {NoFile}
  <2> SUFFICES ASSUME NEW p \in i..e - 1, IsPlain(p)
               PROVE  p \in {o, f} /\ p # NoFile
    OBVIOUS
  <2>1. p \in i..j - 1 \/ p \in j..e - 1
    BY <1>1, <1>4, <1>5
  <2> QED BY <1>4, <1>5, <2>1 DEF NoFile
<1>9. Word(i) \notin {">", "<"} =>
        o = NoFile /\ f = NoFile /\ e = i /\ (Parsed.cmd.bg <=> Word(i) = "&")
  BY <1>2, <1>4, <1>5
<1> QED BY <1>2, <1>6, <1>7, <1>8, <1>9

-----------------------------------------------------------------------------
(* The steps.                                                              *)

\* Nothing but the mark of a job tells d from c.
Alike(d, c) ==
  /\ DOMAIN d = DOMAIN Blank /\ d.is = c.is /\ d.in = c.in /\ d.out = c.out
  /\ d.argv = c.argv /\ d.rfile = c.rfile /\ d.rifile = c.rifile

\* The entries of a vector that MakeCommand leaves: the new command, the NULL, and
\* the others, of which it only marks some as jobs.
LEMMA VectorMade ==
  ASSUME Shape, length < MaxWords, MakeCommand
  PROVE  /\ DOMAIN commands' = 0..MaxWords
         /\ commands'[length] = Parsed.cmd
         /\ commands'[length + 1] = NULL
         /\ \A k \in (0..MaxWords) \ {length, length + 1} :
              /\ Alike(commands'[k], commands[k])
              /\ commands'[k].bg = IF Parsed.cmd.bg /\ k \in Marked THEN TRUE
                                  ELSE commands[k].bg
         /\ \A k \in 0..length - 1 : Alike(commands'[k], commands[k])
<1>1. \A k \in 0..MaxWords :
        commands'[k] = IF k = length THEN Parsed.cmd
                       ELSE IF k = length + 1 THEN NULL
                       ELSE IF Parsed.cmd.bg /\ k \in Marked
                            THEN [commands[k] EXCEPT !.bg = TRUE]
                       ELSE commands[k]
  BY DEF MakeCommand, Shape
<1>2. DOMAIN commands' = 0..MaxWords
  BY DEF MakeCommand, Shape
<1>3. length \in 0..MaxWords /\ length + 1 \in 0..MaxWords /\ length + 1 # length
  BY MaxWordsAssumption DEF Shape
<1>4. commands'[length] = Parsed.cmd /\ commands'[length + 1] = NULL
  BY <1>1, <1>3
<1>5. ASSUME NEW k \in (0..MaxWords) \ {length, length + 1}
      PROVE  /\ Alike(commands'[k], commands[k])
             /\ commands'[k].bg = IF Parsed.cmd.bg /\ k \in Marked THEN TRUE
                                 ELSE commands[k].bg
  <2>1. commands'[k] = IF Parsed.cmd.bg /\ k \in Marked
                       THEN [commands[k] EXCEPT !.bg = TRUE] ELSE commands[k]
    BY <1>1, <1>5
  <2>2. DOMAIN commands[k] = DOMAIN Blank
    BY DEF Shape
  <2> QED BY <2>1, <2>2 DEF Blank, Alike
<1>6. 0..length - 1 \subseteq (0..MaxWords) \ {length, length + 1}
  BY MaxWordsAssumption DEF Shape
<1>7. \A k \in 0..length - 1 : Alike(commands'[k], commands[k])
  BY <1>5, <1>6, Zenon
<1> QED BY <1>2, <1>4, <1>5, <1>7, Zenon

LEMMA CommandFits ==
  ASSUME Shape, Parsing, MakeCommand
  PROVE  length < MaxWords
<1>1. i \in 1..Len(line) + 1 /\ Word(i) # Nul /\ Len(line) \in Nat
  BY DEF MakeCommand, MakesCommand, EndsCommand, Parsing, Shape
<1>2. i <= Len(line)
  BY <1>1, WordOK
<1>3. length < first /\ first \in 1..i
  BY <1>2 DEF MakeCommand, MakesCommand, Parsing
<1> QED BY <1>1, <1>2, <1>3, MaxWordsAssumption DEF Shape

LEMMA ShapeKept ==
  ASSUME Shape, Parsing, [Next]_vars
  PROVE  Shape'
<1>1. ASSUME NEW l \in Lines, ReadLine(l)
      PROVE  Shape'
  BY <1>1, LinesAssumption, MaxWordsAssumption DEF ReadLine, Words, NULL, Blank, Shape
<1>2. CASE MakeCommand
  <2>1. length < MaxWords
    BY <1>2, CommandFits
  <2>2. length' \in Nat /\ length' <= MaxWords /\ UNCHANGED <<line, next>>
    BY <1>2, <2>1, MaxWordsAssumption DEF MakeCommand, Shape
  <2>3. Parsed.cmd.out \in BOOLEAN /\ Parsed.cmd.in \in BOOLEAN
    BY CommandMade DEF Shape
  <2>4. pipeNext' \in BOOLEAN
    BY <1>2, <2>3 DEF MakeCommand
  <2>5. DOMAIN NULL = DOMAIN Blank /\ NULL.in \in BOOLEAN /\ NULL.out \in BOOLEAN
    BY DEF NULL, Blank
  <2>6. ASSUME NEW k \in 0..MaxWords
        PROVE  /\ DOMAIN commands'[k] = DOMAIN Blank
               /\ commands'[k].in \in BOOLEAN /\ commands'[k].out \in BOOLEAN
    <3>1. CASE k = length
      BY <1>2, <2>1, <2>3, <3>1, VectorMade, CommandMade
    <3>2. CASE k = length + 1
      BY <1>2, <2>1, <2>5, <3>2, VectorMade
    <3>3. CASE k \notin {length, length + 1}
      BY <1>2, <2>1, <3>3, VectorMade DEF Shape, Alike
    <3> QED BY <3>1, <3>2, <3>3
  <2> QED BY <1>2, <2>1, <2>2, <2>4, <2>6, VectorMade DEF Shape
<1>3. CASE UNCHANGED <<line, length, pipeNext, commands>> /\ next' \in {next, 0}
  BY <1>3 DEF Shape
<1>4. ASSUME NEW e, DOMAIN e = DOMAIN Blank, e.in \in BOOLEAN, e.out \in BOOLEAN,
             NEW n, commands' = [commands EXCEPT ![n] = e],
             UNCHANGED <<line, length, pipeNext>>, next' \in Nat
      PROVE  Shape'
  BY <1>4 DEF Shape
<1>5. Scan \/ Overrun \/ ParseDone \/ ReleaseTwice \/ UNCHANGED vars
        => UNCHANGED <<line, length, pipeNext, commands>> /\ next' \in {next, 0}
  BY DEF Scan, Overrun, ParseDone, ReleaseTwice, vars
<1>6. CASE PipeError
  BY <1>4, <1>6 DEF PipeError, Fail, NULL, Blank
<1>7. CASE RedirectError
  <2>1. Parsed.cmd.out \in BOOLEAN /\ Parsed.cmd.in \in BOOLEAN
    BY CommandMade DEF Shape
  <2> QED BY <1>4, <1>7, <2>1, CommandMade DEF RedirectError, Fail
<1>8. CASE Release
  <2>1. next' \in Nat
    BY <1>8 DEF Release, Shape
  <2> QED BY <1>4, <1>8, <2>1 DEF Release, Freed, Blank
<1>9. CASE LineDone
  <2>1. line' \in Seq(Words) /\ Len(line') = 0
    BY <1>9 DEF LineDone
  <2>2. length' = 0 /\ next' = 0 /\ pipeNext' = FALSE /\ commands' = commands
    BY <1>9 DEF LineDone
  <2>3. Len(line') <= MaxWords
    BY <2>1, MaxWordsAssumption
  <2> QED BY <2>1, <2>2, <2>3 DEF Shape
<1> QED BY <1>1, <1>2, <1>3, <1>5, <1>6, <1>7, <1>8, <1>9 DEF Next

\* A command has been made: the next is looked for behind the place where this
\* one ends, and behind a pipe there is one.
LEMMA FarEnough ==
  ASSUME Shape, Parsing, MakeCommand
  PROVE  /\ i' \in i + 1..Len(line) + 1
         /\ ~IsSeparator(Word(i'))
         /\ Separator = "|" => i' <= Len(line) /\ i' = i + 1
<1> DEFINE from == IF Separator = Nul THEN i + 1 ELSE Parsed.ends
<1>1. i \in Nat \ {0} /\ Len(line) \in Nat /\ Word(i) # Nul
  BY DEF MakeCommand, MakesCommand, EndsCommand, Parsing, Shape
<1>2. from \in Nat \ {0} /\ i <= from
  BY <1>1, EndsBehind
<1>3. i' = Resume(from)
  BY DEF MakeCommand
<1>4. i' \in 1..Len(line) + 1 /\ ~IsSeparator(Word(i')) /\ (Word(i') # Nul => from <= i')
  BY <1>2, <1>3, ResumeOK
<1>5. i <= Len(line)
  BY <1>1, WordOK
<1>6. i' # i
  <2>1. CASE IsSeparator(Word(i))
    BY <1>4, <2>1
  <2>2. CASE ~IsSeparator(Word(i))
    <3>1. from = i + 1
      BY <2>2 DEF Separator
    <3> QED BY <1>1, <1>4, <3>1
  <2> QED BY <2>1, <2>2
<1>7. i' \in i + 1..Len(line) + 1
  <2>1. CASE Word(i') = Nul
    <3>1. i' = Len(line) + 1
      BY <1>1, <1>4, <2>1, WordOK
    <3> QED BY <1>1, <1>5, <3>1
  <2>2. CASE Word(i') # Nul
    BY <1>1, <1>2, <1>4, <1>6, <2>2
  <2> QED BY <2>1, <2>2
<1>8. ASSUME Separator = "|"
      PROVE  i' <= Len(line) /\ i' = i + 1
  <2>1. from = i /\ Word(i) = "|"
    BY <1>1, <1>8, EndsBehind DEF Separator, Nul
  <2>2. Word(i + 1) # Nul /\ ~IsSeparator(Word(i + 1))
    BY <1>8 DEF MakeCommand, PipeIntoNothing
  <2>3. i' = NextWord(i)
    BY <1>1, <1>3, <2>1 DEF Resume
  <2>4. \A m \in i..i' - 1 : IsSeparator(Word(m))
    BY <1>1, <1>5, <2>3, NextWordOK
  <2>5. i' <= i + 1
    <3>1. PICK n \in Int : n = i'
      BY <1>1, <1>4
    <3>2. \A m \in i..n - 1 : IsSeparator(Word(m))
      BY <2>4, <3>1
    <3>3. i + 1 \notin i..n - 1
      BY <2>2, <3>2
    <3>4. n <= i + 1
      BY <1>1, <3>3
    <3> QED BY <3>1, <3>4
  <2>6. i + 1 <= Len(line)
    BY <1>1, <2>2, WordOK
  <2> QED BY <1>1, <1>4, <1>7, <2>5, <2>6
<1> QED BY <1>4, <1>7, <1>8

\* Between a place and the one where make_cmdv() goes on there are no words.
LEMMA ResumeSkips ==
  ASSUME Shape, NEW j \in Nat \ {0}
  PROVE  /\ \A m \in j..Resume(j) - 1 : ~IsPlain(m)
         /\ j <= Len(line) + 1 => j <= Resume(j)
<1>1. Len(line) \in Nat /\ Resume(j) \in 1..Len(line) + 1
  BY ResumeOK DEF Shape
<1>2. CASE Word(j) = Nul
  <2>1. j > Len(line) /\ Resume(j) = Len(line) + 1
    BY <1>1, <1>2, WordOK DEF Resume
  <2> QED BY <1>1, <2>1
<1>3. CASE Word(j) # Nul
  <2>1. j \in 1..Len(line) /\ Resume(j) = NextWord(j)
    BY <1>3, WordOK DEF Resume
  <2>2. \A m \in j..Resume(j) - 1 : IsSeparator(Word(m))
    BY <2>1, NextWordOK
  <2>3. j <= Resume(j)
    BY <2>1, NextWordOK
  <2> QED BY <2>2, <2>3 DEF IsSeparator, IsPlain, Separators, Plain
<1> QED BY <1>2, <1>3

\* The places of the new command: arguments up to LastWord, its files behind
\* them, and no other word before the one where the next command begins.
LEMMA PlacesOfCommand ==
  ASSUME Shape, Parsing, Kept, MakeCommand
  PROVE  LET o == Parsed.cmd.rfile
             f == Parsed.cmd.rifile
         IN  /\ first \in Nat \ {0} /\ LastWord \in first..i /\ i' \in i + 1..Len(line) + 1
             /\ \A m \in first..LastWord : IsPlain(m)
             /\ o # NoFile => o \in LastWord + 1..i' - 1
             /\ f # NoFile => f \in LastWord + 1..i' - 1
             /\ o # NoFile /\ f # NoFile => o < f
             /\ \A p \in LastWord + 1..i' - 1 : IsPlain(p) => p \in {o, f} \ {NoFile}
             /\ Passed = first /\ Passed' = i' /\ (i' <= Len(line) => first' = i')
<1> DEFINE o == Parsed.cmd.rfile
           f == Parsed.cmd.rifile
           e == Parsed.ends
<1>1. /\ i \in 1..Len(line) + 1 /\ Word(i) # Nul /\ Len(line) \in Nat
      /\ first \in 1..i /\ first <= LastWord
  BY DEF MakeCommand, MakesCommand, EndsCommand, Parsing, Shape
<1>2. i \in 1..Len(line)
  BY <1>1, WordOK
<1>3. i' \in i + 1..Len(line) + 1
  BY FarEnough
<1>4. \A m \in first..i - 1 : IsPlain(m)
  BY <1>2 DEF Kept, MakeCommand, MakesCommand
<1>5. Passed = first /\ Passed' = i' /\ (i' <= Len(line) => first' = i')
  <2>1. line' = line /\ first' = IF Word(i') = Nul THEN first ELSE i'
    BY DEF MakeCommand
  <2>2. i' <= Len(line) => first' = i'
    BY <1>1, <1>3, <2>1, WordOK
  <2>3. i' > Len(line) => i' = Len(line) + 1
    BY <1>1, <1>3
  <2> QED BY <1>1, <1>2, <1>3, <2>1, <2>2, <2>3 DEF Passed
<1>6. CASE IsSeparator(Word(i))
  <2>1. LastWord = i - 1
    BY <1>6 DEF LastWord
  <2>2. i' = Resume(e)
    <3>1. Separator # Nul
      BY <1>1, <1>6 DEF Separator
    <3> QED BY <3>1 DEF MakeCommand
  <2>3. /\ e \in i..Len(line) + 1
        /\ o # NoFile => o \in i + 1..e - 1
        /\ f # NoFile => f \in i + 1..e - 1
        /\ o # NoFile /\ f # NoFile => o < f
        /\ \A p \in i..e - 1 : IsPlain(p) => p \in {o, f} \ {NoFile}
    BY <1>2, <1>6, FilesBetween DEF MakeCommand
  <2> HIDE DEF o, f, e
  <2>4. e \in Nat \ {0} /\ e <= Len(line) + 1
    BY <1>1, <2>3
  <2>5. (\A m \in e..i' - 1 : ~IsPlain(m)) /\ e <= i'
    BY <2>2, <2>4, ResumeSkips
  <2>6. \A p \in i..i' - 1 : p \in i..e - 1 \/ p \in e..i' - 1
    <3>1. PICK n \in Int : n = i'
      BY <1>1, <1>3
    <3>2. \A p \in i..n - 1 : p \in i..e - 1 \/ p \in e..n - 1
      BY <1>1, <2>4
    <3> QED BY <3>1, <3>2
  <2>7. \A p \in LastWord + 1..i' - 1 : IsPlain(p) => p \in {o, f} \ {NoFile}
    <3>1. LastWord + 1 = i
      BY <1>1, <2>1
    <3> QED BY <2>3, <2>5, <2>6, <3>1
  <2>8. /\ o # NoFile => o \in LastWord + 1..i' - 1
        /\ f # NoFile => f \in LastWord + 1..i' - 1
    BY <1>1, <1>3, <2>1, <2>3, <2>4, <2>5
  <2>9. LastWord \in first..i /\ \A m \in first..LastWord : IsPlain(m)
    BY <1>1, <1>4, <2>1
  <2> QED BY <1>1, <1>3, <1>5, <2>3, <2>7, <2>8, <2>9 DEF o, f
<1>7. CASE ~IsSeparator(Word(i))
  <2>1. LastWord = i /\ Separator = Nul
    BY <1>7 DEF LastWord, Separator
  <2>2. Word(i + 1) = Nul
    BY <1>7 DEF MakeCommand, MakesCommand, EndsCommand
  <2>3. i = Len(line) /\ i' = Len(line) + 1
    BY <1>1, <1>2, <1>3, <2>2, LastPlace
  <2>4. o = NoFile /\ f = NoFile
    BY <2>1 DEF Parsed, Blank, RFile, RIFile, Behind, WordAt, Nul, NoFile
  <2>5. IsPlain(i)
    <3>1. Word(i) \in Words
      BY <1>1, WordOK
    <3> QED BY <1>7, <3>1 DEF Words, IsSeparator, IsPlain
  <2>6. \A m \in first..LastWord : IsPlain(m)
    <3>1. \A m \in first..i : m = i \/ m \in first..i - 1
      BY <1>1
    <3> QED BY <1>4, <2>1, <2>5, <3>1
  <2>7. \A p \in LastWord + 1..i' - 1 : FALSE
    BY <1>1, <2>1, <2>3
  <2> HIDE DEF o, f
  <2>8. /\ o # NoFile => o \in LastWord + 1..i' - 1
        /\ f # NoFile => f \in LastWord + 1..i' - 1
        /\ o # NoFile /\ f # NoFile => o < f
        /\ \A p \in LastWord + 1..i' - 1 : IsPlain(p) => p \in {o, f} \ {NoFile}
    BY <2>4, <2>7
  <2>9. first \in Nat \ {0} /\ LastWord \in first..i
    BY <1>1, <2>1
  <2> QED BY <1>3, <1>5, <2>6, <2>8, <2>9 DEF o, f
<1> QED BY <1>6, <1>7

\* What the new command takes of the line: every word from first to where the
\* next command begins, in its order.
LEMMA TakenByCommand ==
  ASSUME Shape, Parsing, Kept, MakeCommand
  PROVE  /\ InOrder(Parsed.cmd)
         /\ Taken(Parsed.cmd) \subseteq first..i' - 1
         /\ \A j \in first..i' - 1 : IsPlain(j) => j \in Taken(Parsed.cmd)
<1> DEFINE c == Parsed.cmd
<1>1. c.argv = [k \in 1..LastWord - first + 1 |-> first + k - 1]
  BY DEF Parsed, Blank
<1>2. /\ first \in Nat \ {0} /\ LastWord \in first..i /\ i' \in i + 1..Len(line) + 1
      /\ i \in Nat /\ Len(line) \in Nat
  BY PlacesOfCommand DEF Shape, Parsing, MakeCommand, MakesCommand
<1>3. /\ c.rfile # NoFile => c.rfile \in LastWord + 1..i' - 1
      /\ c.rifile # NoFile => c.rifile \in LastWord + 1..i' - 1
      /\ c.rfile # NoFile /\ c.rifile # NoFile => c.rfile < c.rifile
      /\ \A p \in LastWord + 1..i' - 1 :
           IsPlain(p) => p \in {c.rfile, c.rifile} \ {NoFile}
  BY PlacesOfCommand
<1> HIDE DEF c
<1>4. DOMAIN c.argv = 1..LastWord - first + 1
  BY <1>1
<1>5. \A a \in DOMAIN c.argv : c.argv[a] = first + a - 1 /\ c.argv[a] \in first..LastWord
  BY <1>1, <1>2
<1>6. \A j \in first..LastWord : \E a \in DOMAIN c.argv : c.argv[a] = j
  <2> SUFFICES ASSUME NEW j \in first..LastWord
               PROVE  \E a \in DOMAIN c.argv : c.argv[a] = j
    OBVIOUS
  <2>1. j - first + 1 \in DOMAIN c.argv
    BY <1>2, <1>4
  <2>2. c.argv[j - first + 1] = j
    BY <1>2, <1>5, <2>1
  <2> QED BY <2>1, <2>2
<1>7. InOrder(c)
  <2>1. \A a, b \in DOMAIN c.argv : a < b => c.argv[a] < c.argv[b]
    BY <1>2, <1>4, <1>5
  <2>2. \A f \in {c.rfile, c.rifile} \ {NoFile} : \A a \in DOMAIN c.argv : c.argv[a] < f
    BY <1>2, <1>3, <1>5
  <2> QED BY <1>3, <2>1, <2>2 DEF InOrder
<1>8. Taken(c) \subseteq first..i' - 1
  <2>1. PICK n \in Int : n = i'
    BY <1>2
  <2>2. \A a \in DOMAIN c.argv : c.argv[a] \in first..n - 1
    BY <1>2, <1>5, <2>1
  <2>3. \A f \in {c.rfile, c.rifile} \ {NoFile} : f \in first..n - 1
    BY <1>2, <1>3, <2>1
  <2> QED BY <2>1, <2>2, <2>3 DEF Taken
<1>9. \A j \in first..i' - 1 : IsPlain(j) => j \in Taken(c)
  <2>1. PICK n \in Int : n = i'
    BY <1>2
  <2>2. \A j \in first..n - 1 : j \in first..LastWord \/ j \in LastWord + 1..n - 1
    BY <1>2
  <2> QED BY <1>3, <1>6, <2>1, <2>2 DEF Taken
<1> QED BY <1>7, <1>8, <1>9 DEF c

LEMMA KeptKept ==
  ASSUME Shape, Parsing, Kept, [Next]_vars
  PROVE  Kept'
<1>1. ASSUME NEW l \in Lines, ReadLine(l)
      PROVE  Kept'
  <2>1. Len(line') \in Nat
    BY <1>1, LinesAssumption DEF ReadLine
  <2>2. at' = "parse" /\ i' = 1 /\ first' = 1 /\ length' = 0
    BY <1>1 DEF ReadLine
  <2>3. Passed' = 1
    BY <2>1, <2>2 DEF Passed
  <2> QED BY <2>2, <2>3 DEF Kept, Made
<1>2. CASE Scan
  <2>1. i \in 1..Len(line) + 1 /\ Word(i) # Nul /\ Word(i + 1) # Nul /\ Len(line) \in Nat
    BY <1>2 DEF Scan, EndsCommand, Parsing, Shape
  <2>2. i <= Len(line) /\ i + 1 <= Len(line)
    BY <2>1, WordOK
  <2>3. /\ at = "parse" /\ at' = "parse" /\ i' = i + 1
        /\ line' = line /\ first' = first /\ length' = length /\ commands' = commands
    BY <1>2 DEF Scan
  <2>4. Passed = first /\ Passed' = first
    BY <2>1, <2>2, <2>3 DEF Passed
  <2>5. \A m \in first..i : IsPlain(m)
    <3>1. ~IsSeparator(Word(i)) /\ Word(i) \in Words
      BY <1>2, <2>1, WordOK DEF Scan, EndsCommand
    <3>2. IsPlain(i)
      BY <3>1 DEF IsSeparator, Words, IsPlain
    <3>3. \A m \in first..i - 1 : IsPlain(m)
      BY <2>2, <2>3 DEF Kept
    <3>4. first \in 1..i
      BY <1>2 DEF Scan, Parsing
    <3>5. \A m \in first..i : m = i \/ m \in first..i - 1
      BY <2>1, <3>4
    <3> QED BY <3>2, <3>3, <3>5
  <2>6. i' - 1 = i /\ at' # "run"
    BY <2>1, <2>3
  <2>7. \A j : IsPlain(j)' <=> IsPlain(j)
    BY <2>3 DEF IsPlain, Word
  <2>8. \A m \in first'..i' - 1 : IsPlain(m)'
    BY <2>3, <2>5, <2>6, <2>7
  <2>9. \A c : Taken(c)' = Taken(c) /\ (InOrder(c)' <=> InOrder(c))
    BY DEF Taken, InOrder
  <2>10. Made' = Made
    BY <2>3 DEF Made
  <2> QED BY <2>3, <2>4, <2>6, <2>7, <2>8, <2>10 DEF Kept, Before
<1>3. CASE MakeCommand
  <2> DEFINE c == Parsed.cmd
  <2>1. /\ length \in Nat /\ length < MaxWords /\ MaxWords \in Nat /\ Len(line) \in Nat
        /\ at = "parse" /\ at' = "parse" /\ length' = length + 1 /\ line' = line
    BY <1>3, CommandFits, MaxWordsAssumption DEF Shape, MakeCommand, MakesCommand
  <2>2. /\ commands'[length] = c
        /\ \A k \in 0..length - 1 :
             /\ commands'[k].argv = commands[k].argv
             /\ commands'[k].rfile = commands[k].rfile
             /\ commands'[k].rifile = commands[k].rifile
    BY <1>3, <2>1, VectorMade DEF Alike
  <2>3. \A k \in 0..length - 1 : Taken(commands'[k]) = Taken(commands[k])
    BY <2>2 DEF Taken
  <2>4. \A k \in 0..length - 1 : InOrder(commands[k]) => InOrder(commands'[k])
    BY <2>2 DEF InOrder
  <2>5. /\ first \in Nat \ {0} /\ LastWord \in first..i /\ i' \in i + 1..Len(line) + 1
        /\ Passed = first /\ Passed' = i' /\ (i' <= Len(line) => first' = i')
    BY <1>3, PlacesOfCommand
  <2>6. /\ InOrder(c)
        /\ Taken(c) \subseteq first..i' - 1
        /\ \A j \in first..i' - 1 : IsPlain(j) => j \in Taken(c)
    BY <1>3, TakenByCommand
  <2>7. /\ \A k \in 0..length - 1 : InOrder(commands[k])
        /\ \A k \in 0..length - 1 : Taken(commands[k]) \subseteq 1..first - 1
        /\ \A k, m \in 0..length - 1 : k < m => Before(commands[k], commands[m])
        /\ \A j \in 1..first - 1 :
             IsPlain(j) => \E k \in 0..length - 1 : j \in Taken(commands[k])
    BY <2>1, <2>5 DEF Kept, Made
  <2> HIDE DEF c
  <2>8. i \in Nat /\ first \in 1..i
    BY <1>3 DEF Parsing, Shape, MakeCommand, MakesCommand
  <2>9. \A k \in 0..length : k = length \/ k \in 0..length - 1
    BY <2>1
  <2>10. \A k \in 0..length : InOrder(commands'[k])
    BY <2>2, <2>4, <2>6, <2>7, <2>9
  <2>11. \A k \in 0..length : Taken(commands'[k]) \subseteq 1..i' - 1
    <3>1. PICK n \in Int : n = i'
      BY <2>5
    <3>2. \A p : p \in first..n - 1 \/ p \in 1..first - 1 => p \in 1..n - 1
      BY <2>5, <2>8, <3>1
    <3> QED BY <2>2, <2>3, <2>6, <2>7, <2>9, <3>1, <3>2
  <2>12. \A k, m \in 0..length : k < m => Before(commands'[k], commands'[m])
    <3> SUFFICES ASSUME NEW k \in 0..length, NEW m \in 0..length, k < m
                 PROVE  Before(commands'[k], commands'[m])
      OBVIOUS
    <3>1. k \in 0..length - 1
      BY <2>1
    <3>2. CASE m \in 0..length - 1
      BY <2>3, <2>7, <3>1, <3>2 DEF Before
    <3>3. CASE m = length
      <4>1. /\ Taken(commands'[k]) \subseteq 1..first - 1
            /\ Taken(commands'[m]) \subseteq first..i' - 1
        BY <2>2, <2>3, <2>6, <2>7, <3>1, <3>3
      <4>2. PICK n \in Int : n = i'
        BY <2>5
      <4>3. \A p \in 1..first - 1, q \in first..n - 1 : p < q
        BY <2>8
      <4> QED BY <4>1, <4>2, <4>3 DEF Before
    <3> QED BY <2>9, <3>2, <3>3
  <2>13. \A j \in 1..i' - 1 : IsPlain(j) => \E k \in 0..length : j \in Taken(commands'[k])
    <3>1. PICK n \in Int : n = i'
      BY <2>5
    <3>2. \A j \in 1..n - 1 : j \in 1..first - 1 \/ j \in first..n - 1
      BY <2>8
    <3>3. \A j \in first..n - 1 : IsPlain(j) => j \in Taken(commands'[length])
      BY <2>2, <2>6, <3>1
    <3>4. length \in 0..length /\ 0..length - 1 \subseteq 0..length
      BY <2>1
    <3>5. \A j \in 1..first - 1 :
            IsPlain(j) => \E k \in 0..length - 1 : j \in Taken(commands'[k])
      BY <2>3, <2>7
    <3> QED BY <3>1, <3>2, <3>3, <3>4, <3>5
  <2>14. i' <= Len(line') => \A m \in first'..i' - 1 : IsPlain(m)'
    <3>1. PICK n \in Int : n = i'
      BY <2>5
    <3>2. \A m : m \notin n..n - 1
      OBVIOUS
    <3>3. i' <= Len(line') => first' = n
      BY <2>1, <2>5, <3>1
    <3> QED BY <3>1, <3>2, <3>3
  <2>15. \A j : IsPlain(j)' <=> IsPlain(j)
    BY <2>1 DEF IsPlain, Word
  <2>16. Made' = 0..length
    BY <2>1 DEF Made
  <2>17. Passed' = i' /\ at' # "run"
    BY <2>1, <2>5
  <2> QED BY <2>10, <2>11, <2>12, <2>13, <2>14, <2>15, <2>16, <2>17 DEF Kept
<1>4. CASE ParseDone
  <2>1. i = Len(line) + 1
    BY <1>4, WordOK DEF ParseDone, Parsing, Shape
  <2>2. /\ at = "parse" /\ at' = "run" /\ i' = i
        /\ line' = line /\ first' = first /\ length' = length /\ commands' = commands
    BY <1>4 DEF ParseDone
  <2> QED BY <2>1, <2>2 DEF Kept, Accepted, Made, Passed, IsPlain, Word
<1>5. CASE UNCHANGED vars
  BY <1>5 DEF vars, Kept, Accepted, Made, Passed, IsPlain, Word
<1>6. Overrun \/ PipeError \/ RedirectError \/ LineDone \/ ReleaseTwice
        => at' \notin {"parse", "run"}
  BY DEF Overrun, PipeError, RedirectError, Fail, LineDone, ReleaseTwice
<1>7. Release => at' # "parse" /\ next' # 0
  BY DEF Release, Walks, Shape
<1> QED BY <1>1, <1>2, <1>3, <1>4, <1>5, <1>6, <1>7 DEF Next, Kept, Accepted

\* On a line without redirections the new command is the run of words from
\* first; behind a pipe the next begins.
LEMMA RunOfCommand ==
  ASSUME Shape, Parsing, Kept, Told, NoRedirection, MakeCommand
  PROVE  LET c == Parsed.cmd
         IN  /\ c.argv[1] = first /\ LastOf(c) = LastWord
             /\ IsRun(c, first, LastWord)
             /\ c.out \in BOOLEAN /\ c.bg \in BOOLEAN
             /\ c.out <=> After(c) = "|"
             /\ c.bg <=> After(c) = "&"
             /\ c.out => first' = LastWord + 2
             /\ i' <= Len(line) => ~IsPlain(i' - 1)
<1> DEFINE c == Parsed.cmd
<1>1. /\ i \in Nat /\ Word(i) # Nul /\ Len(line) \in Nat /\ at = "parse" /\ EndsCommand
  BY DEF MakeCommand, MakesCommand, EndsCommand, Parsing, Shape
<1>2. i \in 1..Len(line)
  BY <1>1, WordOK
<1>3. /\ first \in Nat \ {0} /\ LastWord \in first..i /\ i' \in i + 1..Len(line) + 1
      /\ \A m \in first..LastWord : IsPlain(m)
      /\ \A p \in LastWord + 1..i' - 1 : IsPlain(p) => p \in {c.rfile, c.rifile} \ {NoFile}
      /\ i' <= Len(line) => first' = i'
  BY PlacesOfCommand
<1>4. c.argv = [k \in 1..LastWord - first + 1 |-> first + k - 1]
  BY DEF Parsed, Blank
<1>5. c.out = (Separator = "|")
  BY CommandMade
<1>6. ~IsPlain(first - 1)
  BY <1>1, <1>2 DEF Told
<1>7. c.bg \in BOOLEAN
  BY DEF Parsed, Blank
<1>8. /\ c.rfile = NoFile /\ c.rifile = NoFile /\ (c.bg <=> Separator = "&")
      /\ Separator = Word(LastWord + 1) /\ ~IsPlain(LastWord + 1)
      /\ Separator # Nul => LastWord + 1 = i
      /\ Separator = Nul => i' = Len(line) + 1
  <2>1. CASE IsSeparator(Word(i))
    <3>1. LastWord = i - 1 /\ Separator = Word(i) /\ LastWord + 1 = i
      BY <1>1, <2>1 DEF LastWord, Separator
    <3>2. Word(i) \notin {">", "<"}
      BY <1>2 DEF NoRedirection
    <3>3. c.rfile = NoFile /\ c.rifile = NoFile /\ (c.bg <=> Word(i) = "&")
      BY <1>2, <2>1, <3>2, FilesBetween DEF MakeCommand
    <3>4. ~IsPlain(i)
      BY <2>1 DEF IsSeparator, IsPlain, Separators, Plain
    <3> QED BY <1>1, <3>1, <3>3, <3>4
  <2>2. CASE ~IsSeparator(Word(i))
    <3>1. LastWord = i /\ Separator = Nul
      BY <2>2 DEF LastWord, Separator
    <3>2. Word(i + 1) = Nul
      BY <1>1, <2>2 DEF EndsCommand
    <3>3. i = Len(line)
      BY <1>1, <3>2, LastPlace
    <3>4. c.rfile = NoFile /\ c.rifile = NoFile /\ (c.bg <=> FALSE)
      BY <3>1 DEF Parsed, Blank, RFile, RIFile, Behind, WordAt, Nul, NoFile
    <3>5. ~IsPlain(i + 1)
      BY <3>2 DEF IsPlain, Plain, Nul
    <3>6. i' = Len(line) + 1
      BY <1>1, <1>3, <3>3
    <3>7. Nul # "&"
      BY DEF Nul
    <3> QED BY <3>1, <3>2, <3>4, <3>5, <3>6, <3>7
  <2> QED BY <2>1, <2>2
<1> HIDE DEF c
<1>9. Len(c.argv) = LastWord - first + 1 /\ c.argv[1] = first /\ LastOf(c) = LastWord
  <2>1. LastWord - first + 1 \in Nat \ {0}
    BY <1>1, <1>3
  <2>2. Len(c.argv) = LastWord - first + 1
    BY <1>4, <2>1
  <2>3. first + (LastWord - first + 1) - 1 = LastWord
    BY <1>1, <1>3
  <2> QED BY <1>3, <1>4, <2>1, <2>2, <2>3 DEF LastOf
<1>10. IsRun(c, first, LastWord)
  <2>1. first \in 1..Len(line) /\ LastWord \in first..Len(line)
    BY <1>1, <1>2, <1>3
  <2> QED BY <1>3, <1>4, <1>6, <1>8, <2>1 DEF IsRun
<1>11. After(c) = Separator
  BY <1>8, <1>9 DEF After
<1>12. ASSUME c.out PROVE first' = LastWord + 2
  <2>1. Separator = "|"
    BY <1>5, <1>12
  <2>2. i' <= Len(line) /\ i' = i + 1
    BY <2>1, FarEnough
  <2>3. LastWord + 1 = i
    BY <1>8, <2>1 DEF Nul
  <2> QED BY <1>1, <1>3, <2>2, <2>3
<1>13. ASSUME i' <= Len(line) PROVE ~IsPlain(i' - 1)
  <2>1. PICK n \in Int : n = i'
    BY <1>3
  <2>2. n <= Len(line) /\ n > i
    BY <1>1, <1>3, <1>13, <2>1
  <2>3. LastWord + 1 = i
    BY <1>1, <1>8, <2>1, <2>2
  <2>4. n - 1 \in LastWord + 1..n - 1
    BY <1>1, <2>2, <2>3
  <2>5. IsPlain(n - 1) => n - 1 \in {c.rfile, c.rifile} \ {NoFile}
    BY <1>3, <2>1, <2>4
  <2> QED BY <1>8, <2>1, <2>5
<1> QED BY <1>5, <1>7, <1>8, <1>9, <1>10, <1>11, <1>12, <1>13 DEF c

LEMMA ParsingKept ==
  ASSUME Shape, Parsing, [Next]_vars
  PROVE  Parsing'
<1>1. ASSUME NEW l \in Lines, ReadLine(l)
      PROVE  Parsing'
  <2>1. Len(line') \in Nat
    BY <1>1, LinesAssumption DEF ReadLine
  <2> QED BY <1>1, <2>1 DEF ReadLine, Parsing
<1>2. CASE Scan
  <2>1. i \in 1..Len(line) + 1 /\ Word(i) # Nul /\ Word(i + 1) # Nul /\ Len(line) \in Nat
    BY <1>2 DEF Scan, EndsCommand, Parsing, Shape
  <2>2. i <= Len(line) /\ i + 1 <= Len(line)
    BY <2>1, WordOK
  <2>3. /\ first \in 1..i /\ length < first /\ length \in Nat
        /\ first > 1 => ~IsSeparator(Word(first))
    BY <1>2, <2>2 DEF Scan, Parsing, Shape
  <2>4. i' = i + 1 /\ UNCHANGED <<line, first, length, pipeNext>>
    BY <1>2 DEF Scan
  <2>5. Word(first)' = Word(first)
    BY <2>4 DEF Word
  <2> QED BY <2>1, <2>2, <2>3, <2>4, <2>5 DEF Parsing
<1>3. CASE MakeCommand
  <2>1. i \in 1..Len(line) + 1 /\ Word(i) # Nul /\ Len(line) \in Nat /\ length \in Nat
    BY <1>3 DEF MakeCommand, MakesCommand, EndsCommand, Parsing, Shape
  <2>2. i <= Len(line)
    BY <2>1, WordOK
  <2>3. first \in 1..i /\ length < first /\ (first > 1 => ~IsSeparator(Word(first)))
    BY <1>3, <2>2 DEF MakeCommand, MakesCommand, Parsing
  <2>4. i' \in i + 1..Len(line) + 1 /\ ~IsSeparator(Word(i'))
    BY <1>3, FarEnough
  <2>5. /\ line' = line /\ length' = length + 1
        /\ first' = IF Word(i') = Nul THEN first ELSE i'
        /\ pipeNext' = Parsed.cmd.out
    BY <1>3 DEF MakeCommand
  <2>6. pipeNext' => i' <= Len(line)
    BY <1>3, <2>5, FarEnough, CommandMade
  <2>7. i' <= Len(line) => first' = i'
    BY <2>1, <2>4, <2>5, WordOK
  <2>8. ~IsSeparator(Word(first')) \/ first' = 1
    BY <2>3, <2>4, <2>5
  <2>9. Word(first)' = Word(first')
    BY <2>5 DEF Word
  <2>10. first' \in 1..i' /\ length' <= first' /\ (i' <= Len(line) => length' < first')
    BY <2>1, <2>2, <2>3, <2>4, <2>5, <2>7
  <2> QED BY <2>1, <2>4, <2>5, <2>6, <2>8, <2>9, <2>10 DEF Parsing
<1>4. CASE UNCHANGED vars
  BY <1>4 DEF vars, Parsing, Word
<1>5. Overrun \/ PipeError \/ RedirectError \/ ParseDone \/ Release \/ LineDone \/ ReleaseTwice
        => at' # "parse"
  BY DEF Overrun, PipeError, RedirectError, Fail, ParseDone, Release, LineDone,
         ReleaseTwice, Walks
<1> QED BY <1>1, <1>2, <1>3, <1>4, <1>5 DEF Next, Parsing

LEMMA VectorKept ==
  ASSUME Shape, Parsing, Vector, [Next]_vars
  PROVE  Vector'
<1>1. ASSUME NEW l \in Lines, ReadLine(l)
      PROVE  Vector'
  <2>1. commands'[0] = NULL
    BY <1>1, MaxWordsAssumption DEF ReadLine, Shape
  <2> QED BY <1>1, <2>1 DEF ReadLine, Vector, NULL, Blank
<1>2. CASE Scan
  BY <1>2 DEF Scan, Vector
<1>3. CASE MakeCommand
  <2>1. length \in Nat /\ length < MaxWords /\ MaxWords \in Nat
    BY <1>3, CommandFits, MaxWordsAssumption DEF Shape
  <2>2. at = "parse" /\ at' = "parse" /\ length' = length + 1 /\ pipeNext' = Parsed.cmd.out
    BY <1>3 DEF MakeCommand, MakesCommand
  <2>3. /\ commands'[length] = Parsed.cmd /\ commands'[length + 1] = NULL
        /\ \A k \in 0..length - 1 :
             /\ commands'[k].is = commands[k].is
             /\ commands'[k].in = commands[k].in
             /\ commands'[k].out = commands[k].out
    BY <1>3, <2>1, VectorMade DEF Alike
  <2>4. Parsed.cmd.is = "cmd" /\ Parsed.cmd.in = pipeNext
    BY CommandMade
  <2>5. NULL.is = "null"
    BY DEF NULL, Blank
  <2>6. ASSUME NEW k \in 0..length
        PROVE  /\ commands'[k].is = "cmd"
               /\ commands'[k].in <=> (k > 0 /\ commands'[k-1].out)
    <3>1. CASE k = length
      <4>1. length > 0 => commands'[length-1].out = commands[length-1].out
        BY <2>1, <2>3
      <4> QED BY <2>1, <2>2, <2>3, <2>4, <3>1, <4>1 DEF Vector
    <3>2. CASE k \in 0..length - 1
      <4>1. k > 0 => commands'[k-1].out = commands[k-1].out
        BY <2>1, <2>3, <3>2
      <4>2. commands[k].is = "cmd" /\ (commands[k].in <=> (k > 0 /\ commands[k-1].out))
        BY <2>2, <3>2 DEF Vector
      <4> QED BY <2>3, <3>2, <4>1, <4>2
    <3> QED BY <2>1, <3>1, <3>2
  <2>7. pipeNext' <=> (length' > 0 /\ commands'[length'-1].out)
    BY <2>1, <2>2, <2>3
  <2>8. 0..length' - 1 = 0..length
    BY <2>1, <2>2
  <2> QED BY <2>2, <2>3, <2>5, <2>6, <2>7, <2>8 DEF Vector
<1>4. CASE ParseDone
  <2>1. ~pipeNext
    BY <1>4, WordOK DEF ParseDone, Parsing, Shape
  <2> QED BY <1>4, <2>1 DEF ParseDone, Vector
<1>5. CASE UNCHANGED vars
  BY <1>5 DEF vars, Vector
<1>6. Overrun \/ PipeError \/ RedirectError \/ LineDone \/ ReleaseTwice
        => at' \notin {"parse", "run"}
  BY DEF Overrun, PipeError, RedirectError, Fail, LineDone, ReleaseTwice
<1>7. Release => at' # "parse" /\ next' # 0
  BY DEF Release, Walks, Shape
<1> QED BY <1>1, <1>2, <1>3, <1>4, <1>5, <1>6, <1>7 DEF Next, Vector

LEMMA WalkKept ==
  ASSUME Shape, Parsing, Vector, Walk, [Next]_vars
  PROVE  Walk'
<1>1. CASE PipeError
  <2>1. length \in Nat /\ length <= MaxWords /\ MaxWords \in Nat
    <3>1. i \in 1..Len(line) + 1 /\ Word(i) # Nul /\ Len(line) \in Nat
      BY <1>1 DEF PipeError, MakesCommand, EndsCommand, Parsing, Shape
    <3>2. i <= Len(line)
      BY <3>1, WordOK
    <3>3. length < first /\ first \in 1..i
      BY <1>1, <3>2 DEF PipeError, MakesCommand, Parsing
    <3> QED BY <3>1, <3>2, <3>3, MaxWordsAssumption DEF Shape
  <2>2. /\ at = "parse" /\ next' = 0 /\ length' = length
        /\ commands' = [commands EXCEPT ![length] = NULL]
    BY <1>1 DEF PipeError, MakesCommand, Fail
  <2>3. commands'[length].is = "null"
    BY <2>1, <2>2 DEF Shape, NULL, Blank
  <2>4. \A k \in 0..length - 1 : commands'[k].is = "cmd"
    BY <2>1, <2>2 DEF Shape, Vector
  <2> QED BY <2>1, <2>2, <2>3, <2>4 DEF Walk
<1>2. CASE RedirectError
  <2>1. EndsOpen
    BY <1>2, MissingAtEnd DEF RedirectError, MakesCommand, Parsing, Shape
  <2>2. line' = line /\ at' = "error"
    BY <1>2 DEF RedirectError, Fail
  <2> QED BY <2>1, <2>2 DEF Walk, EndsOpen, Word
<1>3. CASE ParseDone
  <2>1. at = "parse" /\ next' = 0 /\ UNCHANGED <<length, commands>>
    BY <1>3 DEF ParseDone
  <2> QED BY <2>1 DEF Vector, Walk, Shape
<1>4. CASE Release
  <2>1. /\ Walks /\ commands[next].is = "cmd" /\ next' = next + 1
        /\ commands' = [commands EXCEPT ![next] = Freed]
        /\ UNCHANGED <<at, line, length>>
    BY <1>4 DEF Release
  <2>2. CASE at = "error" /\ EndsOpen
    BY <2>1, <2>2 DEF Walk, EndsOpen, Word
  <2>3. CASE /\ next <= length /\ commands[length].is = "null"
             /\ \A k \in next..length - 1 : commands[k].is = "cmd"
    <3>1. next < length
      BY <2>1, <2>3 DEF Shape
    <3>2. \A k \in next + 1..length : commands'[k] = commands[k]
      BY <2>1 DEF Shape
    <3> QED BY <2>1, <2>3, <3>1, <3>2 DEF Walk, Shape
  <2> QED BY <2>1, <2>2, <2>3 DEF Walk
<1>5. CASE UNCHANGED vars
  BY <1>5 DEF vars, Walk, Walks, EndsOpen, Word
<1>6. Scan \/ Overrun \/ MakeCommand \/ LineDone \/ ReleaseTwice \/ (\E l \in Lines : ReadLine(l))
        => at' \notin {"run", "error"}
  BY DEF Scan, Overrun, MakeCommand, MakesCommand, LineDone, ReleaseTwice, ReadLine
<1> QED BY <1>1, <1>2, <1>3, <1>4, <1>5, <1>6 DEF Next, Walk, Walks

LEMMA BreaksKept ==
  ASSUME Shape, Parsing, Walk, BreaksOnlyBy, [Next]_vars
  PROVE  BreaksOnlyBy'
<1>1. CASE Overrun
  <2>1. i \in 1..Len(line) + 1 /\ first \in 1..i /\ Len(line) \in Nat /\ LastWord < first
    BY <1>1 DEF Overrun, Parsing, Shape
  <2>2. first = i /\ IsSeparator(Word(i))
    BY <2>1 DEF LastWord
  <2>3. first = 1
    BY <1>1, <2>1, <2>2 DEF Overrun, Parsing
  <2>4. IsSeparator(Word(1)) /\ line' = line
    BY <1>1, <2>2, <2>3 DEF Overrun
  <2> QED BY <2>4 DEF BreaksOnlyBy, Word
<1>2. CASE ReleaseTwice
  <2>1. Walks /\ commands[next].is \notin {"cmd", "null"}
    BY <1>2 DEF ReleaseTwice
  <2>2. EndsOpen
    BY <2>1 DEF Walk, Shape
  <2>3. line' = line
    BY <1>2 DEF ReleaseTwice
  <2> QED BY <2>2, <2>3 DEF BreaksOnlyBy, EndsOpen, Word
<1>3. CASE UNCHANGED vars
  BY <1>3 DEF vars, BreaksOnlyBy, Word
<1>4. Scan \/ PipeError \/ RedirectError \/ MakeCommand \/ ParseDone \/ Release
        \/ LineDone \/ (\E l \in Lines : ReadLine(l)) => at' # "broken"
  BY DEF Scan, PipeError, RedirectError, Fail, MakeCommand, MakesCommand, ParseDone,
         Release, Walks, LineDone, ReadLine
<1> QED BY <1>1, <1>2, <1>3, <1>4 DEF Next, BreaksOnlyBy

LEMMA ToldKept ==
  ASSUME Shape, Parsing, Vector, Kept, Told, [Next]_vars
  PROVE  Told'
<1>1. ASSUME NEW l \in Lines, ReadLine(l)
      PROVE  Told'
  <2>1. i' = 1 /\ first' = 1 /\ length' = 0
    BY <1>1 DEF ReadLine
  <2>2. Made' = {}
    BY <2>1 DEF Made
  <2>3. Len(line') \in Nat /\ DOMAIN line' = 1..Len(line')
    BY <1>1, LinesAssumption DEF ReadLine
  <2>4. ~IsPlain(first - 1)'
    BY <2>1, <2>3 DEF IsPlain, Word, Plain, Nul
  <2> QED BY <2>2, <2>4 DEF Told
<1>2. CASE Scan
  <2>1. i \in 1..Len(line) + 1 /\ Word(i) # Nul /\ Len(line) \in Nat
    BY <1>2 DEF Scan, Parsing, Shape
  <2>2. i <= Len(line)
    BY <2>1, WordOK
  <2>3. /\ at = "parse" /\ at' = "parse"
        /\ line' = line /\ first' = first /\ length' = length /\ commands' = commands
    BY <1>2 DEF Scan
  <2> QED BY <2>2, <2>3 DEF Told, NoRedirection, Made, IsRun, IsPlain, After, Word
<1>3. CASE MakeCommand
  <2> SUFFICES ASSUME NoRedirection
               PROVE  Told'
    BY <1>3 DEF MakeCommand, Told, NoRedirection, Word
  <2> DEFINE c == Parsed.cmd
  <2>1. /\ length \in Nat /\ length < MaxWords /\ MaxWords \in Nat /\ at = "parse"
        /\ at' = "parse" /\ length' = length + 1 /\ line' = line
    BY <1>3, CommandFits, MaxWordsAssumption DEF Shape, MakeCommand, MakesCommand
  <2>2. /\ commands'[length] = c
        /\ \A k \in 0..length - 1 :
             /\ Alike(commands'[k], commands[k])
             /\ commands'[k].bg = IF c.bg /\ k \in Marked THEN TRUE ELSE commands[k].bg
    <3>1. 0..length - 1 \subseteq (0..MaxWords) \ {length, length + 1}
      BY <2>1
    <3> QED BY <1>3, <2>1, <3>1, VectorMade, Zenon
  <2>3. /\ c.argv[1] = first /\ LastOf(c) = LastWord
        /\ IsRun(c, first, LastWord)
        /\ c.out \in BOOLEAN /\ c.bg \in BOOLEAN
        /\ c.out <=> After(c) = "|"
        /\ c.bg <=> After(c) = "&"
        /\ c.out => first' = LastWord + 2
        /\ i' <= Len(line) => ~IsPlain(i' - 1)
    BY <1>3, RunOfCommand
  <2>4. i' <= Len(line) => first' = i'
    BY <1>3, PlacesOfCommand
  <2> HIDE DEF c
  <2>5. \A k \in 0..length - 1 :
          /\ commands'[k].argv = commands[k].argv /\ commands'[k].out = commands[k].out
          /\ commands'[k].rfile = commands[k].rfile
          /\ commands'[k].rifile = commands[k].rifile
    BY <2>2 DEF Alike
  <2>6. \A k \in 0..length - 1 :
          /\ LastOf(commands'[k]) = LastOf(commands[k])
          /\ After(commands'[k]) = After(commands[k])
    BY <2>5 DEF LastOf, After
  <2>7. \A k \in 0..length - 1 :
          /\ IsRun(commands[k], commands[k].argv[1], LastOf(commands[k]))
          /\ commands[k].out <=> After(commands[k]) = "|"
          /\ commands[k].bg \in BOOLEAN
          /\ commands[k].bg <=> \/ After(commands[k]) = "&"
                               \/ /\ commands[k].out /\ k + 1 < length
                                  /\ After(commands[k+1]) = "&"
    BY <2>1 DEF Told, Made
  <2>8. \A k \in 0..length - 1 : commands[k].out =>
          IF k + 1 < length THEN commands[k+1].argv[1] = LastOf(commands[k]) + 2
          ELSE first = LastOf(commands[k]) + 2
    BY <2>1 DEF Told, Made
  <2>9. \A k \in 0..length : \/ k = length \/ k = length - 1
                             \/ k \in 0..length - 1 /\ k + 1 \in 0..length - 1
    BY <2>1
  <2>10. \A k \in 0..length : IsRun(commands'[k], commands'[k].argv[1], LastOf(commands'[k]))
    <3>1. \A k \in 0..length - 1 :
            IsRun(commands'[k], commands'[k].argv[1], LastOf(commands'[k]))
      <4> SUFFICES ASSUME NEW k \in 0..length - 1
                   PROVE  IsRun(commands'[k], commands'[k].argv[1], LastOf(commands'[k]))
        OBVIOUS
      <4>1. PICK p, e : p = commands[k].argv[1] /\ e = LastOf(commands[k])
        OBVIOUS
      <4>2. IsRun(commands[k], p, e)
        BY <2>7, <4>1
      <4>3. IsRun(commands'[k], p, e)
        BY <2>5, <4>2 DEF IsRun
      <4>4. p = commands'[k].argv[1] /\ e = LastOf(commands'[k])
        BY <2>5, <2>6, <4>1
      <4> QED BY <4>3, <4>4
    <3> QED BY <2>1, <2>2, <2>3, <2>9, <3>1
  <2>11. \A k \in 0..length :
           (commands'[k].out <=> After(commands'[k]) = "|") /\ commands'[k].bg \in BOOLEAN
    <3>1. \A k \in 0..length - 1 :
            (commands'[k].out <=> After(commands'[k]) = "|") /\ commands'[k].bg \in BOOLEAN
      BY <2>2, <2>5, <2>6, <2>7
    <3> QED BY <2>1, <2>2, <2>3, <2>9, <3>1
  <2>12. \A k \in 0..length :
           commands'[k].bg <=> \/ After(commands'[k]) = "&"
                               \/ /\ commands'[k].out /\ k + 1 < length + 1
                                  /\ After(commands'[k+1]) = "&"
    <3> SUFFICES ASSUME NEW k \in 0..length
                 PROVE  commands'[k].bg <=> \/ After(commands'[k]) = "&"
                                            \/ /\ commands'[k].out /\ k + 1 < length + 1
                                               /\ After(commands'[k+1]) = "&"
      OBVIOUS
    <3>1. CASE k = length
      <4>1. ~(k + 1 < length + 1)
        BY <2>1, <3>1
      <4> QED BY <2>2, <2>3, <3>1, <4>1
    <3>2. CASE k = length - 1
      <4>1. k \in 0..length - 1 /\ k + 1 = length /\ k + 1 < length + 1 /\ ~(k + 1 < length)
        BY <2>1, <3>2
      <4>2. commands[k].bg \in BOOLEAN /\ (commands[k].bg <=> After(commands[k]) = "&")
        BY <2>7, <4>1
      <4>3. k \in Marked <=> commands[k].out
        BY <2>1, <3>2, <4>1 DEF Marked
      <4>4. commands'[k].bg = IF c.bg /\ k \in Marked THEN TRUE ELSE commands[k].bg
        BY <2>2, <4>1
      <4>5. c.bg <=> After(commands'[k+1]) = "&"
        BY <2>2, <2>3, <4>1
      <4>6. commands'[k].out = commands[k].out /\ After(commands'[k]) = After(commands[k])
        BY <2>5, <2>6, <4>1
      <4> QED BY <4>1, <4>2, <4>3, <4>4, <4>5, <4>6
    <3>3. CASE k \in 0..length - 1 /\ k + 1 \in 0..length - 1
      <4>1. k \notin Marked /\ k + 1 < length /\ k + 1 < length + 1
        BY <2>1, <3>3 DEF Marked
      <4>2. commands'[k].bg = commands[k].bg
        BY <2>2, <3>3, <4>1
      <4>3. /\ commands'[k].out = commands[k].out /\ After(commands'[k]) = After(commands[k])
            /\ After(commands'[k+1]) = After(commands[k+1])
        BY <2>5, <2>6, <3>3
      <4>4. commands[k].bg <=> \/ After(commands[k]) = "&"
                               \/ /\ commands[k].out /\ k + 1 < length
                                  /\ After(commands[k+1]) = "&"
        BY <2>7, <3>3
      <4> QED BY <4>1, <4>2, <4>3, <4>4
    <3> QED BY <2>9, <3>1, <3>2, <3>3
  <2>13. \A k \in 0..length : commands'[k].out =>
           IF k + 1 < length + 1 THEN commands'[k+1].argv[1] = LastOf(commands'[k]) + 2
           ELSE first' = LastOf(commands'[k]) + 2
    <3> SUFFICES ASSUME NEW k \in 0..length, commands'[k].out
                 PROVE  IF k + 1 < length + 1
                        THEN commands'[k+1].argv[1] = LastOf(commands'[k]) + 2
                        ELSE first' = LastOf(commands'[k]) + 2
      OBVIOUS
    <3>1. CASE k = length
      BY <2>1, <2>2, <2>3, <3>1
    <3>2. CASE k = length - 1
      <4>1. k \in 0..length - 1 /\ k + 1 = length /\ k + 1 < length + 1 /\ ~(k + 1 < length)
        BY <2>1, <3>2
      <4> QED BY <2>2, <2>3, <2>5, <2>6, <2>8, <4>1
    <3>3. CASE k \in 0..length - 1 /\ k + 1 \in 0..length - 1
      <4>1. k + 1 < length /\ k + 1 < length + 1
        BY <2>1, <3>3
      <4> QED BY <2>5, <2>6, <2>8, <3>3, <4>1
    <3> QED BY <2>9, <3>1, <3>2, <3>3
  <2>14. i' <= Len(line) => ~IsPlain(first' - 1)
    BY <2>3, <2>4
  <2>15. Made' = 0..length
    BY <2>1 DEF Made
  <2>16. i' <= Len(line') => ~IsPlain(first - 1)'
    BY <2>1, <2>14 DEF IsPlain, Word
  <2>17. \A k \in Made' : IsRun(commands[k], commands[k].argv[1], LastOf(commands[k]))'
    BY <2>1, <2>10, <2>15 DEF IsRun, IsPlain, Word, LastOf
  <2>18. \A k \in Made' : /\ (commands[k].out <=> After(commands[k]) = "|")'
                         /\ (commands[k].bg \in BOOLEAN)'
    BY <2>1, <2>11, <2>15 DEF After, Word, LastOf
  <2>19. \A k \in Made' :
           (commands[k].bg <=> \/ After(commands[k]) = "&"
                               \/ /\ commands[k].out /\ k + 1 < length
                                  /\ After(commands[k+1]) = "&")'
    BY <2>1, <2>12, <2>15 DEF After, Word, LastOf
  <2>20. \A k \in Made' : commands'[k].out =>
           (IF k + 1 < length THEN commands[k+1].argv[1] = LastOf(commands[k]) + 2
            ELSE at = "parse" /\ first = LastOf(commands[k]) + 2)'
    BY <2>1, <2>13, <2>15 DEF LastOf
  <2> QED BY <2>16, <2>17, <2>18, <2>19, <2>20 DEF Told
<1>4. CASE ParseDone
  <2>1. i = Len(line) + 1 /\ at = "parse" /\ first <= i /\ Len(line) \in Nat
    BY <1>4, WordOK DEF ParseDone, Parsing, Shape
  <2>2. at' = "run" /\ UNCHANGED <<line, length, commands>>
    BY <1>4 DEF ParseDone
  <2>3. length > 0 => ~commands[length-1].out
    BY <2>1 DEF Vector, Parsing
  <2>4. \A k \in 0..length - 1 : k + 1 < length \/ (k = length - 1 /\ length > 0)
    BY DEF Shape
  <2> QED BY <2>1, <2>2, <2>3, <2>4 DEF Told, NoRedirection, Made, IsRun, IsPlain, After, Word
<1>5. CASE UNCHANGED vars
  BY <1>5 DEF vars, Told, Accepted, NoRedirection, Made, IsRun, IsPlain, After, Word
<1>6. Overrun \/ PipeError \/ RedirectError \/ LineDone \/ ReleaseTwice
        => at' \notin {"parse", "run"}
  BY DEF Overrun, PipeError, RedirectError, Fail, LineDone, ReleaseTwice
<1>7. Release => at' # "parse" /\ next' # 0
  BY DEF Release, Walks, Shape
<1> QED BY <1>1, <1>2, <1>3, <1>4, <1>5, <1>6, <1>7 DEF Next, Told, Accepted

-----------------------------------------------------------------------------
(* Theorems.                                                               *)

LEMMA InitOK == Init => IInv
<1> SUFFICES ASSUME Init PROVE IInv
  OBVIOUS
<1>1. line \in Seq(Words) /\ Len(line) = 0
  BY DEF Init
<1>2. Shape
  BY <1>1, MaxWordsAssumption DEF Init, Shape, Blank
<1> QED BY <1>2 DEF Init, IInv, Parsing, Vector, Walk, Walks, BreaksOnlyBy, Kept, Told,
               Accepted

\* No line, however long, breaks what make_cmdv() keeps of the words it has
\* passed and of the vector (parser.c:160-240, kcsh.c:145-215).
THEOREM CommandsInductive == Spec => []IInv
<1>1. IInv /\ [Next]_vars => IInv'
  BY ShapeKept, ParsingKept, VectorKept, WalkKept, BreaksKept, KeptKept, ToldKept DEF IInv
<1> QED BY InitOK, <1>1, PTL DEF Spec

\* Whatever is typed, every word of an accepted line is in one command, once and
\* in the order of the line, however many separators and file names make_cmdv()
\* jumps over.
THEOREM WordsCorrect == Spec => []WordsKept
<1>1. IInv => WordsKept
  <2> SUFFICES ASSUME IInv, Accepted
               PROVE  /\ \A j \in DOMAIN line :
                           IsPlain(j) => \E k \in Made : j \in Taken(commands[k])
                      /\ \A k \in Made : InOrder(commands[k])
                      /\ \A k, m \in Made : k < m => Before(commands[k], commands[m])
    BY DEF WordsKept, Before
  <2>1. i = Len(line) + 1 /\ Len(line) \in Nat /\ DOMAIN line = 1..Len(line)
    BY DEF IInv, Kept, Shape, Accepted
  <2>2. Passed - 1 = Len(line)
    BY <2>1 DEF Passed
  <2> QED BY <2>1, <2>2 DEF IInv, Kept
<1> QED BY CommandsInductive, <1>1, PTL

\* A run of words has one end, and what it means is told by the words behind it.
LEMMA EndOfRun ==
  ASSUME Shape, NEW c, NEW p, NEW e, IsRun(c, p, e)
  PROVE  End(p) = e /\ p \in Begins
<1>1. /\ Len(line) \in Nat /\ DOMAIN line = 1..Len(line)
      /\ p \in 1..Len(line) /\ e \in p..Len(line)
      /\ ~IsPlain(p - 1) /\ ~IsPlain(e + 1) /\ \A m \in p..e : IsPlain(m)
  BY DEF Shape, IsRun
<1> DEFINE Ends(x) == ~IsPlain(x + 1) /\ \A m \in p..x : IsPlain(m)
<1>2. ASSUME NEW x \in p..Len(line), Ends(x)
      PROVE  x = e
  <2>1. ~(x < e)
    <3>1. x < e => x + 1 \in p..e
      BY <1>1
    <3> QED BY <1>1, <1>2, <3>1
  <2>2. ~(e < x)
    <3>1. e < x => e + 1 \in p..x
      BY <1>1
    <3> QED BY <1>1, <1>2, <3>1
  <2> QED BY <1>1, <2>1, <2>2
<1>3. Ends(e)
  BY <1>1
<1>4. End(p) = CHOOSE x \in p..Len(line) : Ends(x)
  BY DEF End
<1> HIDE DEF Ends
<1>5. End(p) = e
  BY <1>1, <1>2, <1>3, <1>4
<1> QED BY <1>1, <1>5 DEF Begins

\* Where a run of words leads: to "&", to the next command of its pipeline, or
\* to no "&" at all.
LEMMA PipelineOfRun ==
  ASSUME Shape, NEW c, NEW p, NEW e, IsRun(c, p, e)
  PROVE  /\ Word(e + 1) = "&" => InBackground(p)
         /\ Word(e + 1) = "|" /\ InBackground(e + 2) => InBackground(p)
         /\ InBackground(p) => Word(e + 1) \in {"&", "|"}
<1>1. /\ Len(line) \in Nat /\ DOMAIN line = 1..Len(line)
      /\ p \in 1..Len(line) /\ e \in p..Len(line)
      /\ Word(e + 1) # Plain /\ \A m \in p..e : Word(m) = Plain
  BY DEF Shape, IsRun, IsPlain
<1>2. \A j : Word(j) # Nul => j \in 1..Len(line)
  BY <1>1 DEF Word
<1>3. ASSUME Word(e + 1) = "&"
      PROVE  InBackground(p)
  <2>1. e + 1 \in 1..Len(line)
    BY <1>2, <1>3 DEF Nul
  <2>2. e + 1 \in p + 1..Len(line)
    BY <1>1, <2>1
  <2>3. \A m \in p..(e + 1) - 1 : Word(m) \in {Plain, "|"}
    BY <1>1
  <2> QED BY <1>3, <2>2, <2>3 DEF InBackground
<1>4. ASSUME Word(e + 1) = "|", InBackground(e + 2)
      PROVE  InBackground(p)
  <2>1. PICK a \in e + 2 + 1..Len(line) :
          Word(a) = "&" /\ \A m \in e + 2..a - 1 : Word(m) \in {Plain, "|"}
    BY <1>4 DEF InBackground
  <2>2. a \in p + 1..Len(line)
    BY <1>1, <2>1
  <2>3. ASSUME NEW m \in p..a - 1
        PROVE  Word(m) \in {Plain, "|"}
    <3>1. m \in p..e \/ m = e + 1 \/ m \in e + 2..a - 1
      BY <1>1, <2>1, <2>3
    <3> QED BY <1>1, <1>4, <2>1, <3>1
  <2> QED BY <2>1, <2>2, <2>3 DEF InBackground
<1>5. ASSUME InBackground(p)
      PROVE  Word(e + 1) \in {"&", "|"}
  <2>1. PICK a \in p + 1..Len(line) :
          Word(a) = "&" /\ \A m \in p..a - 1 : Word(m) \in {Plain, "|"}
    BY <1>5 DEF InBackground
  <2>2. ~(a <= e)
    <3>1. a <= e => a \in p..e
      BY <1>1, <2>1
    <3> QED BY <1>1, <2>1, <3>1 DEF Plain
  <2>3. CASE a = e + 1
    BY <2>1, <2>3
  <2>4. CASE a > e + 1
    <3>1. e + 1 \in p..a - 1
      BY <1>1, <2>1, <2>4
    <3> QED BY <1>1, <2>1, <3>1
  <2> QED BY <1>1, <2>1, <2>2, <2>3, <2>4
<1> QED BY <1>3, <1>4, <1>5

\* Whatever is typed without redirections, an accepted line has one command for
\* each run of words, with the pipe that the separator behind it makes; one that
\* is in the background has "&" at the end of its pipeline, and the last of a
\* pipeline that ends so is in the background.
THEOREM MeaningCorrect == Spec => []ParsedAsMeant
<1>1. IInv => ParsedAsMeant
  <2> SUFFICES ASSUME IInv, Accepted, \A j \in DOMAIN line : Word(j) \notin {">", "<"}
               PROVE  /\ \A k \in Made :
                           LET c == commands[k]
                               p == c.argv[1]
                           IN  /\ p \in Begins
                               /\ c.argv = [a \in 1..End(p) - p + 1 |-> p + a - 1]
                               /\ c.out = (Word(End(p) + 1) = "|")
                               /\ c.bg => InBackground(p)
                               /\ ~c.out /\ InBackground(p) => c.bg
                      /\ \A p \in Begins : \E k \in Made : commands[k].argv[1] = p
                      /\ \A k, m \in Made : k < m => commands[k].argv[1] < commands[m].argv[1]
    BY DEF ParsedAsMeant
  <2>1. /\ Shape /\ Len(line) \in Nat /\ length \in Nat /\ length <= MaxWords
        /\ DOMAIN line = 1..Len(line) /\ at = "run" /\ i = Len(line) + 1
    BY DEF IInv, Shape, Accepted, Kept
  <2>2. NoRedirection
    BY <2>1 DEF NoRedirection
  <2>3. ASSUME NEW k \in Made
        PROVE  /\ IsRun(commands[k], commands[k].argv[1], LastOf(commands[k]))
               /\ commands[k].out <=> After(commands[k]) = "|"
               /\ commands[k].bg \in BOOLEAN
               /\ commands[k].bg <=> \/ After(commands[k]) = "&"
                                    \/ /\ commands[k].out /\ k + 1 < length
                                       /\ After(commands[k+1]) = "&"
               /\ commands[k].out =>
                    /\ k + 1 < length
                    /\ commands[k+1].argv[1] = LastOf(commands[k]) + 2
    BY <2>1, <2>2, <2>3 DEF IInv, Told
  <2>4. ASSUME NEW k \in Made
        PROVE  commands[k].out \in BOOLEAN
    BY <2>1, <2>4, MaxWordsAssumption DEF Made, Shape
  <2>5. ASSUME NEW k \in Made
        PROVE  LET c == commands[k]
                   p == c.argv[1]
               IN  /\ c.argv = [a \in 1..End(p) - p + 1 |-> p + a - 1]
                   /\ c.out = (Word(End(p) + 1) = "|")
                   /\ c.bg => InBackground(p)
                   /\ ~c.out /\ InBackground(p) => c.bg
    <3> DEFINE c == commands[k]
               p == c.argv[1]
               e == LastOf(c)
    <3>1. IsRun(c, p, e)
      BY <2>3
    <3>2. End(p) = e
      BY <2>1, <3>1, EndOfRun
    <3>3. c.argv = [a \in 1..e - p + 1 |-> p + a - 1]
      BY <3>1 DEF IsRun
    <3>4. c.out = (Word(e + 1) = "|")
      <4>1. c.out <=> Word(e + 1) = "|"
        BY <2>3 DEF After
      <4> QED BY <2>4, <4>1, Zenon
    <3>5. c.bg => InBackground(p)
      <4>1. CASE Word(e + 1) = "&"
        BY <2>1, <3>1, <4>1, PipelineOfRun
      <4>2. CASE c.out /\ k + 1 < length /\ After(commands[k+1]) = "&"
        <5>1. commands[k+1].argv[1] = e + 2 /\ k + 1 \in Made
          BY <2>1, <2>3, <4>2 DEF Made
        <5>2. IsRun(commands[k+1], e + 2, LastOf(commands[k+1]))
          BY <2>3, <5>1
        <5>3. InBackground(e + 2)
          BY <2>1, <4>2, <5>2, PipelineOfRun DEF After
        <5>4. Word(e + 1) = "|"
          BY <3>4, <4>2
        <5> QED BY <2>1, <3>1, <5>3, <5>4, PipelineOfRun
      <4> QED BY <2>3, <4>1, <4>2 DEF After
    <3>6. ~c.out /\ InBackground(p) => c.bg
      <4>1. SUFFICES ASSUME ~c.out, InBackground(p)
                     PROVE  Word(e + 1) = "&"
        BY <2>3 DEF After
      <4>2. Word(e + 1) # "|"
        BY <3>4, <4>1
      <4> QED BY <2>1, <3>1, <4>1, <4>2, PipelineOfRun
    <3> QED BY <3>2, <3>3, <3>4, <3>5, <3>6
  <2>6. ASSUME NEW k \in Made
        PROVE  commands[k].argv[1] \in Begins
    BY <2>1, <2>3, EndOfRun
  <2>7. ASSUME NEW k \in Made
        PROVE  \A j \in Begins \cap Taken(commands[k]) : j = commands[k].argv[1]
    <3> DEFINE c == commands[k]
    <3>1. PICK p, e : IsRun(c, p, e) /\ p = c.argv[1]
      BY <2>3
    <3> HIDE DEF c
    <3>2. /\ c.argv = [a \in 1..e - p + 1 |-> p + a - 1]
          /\ c.rfile = NoFile /\ c.rifile = NoFile /\ \A m \in p..e : IsPlain(m)
          /\ p \in 1..Len(line) /\ e \in p..Len(line)
      BY <3>1, Zenon DEF IsRun
    <3>3. p \in Int /\ e \in Int
      BY <2>1, <3>2
    <3>4. Taken(c) = {c.argv[a] : a \in DOMAIN c.argv}
      BY <3>2 DEF Taken
    <3>5. Taken(c) \subseteq p..e
      BY <3>2, <3>4, <3>3
    <3>6. ASSUME NEW j \in Begins, j \in p..e
          PROVE  j = p
      <4>1. j > p => j - 1 \in p..e
        BY <3>6, <3>3
      <4> QED BY <3>2, <3>6, <3>3, <4>1 DEF Begins
    <3>7. \A j \in Begins \cap Taken(c) : j = p
      BY <3>5, <3>6
    <3> QED BY <3>1, <3>7 DEF c
  <2>8. ASSUME NEW p \in Begins
        PROVE  \E k \in Made : commands[k].argv[1] = p
    <3>1. p \in 1..Passed - 1 /\ IsPlain(p)
      BY <2>1, <2>8 DEF Begins, Passed
    <3>2. PICK k \in Made : p \in Taken(commands[k])
      BY <2>1, <3>1 DEF IInv, Kept
    <3> QED BY <2>7, <2>8, <3>2
  <2>9. ASSUME NEW k \in Made, NEW m \in Made, k < m
        PROVE  commands[k].argv[1] < commands[m].argv[1]
    <3>1. Before(commands[k], commands[m])
      BY <2>9 DEF IInv, Kept
    <3>2. ASSUME NEW n \in Made
          PROVE  commands[n].argv[1] \in Taken(commands[n])
      <4>1. PICK p, e : IsRun(commands[n], p, e)
        BY <2>3, <3>2
      <4>2. 1 \in DOMAIN commands[n].argv
        BY <2>1, <4>1 DEF IsRun
      <4> QED BY <4>2 DEF Taken
    <3> QED BY <3>1, <3>2 DEF Before
  <2> QED BY <2>5, <2>6, <2>8, <2>9
<1> QED BY CommandsInductive, <1>1, PTL

\* Whatever is typed, when the first command of an accepted line is about to be
\* run, the vector is commands up to a NULL and both ends of every pipe have a
\* command.
THEOREM PipesCorrect == Spec => []PipesPaired
<1>1. IInv => PipesPaired
  <2> SUFFICES ASSUME IInv, Accepted
               PROVE  /\ commands[length].is = "null"
                      /\ \A k \in Made : commands[k].is = "cmd"
                      /\ \A k \in Made : commands[k].in = (k > 0 /\ commands[k-1].out)
                      /\ length > 0 => ~commands[length-1].out
    BY DEF PipesPaired
  <2>1. /\ commands[length].is = "null"
        /\ \A k \in Made : /\ commands[k].is = "cmd"
                           /\ commands[k].in <=> (k > 0 /\ commands[k-1].out)
        /\ length > 0 => ~commands[length-1].out
    BY DEF IInv, Vector, Accepted, Made
  <2>2. ASSUME NEW k \in Made
        PROVE  commands[k].in = (k > 0 /\ commands[k-1].out)
    <3>1. length <= MaxWords /\ length \in Nat /\ MaxWords \in Nat /\ k \in 0..MaxWords
      BY <2>2, MaxWordsAssumption DEF IInv, Shape, Made
    <3>2. commands[k].in \in BOOLEAN
      BY <3>1 DEF IInv, Shape
    <3>3. k > 0 => commands[k-1].out \in BOOLEAN
      BY <3>1 DEF IInv, Shape
    <3>4. commands[k].in <=> (k > 0 /\ commands[k-1].out)
      BY <2>1
    <3> QED BY <3>2, <3>3, <3>4, Zenon
  <2> QED BY <2>1, <2>2
<1> QED BY CommandsInductive, <1>1, PTL

\* Whatever is typed, memory is misused only by a line that begins with a
\* separator or that ends where a file name is missing.
THEOREM BreaksCorrect == Spec => []BreaksOnlyBy
<1>1. IInv => BreaksOnlyBy
  BY DEF IInv
<1> QED BY CommandsInductive, <1>1, PTL
=============================================================================
