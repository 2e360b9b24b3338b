--------------------------- MODULE ShellPartsProofs ---------------------------
(***************************************************************************)
(* Proofs about two parts of lab4's shell that share nothing: get_line()   *)
(* of lab4/io.c keeps the screen up to date and edits a text at a cursor,  *)
(* and the job table of lab4/job.c keeps the promise of lab4/job.h, for    *)
(* every buffer, directory, first capacity and number of keys or calls.    *)
(***************************************************************************)
EXTENDS LineEditor, JobTable, SequenceTheorems, WellFoundedInduction, TLAPS

(***************************************************************************)
(* The line editor: the inductive invariant.                               *)
(***************************************************************************)

Cell   == Chars \cup {NUL}
Memory == [Indices -> Cell]

\* A set of places that is not empty has a first one.
LEMMA LeastPlace ==
  ASSUME NEW I \in SUBSET Nat, I # {}
  PROVE  \E x \in I : \A y \in I : x <= y
<1>1. PICK x \in I : \A y \in I : <<y, x>> \notin OpToRel(<, Nat)
  BY WFMin, NatLessThanWellFounded, Zenon
<1>2. \A y \in I : ~ (y < x)
  BY <1>1, Zenon DEF OpToRel
<1>3. \A y \in I : x <= y
  BY <1>2
<1> QED BY <1>3, Zenon

\* Max, on a set of places of a text, is its last place.
LEMMA GreatestPlace ==
  ASSUME NEW n \in Nat, NEW I \in SUBSET (1..n), I # {}
  PROVE  Max(I) \in I /\ \A y \in I : y <= Max(I)
<1> DEFINE J == {n - y : y \in I}
<1>1. J \in SUBSET Nat /\ J # {}
  <2>1. PICK x \in I : TRUE
    OBVIOUS
  <2>2. n - x \in J
    BY <2>1
  <2>3. \A y \in I : n - y \in Nat
    OBVIOUS
  <2> QED BY <2>2, <2>3
<1>2. PICK x \in J : \A y \in J : x <= y
  BY <1>1, LeastPlace
<1>3. PICK z \in I : x = n - z
  BY <1>2
<1>4. \A y \in I : z >= y
  BY <1>2, <1>3
<1>5. Max(I) \in I /\ \A y \in I : Max(I) >= y
  BY <1>3, <1>4 DEF Max
<1> QED BY <1>5

\* From every place a string can be read: the last place of the buffer is NUL.
LEMMA StringEnds ==
  ASSUME NEW mem \in Memory, NEW from \in Indices, mem[Size - 1] = NUL
  PROVE  /\ StrLen(mem, from) \in Nat /\ from + StrLen(mem, from) \in Indices
         /\ mem[from + StrLen(mem, from)] = NUL
         /\ \A i \in from..(from + StrLen(mem, from) - 1) : mem[i] \in Chars
<1> DEFINE I == {i \in from..(Size - 1) : mem[i] = NUL}
<1>1. from \in Nat /\ Size - 1 \in from..(Size - 1) /\ from..(Size - 1) \subseteq Indices
      /\ from..(Size - 1) \subseteq Nat /\ Size - 1 \in Nat
  BY SizeAssumption DEF Indices
<1>2. I \in SUBSET Nat /\ I # {}
  BY <1>1
<1>3. Min(I) \in I /\ \A i \in I : Min(I) <= i
  <2>1. \E x \in I : \A y \in I : x <= y
    BY <1>2, LeastPlace
  <2> QED BY <2>1 DEF Min
<1>4. PICK e : e = Min(I)
  OBVIOUS
<1>5. StrLen(mem, from) = e - from
  BY <1>4 DEF StrLen
<1>6. /\ e \in from..(Size - 1) /\ mem[e] = NUL
      /\ \A i \in from..(Size - 1) : mem[i] = NUL => e <= i
  BY <1>3, <1>4
<1>7. StrLen(mem, from) \in Nat /\ from + StrLen(mem, from) = e
  BY <1>1, <1>5, <1>6
<1>8. ASSUME NEW i \in from..(e - 1)
      PROVE  mem[i] \in Chars
  <2>1. i \in from..(Size - 1) /\ i < e /\ i \in Indices
    BY <1>1, <1>6
  <2> QED BY <2>1, <1>1, <1>6 DEF Memory, Cell
<1> QED BY <1>1, <1>6, <1>7, <1>8

\* A string ends at the first NUL.
LEMMA StringLength ==
  ASSUME NEW mem \in Memory, NEW from \in Indices, NEW e \in from..(Size - 1), mem[Size - 1] = NUL,
         \A i \in from..(e - 1) : mem[i] \in Chars
  PROVE  /\ e <= from + StrLen(mem, from)
         /\ mem[e] = NUL <=> StrLen(mem, from) = e - from
<1> DEFINE n == StrLen(mem, from)
<1>1. from \in Nat /\ e \in Nat /\ e <= Size - 1 /\ from <= e
  BY SizeAssumption DEF Indices
<1>2. n \in Nat /\ from + n \in Indices /\ mem[from + n] = NUL
      /\ \A i \in from..(from + n - 1) : mem[i] \in Chars
  BY StringEnds
<1> HIDE DEF n
<1>3. e <= from + n
  <2> SUFFICES ASSUME from + n < e PROVE FALSE
    BY <1>1, <1>2
  <2>1. from + n \in from..(e - 1)
    BY <1>1, <1>2
  <2> QED BY <1>2, <2>1, CharsAssumption
<1>4. ASSUME mem[e] = NUL PROVE n = e - from
  <2> SUFFICES ASSUME e < from + n PROVE FALSE
    BY <1>1, <1>2, <1>3
  <2>1. e \in from..(from + n - 1)
    BY <1>1, <1>2
  <2> QED BY <1>2, <1>4, <2>1, CharsAssumption
<1>5. ASSUME n = e - from PROVE mem[e] = NUL
  <2>1. from + n = e
    BY <1>1, <1>2, <1>5
  <2> QED BY <1>2, <2>1
<1> QED BY <1>3, <1>4, <1>5 DEF n

-----------------------------------------------------------------------------
\* The buffer: characters as far as the line goes, a NUL in the last place, and
\* room for two more behind the line.  The line need not be terminated.
Shape ==
  /\ line \in Memory /\ line[Size - 1] = NUL
  /\ length \in Nat /\ pos \in 0..length /\ length + 2 <= Size
  /\ \A i \in 0..(length - 1) : line[i] \in Chars
  /\ comp_pos \in Nat

\* The row that shows n characters.
RowOf(mem, n) == [i \in Columns |-> IF i < n THEN mem[i] ELSE Blank]

\* A row that is followed shows a line that is terminated, and its cursor.
Row ==
  /\ followed \in BOOLEAN
  /\ followed => line[length] = NUL /\ screen = RowOf(line, length) /\ col = pos

\* Between two lines there is no text.
Rests == call = "returned" => length = 0

IInv == Shape /\ Row /\ Rests

\* What the shape of the buffer says of the numbers in it.
LEMMA ShapeFacts ==
  ASSUME Shape
  PROVE  /\ Size \in Nat /\ length \in Nat /\ pos \in Nat /\ pos <= length /\ length + 2 <= Size
         /\ pos \in Indices /\ length \in Indices /\ 0 \in Indices /\ Size - 1 \in Indices
         /\ \A i \in Nat : i < length => i \in Indices /\ line[i] \in Chars
BY SizeAssumption DEF Shape, Indices

\* Printing keeps the row right when it prints what the line has become.
LEMMA ShowsOK ==
  ASSUME NEW row, NEW c, Shows(row, c),
         followed /\ line'[length'] = NUL => row = RowOf(line', length') /\ c = pos'
  PROVE  Row'
BY DEF Shows, Row

\* A character typed at the end keeps the buffer in shape; whether a terminator
\* follows it is left open.
LEMMA TypeLastShape ==
  ASSUME Shape, NEW ch \in Chars, TypeLast(ch)
  PROVE  Shape'
<1>1. /\ line' = [line EXCEPT ![length] = ch] /\ pos = length /\ pos' = length + 1
      /\ length' = length + 1 /\ comp_pos' = comp_pos /\ length + 2 < Size
      /\ Shows(Printed(screen, col, <<ch>>), col + 1)
  BY DEF TypeLast, Room
<1>2. /\ line'[length] = ch /\ line' \in Memory
      /\ \A i \in Indices : i # length => line'[i] = line[i]
  BY <1>1, ShapeFacts DEF Shape, Memory, Cell
<1>3. Shape'
  <2>1. line'[Size - 1] = NUL
    BY <1>1, <1>2, ShapeFacts DEF Shape
  <2>2. ASSUME NEW i \in 0..length PROVE line'[i] \in Chars
    BY <1>2, ShapeFacts
  <2> QED BY <1>1, <1>2, <2>1, <2>2, ShapeFacts DEF Shape
<1> QED BY <1>3

\* A character typed at the end is shown, if the text is still terminated.
LEMMA TypeLastKeeps ==
  ASSUME Shape, Row, NEW ch \in Chars, TypeLast(ch)
  PROVE  Shape' /\ Row'
<1>1. /\ line' = [line EXCEPT ![length] = ch] /\ pos = length /\ pos' = length + 1
      /\ length' = length + 1 /\ comp_pos' = comp_pos /\ length + 2 < Size
      /\ Shows(Printed(screen, col, <<ch>>), col + 1)
  BY DEF TypeLast, Room
<1>2. /\ line'[length] = ch /\ line' \in Memory
      /\ \A i \in Indices : i # length => line'[i] = line[i]
  BY <1>1, ShapeFacts DEF Shape, Memory, Cell
<1>3. Shape'
  BY TypeLastShape
<1>4. ASSUME followed PROVE Printed(screen, col, <<ch>>) = RowOf(line', length') /\ col + 1 = pos'
  <2>1. screen = RowOf(line, length) /\ col = length
    BY <1>1, <1>4 DEF Row
  <2>2. ASSUME NEW i \in Columns
        PROVE  Printed(screen, col, <<ch>>)[i] = IF i < length + 1 THEN line'[i] ELSE Blank
    <3>1. i \in Nat
      BY SizeAssumption DEF Columns
    <3>2. CASE i = length
      BY <1>2, <2>1, <3>1, <3>2, ShapeFacts DEF Printed
    <3>3. CASE i < length
      BY <1>2, <2>1, <3>1, <3>3, ShapeFacts DEF Printed, RowOf
    <3>4. CASE i > length
      BY <1>2, <2>1, <3>1, <3>4, ShapeFacts DEF Printed, RowOf
    <3> QED BY <3>1, <3>2, <3>3, <3>4, ShapeFacts
  <2> QED BY <1>1, <2>1, <2>2 DEF RowOf, Printed
<1> QED BY <1>1, <1>3, <1>4, ShowsOK

\* Characters of a stretch of memory, as a sequence.
LEMMA Stretch ==
  ASSUME NEW mem \in Memory, NEW from \in Nat, NEW n \in Nat,
         \A i \in from..(from + n - 1) : mem[i] \in Chars
  PROVE  /\ StrNAt(mem, from, n) \in Seq(Chars) /\ Len(StrNAt(mem, from, n)) = n
         /\ \A i \in 1..n : StrNAt(mem, from, n)[i] = mem[from + i - 1]
<1>1. ASSUME NEW i \in 1..n PROVE mem[from + i - 1] \in Chars
  BY from + i - 1 \in from..(from + n - 1)
<1> QED BY <1>1 DEF StrNAt

\* The string at from, when it is known where it ends.
LEMMA WholeString ==
  ASSUME NEW mem \in Memory, NEW from \in Indices, NEW e \in from..(Size - 1), mem[Size - 1] = NUL,
         \A i \in from..(e - 1) : mem[i] \in Chars, mem[e] = NUL
  PROVE  /\ StrAt(mem, from) \in Seq(Chars) /\ Len(StrAt(mem, from)) = e - from
         /\ \A i \in 1..(e - from) : StrAt(mem, from)[i] = mem[from + i - 1]
<1>1. StrLen(mem, from) = e - from
  BY StringLength
<1>2. PICK n \in Nat : n = e - from /\ from + n - 1 = e - 1 /\ from \in Nat
  BY SizeAssumption DEF Indices
<1>3. StrAt(mem, from) = StrNAt(mem, from, n)
  BY <1>1, <1>2 DEF StrAt
<1>4. \A i \in from..(from + n - 1) : mem[i] \in Chars
  BY <1>2
<1>5. /\ StrNAt(mem, from, n) \in Seq(Chars) /\ Len(StrNAt(mem, from, n)) = n
      /\ \A i \in 1..n : StrNAt(mem, from, n)[i] = mem[from + i - 1]
  BY <1>2, <1>4, Stretch
<1> QED BY <1>2, <1>3, <1>5

\* Two rows are the same when their places are.
LEMMA PrintedRow ==
  ASSUME NEW row, NEW c, NEW s, NEW mem, NEW n,
         \A i \in Columns : (IF i \in c..(c + Len(s) - 1) THEN s[i - c + 1] ELSE row[i])
                              = IF i < n THEN mem[i] ELSE Blank
  PROVE  Printed(row, c, s) = RowOf(mem, n)
BY DEF Printed, RowOf

\* The row on the screen, place by place.
LEMMA RowFacts ==
  ASSUME Row, followed
  PROVE  /\ line[length] = NUL /\ col = pos
         /\ \A i \in Columns : screen[i] = IF i < length THEN line[i] ELSE Blank
BY DEF Row, RowOf

\* A character typed inside the line moves what was behind it one place on.
LEMMA TypeInsideText ==
  ASSUME Shape, NEW ch \in Chars, TypeInside(ch)
  PROVE  /\ Shape' /\ pos < length /\ pos' = pos + 1 /\ length' = length + 1
         /\ line'[pos] = ch /\ \A i \in Nat : i < pos => line'[i] = line[i]
         /\ \A i \in Nat : pos < i /\ i <= length => line'[i] = line[i - 1]
         /\ line'[length'] = NUL <=> line[length] = NUL
<1> DEFINE end == pos + StrLen(line, pos)
<1>1. /\ line' = [StrShr(line, pos) EXCEPT ![pos] = ch] /\ pos # length /\ pos' = pos + 1
      /\ length' = length + 1 /\ comp_pos' = comp_pos /\ length + 2 < Size /\ StrLen(line, 0) + 2 < Size
  BY DEF TypeInside, Room
<1>2. /\ pos \in Indices /\ 0 \in Indices /\ length \in pos..(Size - 1) /\ pos \in 0..(Size - 1)
      /\ line \in Memory /\ line[Size - 1] = NUL
      /\ \A i \in pos..(length - 1) : line[i] \in Chars
      /\ \A i \in 0..(pos - 1) : line[i] \in Chars
  BY ShapeFacts DEF Shape
<1>3. /\ StrLen(line, pos) \in Nat /\ end \in Indices /\ line[end] = NUL
      /\ \A i \in pos..(end - 1) : line[i] \in Chars
  BY <1>2, StringEnds
<1>4. length <= end /\ (line[length] = NUL <=> StrLen(line, pos) = length - pos)
  BY <1>2, StringLength
<1> HIDE DEF end
<1>5. end = StrLen(line, 0)
  <2>1. end \in 0..(Size - 1) /\ 0 \in Indices /\ end - 0 = end
    BY <1>2, <1>3 DEF Indices
  <2>2. ASSUME NEW i \in 0..(end - 1) PROVE line[i] \in Chars
    <3>1. i < pos \/ i \in pos..(end - 1)
      BY <1>2, <2>1, ShapeFacts
    <3> QED BY <1>2, <1>3, <3>1, ShapeFacts
  <2>3. line[end] = NUL <=> StrLen(line, 0) = end - 0
    BY <1>2, <2>1, <2>2, StringLength
  <2> QED BY <1>3, <2>1, <2>3
<1>6. end \in Nat /\ end + 2 < Size /\ pos \in Nat /\ Size \in Nat /\ pos < length /\ length \in Nat
  BY <1>1, <1>3, <1>5, ShapeFacts DEF Indices
<1>7. line' = [i \in Indices |-> IF i = pos THEN ch ELSE IF i = end + 1 THEN NUL
                                 ELSE IF i \in (pos + 1)..end THEN line[i - 1] ELSE line[i]]
  BY <1>1, <1>2 DEF StrShr, end
<1>8. /\ line'[pos] = ch /\ line'[end + 1] = NUL /\ line'[Size - 1] = NUL
      /\ \A i \in Nat : i < pos => line'[i] = line[i]
      /\ \A i \in Nat : pos < i /\ i <= end => line'[i] = line[i - 1]
  <2>1. /\ pos \in Indices /\ end + 1 \in Indices /\ Size - 1 \in Indices
        /\ end + 1 # pos /\ Size - 1 # pos /\ Size - 1 # end + 1 /\ Size - 1 \notin (pos + 1)..end
        /\ \A i \in Nat : i <= end => i \in Indices
    BY <1>4, <1>6 DEF Indices
  <2>2. line'[pos] = ch /\ line'[end + 1] = NUL /\ line'[Size - 1] = NUL
    BY <1>2, <1>7, <2>1
  <2>3. ASSUME NEW i \in Nat, i < pos PROVE line'[i] = line[i]
    <3>1. i \in Indices /\ i # pos /\ i # end + 1 /\ i \notin (pos + 1)..end
      BY <1>3, <1>6, <2>1, <2>3 DEF end
    <3> QED BY <1>7, <3>1
  <2>4. ASSUME NEW i \in Nat, pos < i, i <= end PROVE line'[i] = line[i - 1]
    <3>1. i \in Indices /\ i # pos /\ i # end + 1 /\ i \in (pos + 1)..end
      BY <1>6, <2>1, <2>4
    <3> QED BY <1>7, <3>1
  <2> QED BY <2>2, <2>3, <2>4
<1>9. line' \in Memory
  <2>1. ASSUME NEW i \in Indices
        PROVE (IF i = pos THEN ch ELSE IF i = end + 1 THEN NUL
               ELSE IF i \in (pos + 1)..end THEN line[i - 1] ELSE line[i]) \in Cell
    <3>1. i \in (pos + 1)..end => i - 1 \in Indices
      BY <1>6 DEF Indices
    <3> QED BY <1>2, <3>1 DEF Memory, Cell
  <2> QED BY <1>7, <2>1 DEF Memory
<1>10. \A i \in 0..length : line'[i] \in Chars
  <2> SUFFICES ASSUME NEW i \in 0..length PROVE line'[i] \in Chars
    OBVIOUS
  <2>1. CASE i < pos
    BY <1>2, <1>6, <1>8, <2>1
  <2>2. CASE i = pos
    BY <1>8, <2>2
  <2>3. CASE i > pos
    <3>1. i - 1 \in pos..(length - 1) /\ i <= end
      BY <1>4, <1>6, <2>3
    <3> QED BY <1>2, <1>6, <1>8, <2>3, <3>1
  <2> QED BY <1>6, <2>1, <2>2, <2>3
<1>11. Shape'
  BY <1>1, <1>6, <1>8, <1>9, <1>10, ShapeFacts DEF Shape
<1>12. line'[length'] = NUL <=> line[length] = NUL
  <2>1. CASE end = length
    BY <1>1, <1>3, <1>8, <2>1
  <2>2. CASE end # length
    <3>1. pos < length + 1 /\ length + 1 <= end /\ length + 1 - 1 = length
      BY <1>4, <1>6, <2>2
    <3> QED BY <1>1, <1>6, <1>8, <3>1
  <2> QED BY <2>1, <2>2
<1> QED BY <1>1, <1>4, <1>6, <1>8, <1>11, <1>12

\* What is printed then brings the row up to date.
LEMMA TypeInsideKeeps ==
  ASSUME Shape, Row, NEW ch \in Chars, TypeInside(ch)
  PROVE  Shape' /\ Row'
<1> DEFINE tail == StrAt(line', pos)
<1>1. Shows(Printed(screen, col, tail), col + Len(tail) - (length - pos))
  BY DEF TypeInside
<1>2. /\ Shape' /\ pos < length /\ pos' = pos + 1 /\ length' = length + 1
      /\ line'[pos] = ch /\ \A i \in Nat : i < pos => line'[i] = line[i]
  BY TypeInsideText
<1>3. ASSUME followed, line'[length'] = NUL
      PROVE  /\ Printed(screen, col, tail) = RowOf(line', length')
             /\ col + Len(tail) - (length - pos) = pos'
  <2>0. PICK mem : mem = line'
    OBVIOUS
  <2>1. PICK e \in Nat : e = length + 1
    BY ShapeFacts
  <2>2. /\ mem \in Memory /\ pos \in Indices /\ e \in pos..(Size - 1) /\ mem[Size - 1] = NUL
        /\ \A i \in pos..(e - 1) : mem[i] \in Chars
        /\ mem[e] = NUL
    BY <1>2, <1>3, <2>0, <2>1, ShapeFacts DEF Shape, Indices
  <2>3. Len(tail) = e - pos /\ \A i \in 1..(e - pos) : tail[i] = mem[pos + i - 1]
    BY <2>0, <2>2, WholeString, Zenon
  <2> HIDE DEF tail
  <2>4. ASSUME NEW i \in Columns
        PROVE  (IF i \in pos..(pos + Len(tail) - 1) THEN tail[i - pos + 1] ELSE screen[i])
                 = IF i < e THEN mem[i] ELSE Blank
    <3>1. i \in Nat /\ e = length + 1 /\ mem = line' /\ pos \in Nat /\ length \in Nat /\ pos <= length
      BY <2>0, <2>1, ShapeFacts DEF Columns
    <3>2. CASE i < pos
      BY <1>2, <1>3, <2>3, <3>1, <3>2, RowFacts
    <3>3. CASE i \in pos..length
      <4>1. i - pos + 1 \in 1..(e - pos) /\ pos + (i - pos + 1) - 1 = i
            /\ i \in pos..(pos + Len(tail) - 1)
        BY <2>3, <3>1, <3>3
      <4>2. tail[i - pos + 1] = mem[i]
        BY <2>3, <4>1
      <4> QED BY <3>1, <3>3, <4>1, <4>2
    <3>4. CASE i > length
      BY <1>3, <2>3, <3>1, <3>4, RowFacts
    <3> QED BY <3>1, <3>2, <3>3, <3>4
  <2>5. col = pos
    BY <1>3, RowFacts
  <2>6. Printed(screen, pos, tail) = RowOf(mem, e)
    BY <2>4, PrintedRow
  <2>7. col + Len(tail) - (length - pos) = pos + 1
    BY <2>1, <2>3, <2>5, ShapeFacts
  <2> QED BY <1>2, <2>0, <2>1, <2>5, <2>6, <2>7
<1> QED BY <1>1, <1>2, <1>3, ShowsOK

\* The last character of the line is replaced by the terminator.
LEMMA EraseLastShape ==
  ASSUME Shape, EraseLast
  PROVE  Shape'
<1>1. /\ line' = [line EXCEPT ![length - 1] = NUL] /\ pos = length /\ pos' = length - 1
      /\ length' = length - 1 /\ comp_pos' = comp_pos /\ length > 0
      /\ Shows(Printed(screen, col - 1, <<Blank>>), col - 1)
  BY ShapeFacts DEF EraseLast
<1>2. length - 1 \in Nat /\ length - 1 \in Indices /\ Size - 1 # length - 1
  BY <1>1, ShapeFacts DEF Indices
<1>3. /\ line' \in Memory /\ line'[Size - 1] = NUL
      /\ \A i \in Indices : i # length - 1 => line'[i] = line[i]
  BY <1>1, <1>2, ShapeFacts DEF Shape, Memory, Cell
<1>4. Shape'
  <2>1. ASSUME NEW i \in 0..(length - 1 - 1) PROVE line'[i] \in Chars
    BY <1>2, <1>3, ShapeFacts
  <2> QED BY <1>1, <1>2, <1>3, <2>1, ShapeFacts DEF Shape
<1> QED BY <1>4

\* The blank printed over it brings the row up to date.
LEMMA EraseLastKeeps ==
  ASSUME Shape, Row, EraseLast
  PROVE  Shape' /\ Row'
<1>1. /\ line' = [line EXCEPT ![length - 1] = NUL] /\ pos = length /\ pos' = length - 1
      /\ length' = length - 1 /\ comp_pos' = comp_pos /\ length > 0
      /\ Shows(Printed(screen, col - 1, <<Blank>>), col - 1)
  BY ShapeFacts DEF EraseLast
<1>2. length - 1 \in Nat /\ length - 1 \in Indices /\ Size - 1 # length - 1
  BY <1>1, ShapeFacts DEF Indices
<1>3. /\ line' \in Memory /\ line'[Size - 1] = NUL
      /\ \A i \in Indices : i # length - 1 => line'[i] = line[i]
  BY <1>1, <1>2, ShapeFacts DEF Shape, Memory, Cell
<1>4. Shape'
  BY EraseLastShape
<1>5. ASSUME followed
      PROVE Printed(screen, col - 1, <<Blank>>) = RowOf(line', length - 1) /\ col - 1 = pos'
  <2>1. PICK b : b = <<Blank>> /\ Len(b) = 1 /\ b[1] = Blank
    <3>1. Len(<<Blank>>) = 1 /\ <<Blank>>[1] = Blank
      OBVIOUS
    <3> QED BY <3>1, Zenon
  <2>2. PICK c \in Nat : c = length - 1 /\ col - 1 = c
    BY <1>1, <1>2, <1>5, RowFacts
  <2>3. ASSUME NEW i \in Columns
        PROVE  (IF i \in c..(c + Len(b) - 1) THEN b[i - c + 1] ELSE screen[i])
                 = IF i < length - 1 THEN line'[i] ELSE Blank
    <3>1. i \in Nat /\ c = length - 1 /\ c \in Nat /\ Len(b) = 1 /\ b[1] = Blank
      BY <2>1, <2>2, SizeAssumption DEF Columns
    <3>2. CASE i = length - 1
      BY <3>1, <3>2, ShapeFacts
    <3>3. CASE i < length - 1
      <4>1. line'[i] = line[i] /\ screen[i] = line[i]
        BY <1>2, <1>3, <1>5, <3>1, <3>3, RowFacts, ShapeFacts
      <4> QED BY <3>1, <3>3, <4>1, ShapeFacts
    <3>4. CASE i > length - 1
      <4>1. screen[i] = Blank
        BY <1>5, <3>1, <3>4, RowFacts, ShapeFacts
      <4> QED BY <3>1, <3>4, <4>1, ShapeFacts
    <3> QED BY <3>1, <3>2, <3>3, <3>4, ShapeFacts
  <2>4. Printed(screen, c, b) = RowOf(line', length - 1)
    BY <2>3, PrintedRow
  <2> QED BY <1>1, <2>1, <2>2, <2>4
<1> QED BY <1>1, <1>4, <1>5, ShowsOK

\* An erased character is filled by what was behind it.
LEMMA EraseInsideText ==
  ASSUME Shape, EraseInside
  PROVE  /\ Shape' /\ 0 < pos /\ pos < length /\ pos' = pos - 1 /\ length' = length - 1
         /\ \A i \in Nat : i < pos - 1 => line'[i] = line[i]
         /\ \A i \in Nat : pos - 1 <= i /\ i < length - 1 => line'[i] = line[i + 1]
<1>0. PICK end : end = pos + StrLen(line, pos)
  OBVIOUS
<1>1. /\ line' = StrShl(line, pos) /\ pos > 0 /\ pos # length /\ pos' = pos - 1
      /\ length' = length - 1 /\ comp_pos' = comp_pos
  BY DEF EraseInside
<1>2. /\ pos \in Indices /\ length \in pos..(Size - 1)
      /\ line \in Memory /\ line[Size - 1] = NUL
      /\ \A i \in pos..(length - 1) : line[i] \in Chars
  BY ShapeFacts DEF Shape
<1>3. end \in Indices /\ length <= end
  BY <1>0, <1>2, StringEnds, StringLength
<1>4. /\ end \in Nat /\ end <= Size - 1 /\ pos \in Nat /\ length \in Nat /\ Size \in Nat
      /\ 0 < pos /\ pos < length
  BY <1>1, <1>3, ShapeFacts DEF Indices
<1>5. line' = [i \in Indices |-> IF i \in (pos - 1)..(end - 1) THEN line[i + 1] ELSE line[i]]
  <2>1. pos + StrLen(line, pos) - 1 = end - 1
    BY <1>0, <1>2, <1>4, StringEnds
  <2> QED BY <1>1, <2>1 DEF StrShl
<1>6. line' \in Memory
  <2>1. ASSUME NEW i \in Indices
        PROVE  (IF i \in (pos - 1)..(end - 1) THEN line[i + 1] ELSE line[i]) \in Cell
    <3>1. i \in (pos - 1)..(end - 1) => i + 1 \in Indices
      BY <1>4 DEF Indices
    <3> QED BY <1>2, <3>1 DEF Memory
  <2> QED BY <1>5, <2>1 DEF Memory
<1>7. line'[Size - 1] = NUL
  <2>1. Size - 1 \in Indices /\ Size - 1 \notin (pos - 1)..(end - 1)
    BY <1>4 DEF Indices
  <2> QED BY <1>2, <1>5, <2>1
<1>8. ASSUME NEW i \in Nat, i < pos - 1 PROVE line'[i] = line[i]
  <2>1. i \in Indices /\ i \notin (pos - 1)..(end - 1)
    BY <1>3, <1>4, <1>8 DEF Indices
  <2> QED BY <1>5, <2>1
<1>9. ASSUME NEW i \in Nat, pos - 1 <= i, i < length - 1 PROVE line'[i] = line[i + 1]
  <2>1. i \in Indices /\ i \in (pos - 1)..(end - 1)
    BY <1>3, <1>4, <1>9 DEF Indices
  <2> QED BY <1>5, <2>1
<1>10. ASSUME NEW i \in 0..(length - 1 - 1) PROVE line'[i] \in Chars
  <2>1. CASE i < pos - 1
    BY <1>4, <1>8, <1>10, <2>1, ShapeFacts
  <2>2. CASE pos - 1 <= i
    <3>1. i + 1 \in Nat /\ i + 1 < length
      BY <1>4, <1>10
    <3> QED BY <1>4, <1>9, <2>2, <3>1, ShapeFacts
  <2> QED BY <1>4, <2>1, <2>2
<1>11. Shape'
  BY <1>1, <1>4, <1>6, <1>7, <1>10, ShapeFacts DEF Shape
<1> QED BY <1>1, <1>4, <1>8, <1>9, <1>11

\* The rest of the line and two blanks bring the row up to date.
LEMMA EraseInsideKeeps ==
  ASSUME Shape, Row, EraseInside
  PROVE  Shape' /\ Row'
<1> DEFINE tail == Behind \o Blanks(2)
           c    == (col - 1) + (length - pos) + 2 - (length - pos + 2)
<1>1. Shows(Printed(screen, col - 1, tail), c)
  BY DEF EraseInside
<1>2. /\ Shape' /\ 0 < pos /\ pos < length /\ pos' = pos - 1 /\ length' = length - 1
      /\ \A i \in Nat : i < pos - 1 => line'[i] = line[i]
      /\ \A i \in Nat : pos - 1 <= i /\ i < length - 1 => line'[i] = line[i + 1]
  BY EraseInsideText
<1>3. PICK n \in Nat : n = length - pos
  BY <1>2, ShapeFacts
<1>4. /\ Behind \in Seq(Chars) /\ Len(Behind) = n
      /\ \A i \in 1..n : Behind[i] = line[pos + i - 1]
  <2>1. \A i \in pos..(pos + n - 1) : line[i] \in Chars
    BY <1>3, ShapeFacts
  <2>2. pos \in Nat /\ line \in Memory /\ Behind = StrNAt(line, pos, n)
    BY <1>3, ShapeFacts DEF Shape, Behind
  <2> QED BY <2>1, <2>2, Stretch
<1>5. /\ Blanks(2) \in Seq({Blank}) /\ Len(Blanks(2)) = 2
      /\ Blanks(2)[1] = Blank /\ Blanks(2)[2] = Blank
  BY DEF Blanks
<1>6. /\ Len(tail) = n + 2 /\ tail[n + 1] = Blank /\ tail[n + 2] = Blank
      /\ \A i \in 1..n : tail[i] = line[pos + i - 1]
  <2>1. Behind \in Seq(Chars \cup {Blank}) /\ Blanks(2) \in Seq(Chars \cup {Blank})
    BY <1>4, <1>5
  <2>2. /\ Len(tail) = Len(Behind) + Len(Blanks(2))
        /\ \A i \in 1..(Len(Behind) + Len(Blanks(2))) :
              tail[i] = IF i <= Len(Behind) THEN Behind[i] ELSE Blanks(2)[i - Len(Behind)]
    BY <2>1, ConcatProperties, ZenonT(30)
  <2> HIDE DEF tail
  <2>3. \A i \in 1..(n + 2) : tail[i] = IF i <= n THEN Behind[i] ELSE Blanks(2)[i - n]
    BY <1>4, <1>5, <2>2
  <2>4. \A i \in 1..n : tail[i] = line[pos + i - 1]
    BY <1>4, <2>3
  <2>5. tail[n + 1] = Blank /\ tail[n + 2] = Blank
    <3>1. n + 1 \in 1..(n + 2) /\ n + 2 \in 1..(n + 2) /\ n + 1 - n = 1 /\ n + 2 - n = 2
      OBVIOUS
    <3> QED BY <1>5, <2>3, <3>1
  <2> QED BY <1>4, <1>5, <2>2, <2>4, <2>5
<1> HIDE DEF tail
<1>7. ASSUME followed
      PROVE  Printed(screen, col - 1, tail) = RowOf(line', length - 1) /\ c = pos - 1
  <2>1. col = pos
    BY <1>7, RowFacts
  <2>2. ASSUME NEW i \in Columns
        PROVE  (IF i \in (pos - 1)..(pos - 1 + Len(tail) - 1)
                THEN tail[i - (pos - 1) + 1] ELSE screen[i])
                 = IF i < length - 1 THEN line'[i] ELSE Blank
    <3>1. /\ i \in Nat /\ pos \in Nat /\ length \in Nat /\ 0 < pos /\ pos < length
          /\ Len(tail) = length - pos + 2 /\ n = length - pos
      BY <1>2, <1>3, <1>6, ShapeFacts DEF Columns
    <3>2. CASE i < pos - 1
      <4>1. line'[i] = line[i] /\ screen[i] = line[i]
        BY <1>2, <1>7, <3>1, <3>2, RowFacts
      <4> QED BY <3>1, <3>2, <4>1
    <3>3. CASE pos - 1 <= i /\ i < length - 1
      <4>1. i - (pos - 1) + 1 \in 1..n /\ pos + (i - (pos - 1) + 1) - 1 = i + 1
        BY <3>1, <3>3
      <4>2. tail[i - (pos - 1) + 1] = line[i + 1]
        BY <1>6, <4>1
      <4>3. line'[i] = line[i + 1]
        BY <1>2, <3>1, <3>3
      <4> QED BY <3>1, <3>3, <4>2, <4>3
    <3>4. CASE i = length - 1 \/ i = length
      <4>1. i - (pos - 1) + 1 = n + 1 \/ i - (pos - 1) + 1 = n + 2
        BY <3>1, <3>4
      <4>2. tail[i - (pos - 1) + 1] = Blank
        BY <1>6, <4>1
      <4> QED BY <3>1, <3>4, <4>2
    <3>5. CASE i > length
      <4>1. screen[i] = Blank
        BY <1>7, <3>1, <3>5, RowFacts
      <4> QED BY <3>1, <3>5, <4>1
    <3>6. i < pos - 1 \/ (pos - 1 <= i /\ i < length - 1) \/ (i = length - 1 \/ i = length) \/ i > length
      BY <3>1
    <3> QED BY <3>2, <3>3, <3>4, <3>5, <3>6, Zenon
  <2>3. Printed(screen, pos - 1, tail) = RowOf(line', length - 1)
    BY <2>2, PrintedRow
  <2> QED BY <2>1, <2>3, ShapeFacts
<1> QED BY <1>1, <1>2, <1>7, ShowsOK

\* The cursor keys move the cursor of the row as that of the line.
LEMMA MoveKeeps ==
  ASSUME Shape, Row, Right \/ Left
  PROVE  Shape' /\ Row'
<1>1. CASE Right
  <2>1. /\ pos < length /\ pos' = pos + 1 /\ line' = line /\ length' = length /\ comp_pos' = comp_pos
        /\ Shows(Printed(screen, col, <<line[pos]>>), col + 1)
    BY <1>1, ShapeFacts DEF Right
  <2>2. Shape'
    BY <2>1, ShapeFacts DEF Shape
  <2>3. ASSUME followed
        PROVE  Printed(screen, col, <<line[pos]>>) = RowOf(line, length) /\ col + 1 = pos'
    <3>1. PICK s : s = <<line[pos]>> /\ Len(s) = 1 /\ s[1] = line[pos]
      <4>1. Len(<<line[pos]>>) = 1 /\ <<line[pos]>>[1] = line[pos]
        OBVIOUS
      <4> QED BY <4>1, Zenon
    <3>2. ASSUME NEW i \in Columns
          PROVE  (IF i \in pos..(pos + Len(s) - 1) THEN s[i - pos + 1] ELSE screen[i])
                   = IF i < length THEN line[i] ELSE Blank
      BY <2>1, <2>3, <3>1, RowFacts, ShapeFacts DEF Columns
    <3>3. Printed(screen, pos, s) = RowOf(line, length)
      BY <3>2, PrintedRow
    <3> QED BY <2>1, <2>3, <3>1, <3>3, RowFacts
  <2> QED BY <2>1, <2>2, <2>3, ShowsOK
<1>2. CASE Left
  <2>1. /\ pos > 0 /\ pos' = pos - 1 /\ line' = line /\ length' = length /\ comp_pos' = comp_pos
        /\ Shows(screen, col - 1)
    BY <1>2 DEF Left
  <2>2. Shape'
    BY <2>1, ShapeFacts DEF Shape
  <2>3. ASSUME followed PROVE screen = RowOf(line, length) /\ col - 1 = pos'
    BY <2>1, <2>3 DEF Row
  <2> QED BY <2>1, <2>2, <2>3, ShowsOK
<1> QED BY <1>1, <1>2

-----------------------------------------------------------------------------
(* Completion.                                                             *)

\* The places of a character.
PlacesOf(s, mark) == {i \in 1..Len(s) : s[i] = mark}

\* The last place of a character is found; it is 0 when there is none.
LEMMA LastPlace ==
  ASSUME NEW s \in Seq(Chars), NEW mark, NEW last,
         last = IF PlacesOf(s, mark) # {} THEN Max(PlacesOf(s, mark)) ELSE 0
  PROVE  /\ last \in 0..Len(s) /\ (last # 0 => s[last] = mark)
         /\ \A j \in (last + 1)..Len(s) : s[j] # mark
<1> DEFINE I == PlacesOf(s, mark)
<1>1. /\ Len(s) \in Nat /\ I \in SUBSET (1..Len(s))
      /\ \A i \in 1..Len(s) : i \in I <=> s[i] = mark
  BY LenProperties DEF PlacesOf
<1>2. last = IF I # {} THEN Max(I) ELSE 0
  OBVIOUS
<1> HIDE DEF I
<1>3. CASE I # {}
  <2>1. last \in I /\ \A y \in I : y <= last
    BY <1>1, <1>2, <1>3, GreatestPlace
  <2> QED BY <1>1, <2>1
<1>4. CASE I = {}
  BY <1>1, <1>2, <1>4
<1> QED BY <1>3, <1>4

\* What complete() makes of a text: the text itself, or the part up to the
\* last slash of its last word with a name of a file.
LEMMA CompletedText ==
  ASSUME NEW prefix \in Seq(Chars), NEW skip \in Nat
  PROVE  \/ Completed(prefix, skip) = prefix
         \/ \E i \in 2..Len(prefix), name \in Names :
              /\ name \in Seq(Chars)
              /\ prefix[i] = Slash
              /\ \A j \in (i + 1)..Len(prefix) : prefix[j] # Blank /\ prefix[j] # Slash
              /\ Completed(prefix, skip) = SubSeq(prefix, 1, i) \o name
<1> DEFINE space == SelectLastInSeq(prefix, LAMBDA ch : ch = Blank)
           kept  == IF space = 0 THEN 1 ELSE space
           word  == SubSeq(prefix, kept + 1, Len(prefix))
           slash == SelectLastInSeq(word, LAMBDA ch : ch = Slash)
           dir   == SubSeq(word, 1, slash)
           count == Len(Listing[dir])
           nth   == IF skip > count THEN skip % count ELSE skip
<1>1. Completed(prefix, skip) =
        IF dir # <<>> /\ dir \in DOMAIN Listing /\ count > 0 /\ nth < count
        THEN SubSeq(prefix, 1, kept) \o dir \o Listing[dir][nth + 1]
        ELSE prefix
  BY DEF Completed
<1>2. PICK n \in Nat : n = Len(prefix)
  BY LenProperties
<1>3. space \in 0..n /\ \A j \in (space + 1)..n : prefix[j] # Blank
  <2>1. space = IF PlacesOf(prefix, Blank) # {} THEN Max(PlacesOf(prefix, Blank)) ELSE 0
    BY DEF SelectLastInSeq, PlacesOf
  <2> HIDE DEF space
  <2> QED BY <1>2, <2>1, LastPlace
<1> HIDE DEF space
<1>4. kept \in Nat \ {0} /\ (kept <= n \/ kept = 1) /\ \A j \in (kept + 1)..n : prefix[j] # Blank
  BY <1>3
<1> HIDE DEF kept
<1>5. /\ word \in Seq(Chars) /\ Len(word) = IF kept + 1 <= n THEN n - kept ELSE 0
      /\ \A j \in 1..Len(word) : word[j] = prefix[kept + j]
  <2>1. /\ word \in Seq(Chars)
        /\ Len(word) = IF kept + 1 <= n THEN n - (kept + 1) + 1 ELSE 0
        /\ \A j \in 1..(n - (kept + 1) + 1) : word[j] = prefix[kept + 1 + j - 1]
    <3>1. \A j \in (kept + 1)..n : prefix[j] \in Chars
      BY <1>2, <1>4, ElementOfSeq
    <3> QED BY <1>2, <1>4, <3>1, SubSeqProperties
  <2> QED BY <1>2, <1>4, <2>1
<1> HIDE DEF word
<1>6. /\ slash \in 0..Len(word) /\ (slash # 0 => word[slash] = Slash)
      /\ \A j \in (slash + 1)..Len(word) : word[j] # Slash
  <2>1. slash = IF PlacesOf(word, Slash) # {} THEN Max(PlacesOf(word, Slash)) ELSE 0
    BY DEF SelectLastInSeq, PlacesOf
  <2> HIDE DEF slash
  <2>2. word \in Seq(Chars)
    BY <1>5
  <2> QED BY <2>1, <2>2, LastPlace, Zenon
<1> HIDE DEF slash
<1>7. CASE ~ (dir # <<>> /\ dir \in DOMAIN Listing /\ count > 0 /\ nth < count)
  BY <1>1, <1>7
<1>8. CASE dir # <<>> /\ dir \in DOMAIN Listing /\ count > 0 /\ nth < count
  <2>1. slash # 0
    BY <1>5, <1>6, <1>8, SubSeqEmpty
  <2>2. PICK i \in Nat : i = kept + slash
    BY <1>4, <1>5, <1>6
  <2>3. /\ i \in 2..n /\ prefix[i] = Slash
        /\ \A j \in (i + 1)..n : prefix[j] # Blank /\ prefix[j] # Slash
    <3>1. /\ kept \in Nat \ {0} /\ slash \in Nat /\ slash # 0 /\ slash <= Len(word) /\ Len(word) = n - kept
      BY <1>2, <1>4, <1>5, <1>6, <2>1
    <3>2. ASSUME NEW j \in (i + 1)..n PROVE prefix[j] # Blank /\ prefix[j] # Slash
      <4>1. j - kept \in (slash + 1)..Len(word) /\ kept + (j - kept) = j /\ j - kept \in 1..Len(word)
            /\ j \in (kept + 1)..n
        BY <1>2, <2>2, <3>1
      <4>2. word[j - kept] = prefix[j]
        BY <1>5, <4>1
      <4> QED BY <1>4, <1>6, <4>1, <4>2
    <3>3. word[slash] = prefix[kept + slash]
      BY <1>5, <3>1
    <3> QED BY <1>2, <1>6, <2>2, <3>1, <3>2, <3>3
  <2>4. /\ dir \in Seq(Chars) /\ Len(dir) = slash
        /\ \A j \in 1..slash : dir[j] = prefix[kept + j]
    <3>1. slash \in Nat /\ slash <= Len(word) /\ \A j \in 1..slash : word[j] \in Chars
      BY <1>5, <1>6, ElementOfSeq, LenProperties
    <3>2. /\ dir \in Seq(Chars) /\ Len(dir) = (IF 1 <= slash THEN slash - 1 + 1 ELSE 0)
          /\ \A j \in 1..(slash - 1 + 1) : dir[j] = word[1 + j - 1]
      BY <3>1, SubSeqProperties
    <3> HIDE DEF dir
    <3> QED BY <1>5, <2>1, <3>1, <3>2
  <2>5. SubSeq(prefix, 1, kept) \o dir = SubSeq(prefix, 1, i)
    <3>1. \A j \in 1..n : prefix[j] \in Chars
      BY <1>2, ElementOfSeq
    <3>2. kept \in 1..n /\ i \in 1..n /\ slash \in Nat
      BY <1>4, <1>5, <1>6, <2>1, <2>2, <2>3
    <3>3. /\ SubSeq(prefix, 1, kept) \in Seq(Chars) /\ Len(SubSeq(prefix, 1, kept)) = kept
          /\ \A j \in 1..kept : SubSeq(prefix, 1, kept)[j] = prefix[j]
      BY <3>1, <3>2, SubSeqProperties
    <3>4. /\ SubSeq(prefix, 1, i) \in Seq(Chars) /\ Len(SubSeq(prefix, 1, i)) = i
          /\ \A j \in 1..i : SubSeq(prefix, 1, i)[j] = prefix[j]
      BY <3>1, <3>2, SubSeqProperties
    <3> HIDE DEF dir
    <3>5. PICK a \in Seq(Chars) : a = SubSeq(prefix, 1, kept)
      BY <3>3
    <3>6. PICK b \in Seq(Chars) : b = dir
      BY <2>4
    <3>7. /\ a \o b \in Seq(Chars) /\ Len(a \o b) = Len(a) + Len(b)
          /\ \A j \in 1..(Len(a) + Len(b)) : (a \o b)[j] = IF j <= Len(a) THEN a[j] ELSE b[j - Len(a)]
      BY ConcatProperties
    <3>8. PICK c \in Seq(Chars) : c = a \o b
      BY <3>7
    <3>9. Len(c) = i
      BY <2>2, <2>4, <3>2, <3>3, <3>5, <3>6, <3>7, <3>8
    <3>10. ASSUME NEW j \in 1..i PROVE c[j] = prefix[j]
      <4>1. CASE j <= kept
        BY <2>2, <2>4, <3>2, <3>3, <3>5, <3>6, <3>7, <3>8, <4>1
      <4>2. CASE j > kept
        <5>1. j - kept \in 1..slash /\ kept + (j - kept) = j
          BY <2>2, <3>2, <4>2
        <5> QED BY <2>2, <2>4, <3>2, <3>3, <3>5, <3>6, <3>7, <3>8, <4>2, <5>1
      <4> QED BY <3>2, <4>1, <4>2
    <3> QED BY <3>4, <3>5, <3>6, <3>8, <3>9, <3>10, SeqEqual
  <2>6. PICK name : name = Listing[dir][nth + 1]
    OBVIOUS
  <2>7. name \in Names /\ name \in Seq(Chars)
    <3>1. Listing[dir] \in Seq(Seq(Chars)) /\ count \in Nat
      BY <1>8, ListingAssumption, LenProperties
    <3>2. nth + 1 \in 1..count
      BY <1>8, <3>1
    <3>3. Listing[dir][nth + 1] \in ToSet(Listing[dir])
      BY <3>1, <3>2, LenProperties DEF ToSet
    <3> HIDE DEF nth
    <3>4. Listing[dir][nth + 1] \in Seq(Chars)
      BY <3>1, <3>2, ElementOfSeq
    <3> QED BY <1>8, <2>6, <3>3, <3>4 DEF Names
  <2>8. Completed(prefix, skip) = SubSeq(prefix, 1, i) \o name
    BY <1>1, <1>8, <2>5, <2>6
  <2> QED BY <1>2, <2>3, <2>7, <2>8
<1> QED BY <1>7, <1>8

\* What is before the cursor, place by place.
LEMMA BeforeText ==
  ASSUME Shape
  PROVE  /\ Before \in Seq(Chars) /\ Len(Before) = pos
         /\ \A i \in 1..pos : Before[i] = line[i - 1]
<1>1. /\ line \in Memory /\ 0 \in Nat /\ pos \in Nat /\ \A i \in 0..(0 + pos - 1) : line[i] \in Chars
  BY ShapeFacts DEF Shape
<1>2. /\ Before \in Seq(Chars) /\ Len(Before) = pos
      /\ \A i \in 1..pos : Before[i] = line[0 + i - 1]
  BY <1>1, Stretch DEF Before
<1> QED BY <1>1, <1>2

\* The string behind the cursor begins with what the editor sees there.
LEMMA RestText ==
  ASSUME Shape, NEW rest, rest = StrAt(line, pos)
  PROVE  /\ rest \in Seq(Chars) /\ Len(rest) >= length - pos
         /\ \A i \in 1..Len(rest) : rest[i] = line[pos + i - 1]
<1>1. PICK e : e = pos + StrLen(line, pos)
  OBVIOUS
<1>2. /\ line \in Memory /\ line[Size - 1] = NUL /\ pos \in Indices /\ length \in pos..(Size - 1)
      /\ \A i \in pos..(length - 1) : line[i] \in Chars
  BY ShapeFacts DEF Shape
<1>3. /\ StrLen(line, pos) \in Nat /\ e \in Indices /\ line[e] = NUL /\ length <= e
      /\ \A i \in pos..(e - 1) : line[i] \in Chars
  <2>1. length <= pos + StrLen(line, pos)
    BY <1>2, StringLength, Zenon
  <2>2. /\ StrLen(line, pos) \in Nat /\ pos + StrLen(line, pos) \in Indices
        /\ line[pos + StrLen(line, pos)] = NUL
        /\ \A i \in pos..(pos + StrLen(line, pos) - 1) : line[i] \in Chars
    BY <1>2, StringEnds, Zenon
  <2>3. pos + StrLen(line, pos) - 1 = e - 1
    BY <1>1, <2>2, ShapeFacts
  <2> QED BY <1>1, <2>1, <2>2, <2>3
<1>4. e \in pos..(Size - 1) /\ e - pos >= length - pos /\ e - pos \in Nat
  BY <1>1, <1>2, <1>3, ShapeFacts DEF Indices
<1>5. /\ rest \in Seq(Chars) /\ Len(rest) = e - pos
      /\ \A i \in 1..(e - pos) : rest[i] = line[pos + i - 1]
  BY <1>2, <1>3, <1>4, WholeString
<1> QED BY <1>4, <1>5

\* After a completion the buffer holds the completed prefix and the string that
\* was behind the cursor, terminated.
LEMMA TabText ==
  ASSUME Shape, Tab
  PROVE  \E prefix, rest \in Seq(Chars) : \E whole \in Seq(Chars) :
           /\ prefix = Completed(Before, comp_pos) /\ whole = prefix \o rest
           /\ CompleteTo(prefix, whole)
           /\ rest = StrAt(line, pos)
           /\ Len(whole) \in Nat /\ length' = Len(whole) /\ pos' = Len(prefix)
           /\ \A i \in 1..Len(whole) : line'[i - 1] = whole[i]
           /\ line'[Len(whole)] = NUL
           /\ Shape'
<1>1. PICK prefix \in Seq(Chars) : prefix = Completed(Before, comp_pos)
  <2> SUFFICES Completed(Before, comp_pos) \in Seq(Chars)
    OBVIOUS
  <2>1. Before \in Seq(Chars) /\ comp_pos \in Nat
    BY BeforeText DEF Shape
  <2>2. PICK before \in Seq(Chars) : before = Before
    BY <2>1
  <2>3. ASSUME NEW i \in 2..Len(before), NEW name \in Seq(Chars)
        PROVE  SubSeq(before, 1, i) \o name \in Seq(Chars)
    <3>1. \A j \in 1..i : before[j] \in Chars
      BY <2>3, ElementOfSeq, LenProperties
    <3>2. SubSeq(before, 1, i) \in Seq(Chars)
      BY <2>3, <3>1, SubSeqProperties, LenProperties
    <3> QED BY <3>2, ConcatProperties
  <2>4. \/ Completed(before, comp_pos) = before
        \/ \E i \in 2..Len(before), name \in Names :
             name \in Seq(Chars) /\ Completed(before, comp_pos) = SubSeq(before, 1, i) \o name
    BY <2>1, CompletedText, Zenon
  <2> QED BY <2>2, <2>3, <2>4
<1>2. PICK rest \in Seq(Chars) : rest = StrAt(line, pos)
  BY RestText
<1>3. PICK whole \in Seq(Chars) : whole = prefix \o rest
  BY ConcatProperties
<1>4. CompleteTo(prefix, whole)
  BY <1>1, <1>2, <1>3 DEF Tab
<1>5. /\ Len(whole) + 2 <= Size /\ line' = StrCpy(line, whole) /\ pos' = Len(prefix)
      /\ length' = Len(whole) /\ comp_pos' = comp_pos + 1
  BY <1>4 DEF CompleteTo
<1>6. PICK n \in Nat : n = Len(whole)
  BY LenProperties
<1>7. /\ Len(prefix) \in Nat /\ Len(prefix) <= n /\ Len(rest) \in Nat
  <2>1. /\ Len(prefix) \in Nat /\ Len(rest) \in Nat /\ Len(prefix \o rest) = Len(prefix) + Len(rest)
    BY ConcatProperties, LenProperties
  <2> QED BY <1>3, <1>6, <2>1
<1>8. \A i \in 1..n : whole[i] \in Chars
  BY <1>6, ElementOfSeq
<1>9. line' = [i \in Indices |-> IF i < n THEN whole[i + 1] ELSE IF i = n THEN NUL ELSE line[i]]
  BY <1>5, <1>6 DEF StrCpy
<1>10. /\ \A i \in 1..n : line'[i - 1] = whole[i]
       /\ line'[n] = NUL /\ line'[Size - 1] = NUL /\ n + 2 <= Size
  <2>1. /\ n \in Indices /\ Size - 1 \in Indices /\ Size - 1 > n /\ n + 2 <= Size
        /\ \A i \in 1..n : i - 1 \in Indices /\ i - 1 < n /\ i - 1 + 1 = i
    BY <1>5, <1>6, SizeAssumption DEF Indices
  <2>2. line[Size - 1] = NUL
    BY DEF Shape
  <2>3. \A i \in Indices : line'[i] = IF i < n THEN whole[i + 1] ELSE IF i = n THEN NUL ELSE line[i]
    BY <1>9, Zenon
  <2>4. \A i \in 1..n : line'[i - 1] = whole[i]
    BY <2>1, <2>3
  <2>5. line'[n] = NUL /\ line'[Size - 1] = NUL
    <3>1. ~ (n < n) /\ ~ (Size - 1 < n) /\ Size - 1 # n
      BY <2>1, SizeAssumption
    <3> QED BY <2>1, <2>2, <2>3, <3>1, Zenon
  <2> QED BY <2>1, <2>4, <2>5
<1>11. line' \in Memory
  <2>1. ASSUME NEW i \in Indices
        PROVE  (IF i < n THEN whole[i + 1] ELSE IF i = n THEN NUL ELSE line[i]) \in Cell
    <3>1. i < n => i + 1 \in 1..n
      BY SizeAssumption DEF Indices
    <3> QED BY <1>8, <3>1 DEF Shape, Memory, Cell
  <2> QED BY <1>9, <2>1 DEF Memory
<1>12. \A i \in 0..(n - 1) : line'[i] \in Chars
  <2> SUFFICES ASSUME NEW i \in 0..(n - 1) PROVE line'[i] \in Chars
    OBVIOUS
  <2>1. i + 1 \in 1..n /\ (i + 1) - 1 = i
    OBVIOUS
  <2>2. line'[i] = whole[i + 1]
    BY <1>10, <2>1
  <2> QED BY <1>8, <2>1, <2>2
<1>13. Shape'
  BY <1>5, <1>6, <1>7, <1>10, <1>11, <1>12, ShapeFacts DEF Shape
<1> QED BY <1>1, <1>2, <1>3, <1>4, <1>5, <1>6, <1>10, <1>13

\* Blanks over the old line and the new line printed behind the prompt bring the
\* row up to date.
LEMMA TabKeeps ==
  ASSUME Shape, Row, Tab
  PROVE  Shape' /\ Row'
<1>1. PICK prefix \in Seq(Chars), rest \in Seq(Chars), whole \in Seq(Chars) :
           /\ CompleteTo(prefix, whole)
           /\ Len(whole) \in Nat /\ length' = Len(whole) /\ pos' = Len(prefix)
           /\ \A i \in 1..Len(whole) : line'[i - 1] = whole[i]
           /\ Shape'
  BY TabText
<1> DEFINE erased == Printed(screen, col - pos, Blanks(length + 1))
           c      == (col - pos) + Len(whole) - (Len(whole) - Len(prefix))
<1>2. Shows(Printed(erased, col - pos, whole), c)
  BY <1>1 DEF CompleteTo
<1>3. ASSUME followed
      PROVE  Printed(erased, col - pos, whole) = RowOf(line', length') /\ c = pos'
  <2>1. col - pos = 0 /\ c = Len(prefix)
    BY <1>1, <1>3, RowFacts, ShapeFacts, LenProperties
  <2>2. ASSUME NEW i \in Columns PROVE erased[i] = Blank
    <3>1. i \in Nat /\ length \in Nat
      BY ShapeFacts DEF Columns
    <3>2. Len(Blanks(length + 1)) = length + 1 /\ \A j \in 1..(length + 1) : Blanks(length + 1)[j] = Blank
      BY <3>1 DEF Blanks
    <3>3. erased[i] = IF i \in 0..(0 + (length + 1) - 1) THEN Blanks(length + 1)[i - 0 + 1] ELSE screen[i]
      BY <2>1, <3>2 DEF Printed
    <3> HIDE DEF erased
    <3>4. CASE i <= length
      <4>1. i - 0 + 1 \in 1..(length + 1) /\ i \in 0..(0 + (length + 1) - 1)
        BY <3>1, <3>4
      <4> QED BY <3>2, <3>3, <4>1
    <3>5. CASE i > length
      <4>1. screen[i] = Blank /\ i \notin 0..(0 + (length + 1) - 1)
        BY <1>3, <3>1, <3>5, RowFacts
      <4> QED BY <3>3, <4>1
    <3> QED BY <3>1, <3>4, <3>5
  <2> HIDE DEF erased, c
  <2>3. ASSUME NEW i \in Columns
        PROVE  (IF i \in 0..(0 + Len(whole) - 1) THEN whole[i - 0 + 1] ELSE erased[i])
                 = IF i < Len(whole) THEN line'[i] ELSE Blank
    <3>1. i \in Nat
      BY SizeAssumption DEF Columns
    <3>2. CASE i < Len(whole)
      <4>1. i + 1 \in 1..Len(whole) /\ (i + 1) - 1 = i /\ i - 0 + 1 = i + 1
        BY <1>1, <3>1, <3>2
      <4>2. line'[i] = whole[i + 1]
        BY <1>1, <4>1
      <4> QED BY <1>1, <3>1, <3>2, <4>1, <4>2
    <3>3. CASE ~ (i < Len(whole))
      BY <1>1, <2>2, <3>1, <3>3
    <3> QED BY <3>2, <3>3
  <2>4. Printed(erased, 0, whole) = RowOf(line', Len(whole))
    BY <2>3, PrintedRow
  <2> QED BY <1>1, <2>1, <2>4
<1> QED BY <1>1, <1>2, <1>3, ShowsOK

-----------------------------------------------------------------------------
\* The inductive invariant of get_line(): buffer, cursor and length agree with
\* each other, and the row with them, after every key.
THEOREM EditorInductive == Spec => []IInv
<1>1. Init => IInv
  <2> SUFFICES ASSUME Init PROVE IInv
    OBVIOUS
  <2>1. Shape
    BY SizeAssumption DEF Init, Shape, Zeroed, Indices, Memory, Cell
  <2>2. Row
    BY SizeAssumption DEF Init, Row, Zeroed, Indices, RowOf, BlankRow, Columns
  <2> QED BY <2>1, <2>2 DEF Init, Rests, IInv
<1>2. IInv /\ [Next]_vars => IInv'
  <2> SUFFICES ASSUME Shape, Row, Rests, [Next]_vars PROVE Shape' /\ Row' /\ Rests'
    BY DEF IInv
  <2>1. ASSUME NEW ch \in Chars, TypeLast(ch) PROVE Shape' /\ Row' /\ Rests'
    BY <2>1, TypeLastKeeps DEF TypeLast, Rests
  <2>2. ASSUME NEW ch \in Chars, TypeInside(ch) PROVE Shape' /\ Row' /\ Rests'
    BY <2>2, TypeInsideKeeps DEF TypeInside, Rests
  <2>3. CASE EraseLast
    BY <2>3, EraseLastKeeps DEF EraseLast, Rests
  <2>4. CASE EraseInside
    BY <2>4, EraseInsideKeeps DEF EraseInside, Rests
  <2>5. CASE Right \/ Left
    BY <2>5, MoveKeeps DEF Right, Left, Rests
  <2>6. CASE Tab
    BY <2>6, TabKeeps DEF Tab, CompleteTo, Rests
  <2>7. CASE Interrupt
    BY <2>7 DEF Interrupt, Shape, Row, Rests
  <2>8. CASE Return
    <3>1. Shape'
      BY <2>8, SizeAssumption DEF Return, Shape, Zeroed, Indices, Memory, Cell
    <3>2. Row'
      BY <2>8, SizeAssumption DEF Return, Row, Zeroed, Indices, RowOf, BlankRow, Columns
    <3> QED BY <2>8, <3>1, <3>2 DEF Return, Rests
  <2>9. CASE Prompt \/ Quit \/ UNCHANGED vars
    BY <2>9 DEF Prompt, Quit, vars, screenVars, Shape, Row, Rests
  <2> QED BY <2>1, <2>2, <2>3, <2>4, <2>5, <2>6, <2>7, <2>8, <2>9 DEF Next
<1> QED BY <1>1, <1>2, PTL DEF Spec

\* What the user sees is the line that will be returned, for every length of the
\* buffer, every alphabet and every directory.
THEOREM ScreenCorrect == Spec => []ScreenShowsLine
<1>1. IInv => ScreenShowsLine
  BY DEF IInv, Row, RowOf, ScreenShowsLine
<1> QED BY EditorInductive, <1>1, PTL

-----------------------------------------------------------------------------
(* The editor of texts.                                                    *)

\* The line as the editor sees it, place by place.
LEMMA TextFacts ==
  ASSUME Shape
  PROVE  /\ Text \in Seq(Chars) /\ Len(Text) = length
         /\ \A i \in 1..length : Text[i] = line[i - 1]
<1>1. line \in Memory /\ 0 \in Nat /\ length \in Nat /\ \A i \in 0..(0 + length - 1) : line[i] \in Chars
  BY ShapeFacts DEF Shape
<1>2. /\ Text \in Seq(Chars) /\ Len(Text) = length
      /\ \A i \in 1..length : Text[i] = line[0 + i - 1]
  BY <1>1, Stretch DEF Text
<1> QED BY <1>1, <1>2

\* The text after the step is known place by place.
LEMMA TextAfter ==
  ASSUME Shape', NEW s \in Seq(Chars), Len(s) = length', \A i \in 1..Len(s) : s[i] = line'[i - 1]
  PROVE  Text' = s
<1>1. /\ Text' \in Seq(Chars) /\ Len(Text') = length'
      /\ \A i \in 1..length' : Text'[i] = line'[i - 1]
  <2>1. PICK mem \in Memory, n \in Nat : mem = line' /\ n = length' /\ 0 \in Nat
                                       /\ \A i \in 0..(0 + n - 1) : mem[i] \in Chars
    <3>1. length' \in Nat /\ line' \in Memory /\ \A i \in 0..(length' - 1) : line'[i] \in Chars
      BY DEF Shape
    <3>2. 0..(0 + length' - 1) = 0..(length' - 1) /\ 0 \in Nat
      BY <3>1
    <3> QED BY <3>1, <3>2, Zenon
  <2>2. /\ StrNAt(mem, 0, n) \in Seq(Chars) /\ Len(StrNAt(mem, 0, n)) = n
        /\ \A i \in 1..n : StrNAt(mem, 0, n)[i] = mem[0 + i - 1]
    <3>1. ASSUME NEW z, z = 0
          PROVE  /\ StrNAt(mem, z, n) \in Seq(Chars) /\ Len(StrNAt(mem, z, n)) = n
                 /\ \A i \in 1..n : StrNAt(mem, z, n)[i] = mem[z + i - 1]
      <4>1. z \in Nat /\ \A i \in z..(z + n - 1) : mem[i] \in Chars
        BY <2>1, <3>1
      <4> QED BY <4>1, Stretch
    <3> QED BY <3>1, Zenon
  <2>3. Text' = StrNAt(mem, 0, n)
    BY <2>1 DEF Text
  <2>4. \A i \in 1..n : 0 + i - 1 = i - 1
    OBVIOUS
  <2> QED BY <2>1, <2>2, <2>3, <2>4
<1>2. PICK t \in Seq(Chars) : t = Text'
  BY <1>1
<1> QED BY <1>1, <1>2, SeqEqual

\* A piece of a text, place by place.
LEMMA Piece ==
  ASSUME NEW s \in Seq(Chars), NEW m \in Nat \ {0}, NEW n \in Nat, m <= n + 1, n <= Len(s),
         NEW p, p = SubSeq(s, m, n)
  PROVE  /\ p \in Seq(Chars) /\ Len(p) = n + 1 - m
         /\ \A i \in 1..(n + 1 - m) : p[i] = s[m + i - 1]
<1>1. \A i \in m..n : s[i] \in Chars
  BY LenProperties, ElementOfSeq
<1>2. /\ p \in Seq(Chars) /\ Len(p) = IF m <= n THEN n - m + 1 ELSE 0
      /\ \A i \in 1..(n - m + 1) : p[i] = s[m + i - 1]
  <2>1. /\ SubSeq(s, m, n) \in Seq(Chars) /\ Len(SubSeq(s, m, n)) = IF m <= n THEN n - m + 1 ELSE 0
        /\ \A i \in 1..(n - m + 1) : SubSeq(s, m, n)[i] = s[m + i - 1]
    <3>1. m \in Int /\ n \in Int
      OBVIOUS
    <3> QED BY <1>1, <3>1, SubSeqProperties
  <2> QED BY <2>1, Zenon
<1>3. n - m + 1 = n + 1 - m /\ (m <= n \/ n + 1 - m = 0)
  OBVIOUS
<1> QED BY <1>2, <1>3

\* Where two texts are joined.
LEMMA Joined ==
  ASSUME NEW a \in Seq(Chars), NEW b \in Seq(Chars), NEW c, c = a \o b
  PROVE  /\ c \in Seq(Chars) /\ Len(a) \in Nat /\ Len(b) \in Nat /\ Len(c) = Len(a) + Len(b)
         /\ \A i \in 1..Len(a) : c[i] = a[i]
         /\ \A i \in 1..Len(b) : c[Len(a) + i] = b[i]
<1>1. /\ c \in Seq(Chars) /\ Len(c) = Len(a) + Len(b)
      /\ \A i \in 1..(Len(a) + Len(b)) : c[i] = IF i <= Len(a) THEN a[i] ELSE b[i - Len(a)]
  BY ConcatProperties, Zenon
<1>2. PICK k \in Nat, n \in Nat : k = Len(a) /\ n = Len(b)
  BY LenProperties
<1>3. \A i \in 1..(k + n) : c[i] = IF i <= k THEN a[i] ELSE b[i - k]
  BY <1>1, <1>2, Zenon
<1>4. ASSUME NEW i \in 1..n PROVE c[k + i] = b[i]
  <2>1. k + i \in 1..(k + n) /\ ~ (k + i <= k) /\ (k + i) - k = i
    OBVIOUS
  <2> QED BY <1>3, <2>1, Zenon
<1>5. ASSUME NEW i \in 1..k PROVE c[i] = a[i]
  <2>1. i \in 1..(k + n) /\ i <= k
    OBVIOUS
  <2> QED BY <1>3, <2>1, Zenon
<1> QED BY <1>1, <1>2, <1>4, <1>5, Zenon

\* Where three texts are joined.
LEMMA JoinedThree ==
  ASSUME NEW a \in Seq(Chars), NEW m \in Seq(Chars), NEW b \in Seq(Chars), NEW r,
         \E c : c = a \o m /\ r = c \o b
  PROVE  /\ r \in Seq(Chars) /\ Len(r) = Len(a) + Len(m) + Len(b)
         /\ \A i \in 1..Len(a) : r[i] = a[i]
         /\ \A i \in 1..Len(m) : r[Len(a) + i] = m[i]
         /\ \A i \in 1..Len(b) : r[Len(a) + Len(m) + i] = b[i]
<1>1. PICK c : c = a \o m /\ r = c \o b
  OBVIOUS
<1>2. /\ c \in Seq(Chars) /\ Len(a) \in Nat /\ Len(m) \in Nat /\ Len(c) = Len(a) + Len(m)
      /\ \A i \in 1..Len(a) : c[i] = a[i]
      /\ \A i \in 1..Len(m) : c[Len(a) + i] = m[i]
  BY <1>1, Joined
<1>3. c \in Seq(Chars)
  BY <1>2
<1>4. /\ r \in Seq(Chars) /\ Len(c) \in Nat /\ Len(b) \in Nat /\ Len(r) = Len(c) + Len(b)
      /\ \A i \in 1..Len(c) : r[i] = c[i]
      /\ \A i \in 1..Len(b) : r[Len(c) + i] = b[i]
  <2>1. r = c \o b
    BY <1>1, Zenon
  <2> QED BY <1>3, <2>1, Joined
<1>5. ASSUME NEW i \in 1..Len(a) PROVE r[i] = a[i]
  <2>1. i \in 1..Len(c)
    BY <1>2
  <2> QED BY <1>2, <1>4, <2>1, Zenon
<1>6. ASSUME NEW i \in 1..Len(m) PROVE r[Len(a) + i] = m[i]
  <2>1. Len(a) + i \in 1..Len(c)
    BY <1>2
  <2> QED BY <1>2, <1>4, <2>1, Zenon
<1> QED BY <1>2, <1>4, <1>5, <1>6, Zenon

\* A text of one character.
LEMMA OneCharacter ==
  ASSUME NEW ch \in Chars
  PROVE  <<ch>> \in Seq(Chars) /\ Len(<<ch>>) = 1 /\ <<ch>>[1] = ch
OBVIOUS

\* A sequence with one element more.
LEMMA Inserted ==
  ASSUME NEW s \in Seq(Chars), NEW k \in 0..Len(s), NEW ch \in Chars
  PROVE  \E r \in Seq(Chars) :
           /\ r = InsertAt(s, k + 1, ch) /\ Len(r) = Len(s) + 1 /\ r[k + 1] = ch
           /\ \A i \in 1..k : r[i] = s[i]
           /\ \A i \in (k + 2)..(Len(s) + 1) : r[i] = s[i - 1]
<1>0. PICK n, r : n = Len(s) /\ n \in Nat /\ k \in 0..n /\ r = InsertAt(s, k + 1, ch)
  BY LenProperties
<1>1. PICK a, m, b : a = SubSeq(s, 1, k) /\ m = <<ch>> /\ b = SubSeq(s, k + 1, n)
  OBVIOUS
<1>2. \E c : c = a \o m /\ r = c \o b
  <2>1. (k + 1) - 1 = k
    BY <1>0
  <2> QED BY <1>0, <1>1, <2>1, Zenon DEF InsertAt
<1>3. a \in Seq(Chars) /\ Len(a) = k /\ \A i \in 1..k : a[i] = s[i]
  <2>1. /\ 1 \in Nat \ {0} /\ k \in Nat /\ 1 <= k + 1 /\ k <= Len(s) /\ k + 1 - 1 = k
        /\ \A i \in 1..k : 1 + i - 1 = i
    BY <1>0
  <2>2. a \in Seq(Chars) /\ Len(a) = k + 1 - 1 /\ \A i \in 1..(k + 1 - 1) : a[i] = s[1 + i - 1]
    BY <1>1, <2>1, Piece
  <2> QED BY <2>1, <2>2
<1>4. b \in Seq(Chars) /\ Len(b) = n - k /\ \A i \in 1..(n - k) : b[i] = s[k + i]
  <2>1. /\ k + 1 \in Nat \ {0} /\ k + 1 <= n + 1 /\ n <= Len(s) /\ n + 1 - (k + 1) = n - k
        /\ \A i \in 1..(n - k) : k + 1 + i - 1 = k + i
    BY <1>0
  <2>2. /\ b \in Seq(Chars) /\ Len(b) = n + 1 - (k + 1)
        /\ \A i \in 1..(n + 1 - (k + 1)) : b[i] = s[k + 1 + i - 1]
    BY <1>0, <1>1, <2>1, Piece
  <2> QED BY <2>1, <2>2
<1>5. m \in Seq(Chars) /\ Len(m) = 1 /\ m[1] = ch
  BY <1>1, OneCharacter, Zenon
<1>6. /\ r \in Seq(Chars) /\ Len(r) = Len(a) + Len(m) + Len(b)
      /\ \A i \in 1..Len(a) : r[i] = a[i]
      /\ \A i \in 1..Len(m) : r[Len(a) + i] = m[i]
      /\ \A i \in 1..Len(b) : r[Len(a) + Len(m) + i] = b[i]
  <2>1. a \in Seq(Chars) /\ m \in Seq(Chars) /\ b \in Seq(Chars)
    BY <1>3, <1>4, <1>5, Zenon
  <2>2. ASSUME NEW q, \E c : c = a \o m /\ q = c \o b
        PROVE  /\ q \in Seq(Chars) /\ Len(q) = Len(a) + Len(m) + Len(b)
               /\ \A i \in 1..Len(a) : q[i] = a[i]
               /\ \A i \in 1..Len(m) : q[Len(a) + i] = m[i]
               /\ \A i \in 1..Len(b) : q[Len(a) + Len(m) + i] = b[i]
    BY <2>1, <2>2, JoinedThree
  <2> QED BY <1>2, <2>2, Zenon
<1>7. ASSUME NEW i \in (k + 2)..(n + 1) PROVE r[i] = s[i - 1]
  <2>1. i - (k + 1) \in 1..(n - k) /\ k + 1 + (i - (k + 1)) = i /\ k + (i - (k + 1)) = i - 1
    BY <1>0
  <2>2. b[i - (k + 1)] = s[i - 1]
    BY <1>4, <2>1, Zenon
  <2>3. r[k + 1 + (i - (k + 1))] = b[i - (k + 1)]
    BY <1>3, <1>4, <1>5, <1>6, <2>1, Zenon
  <2> QED BY <2>1, <2>2, <2>3, Zenon
<1>8. 1 \in 1..1 /\ k + 1 + (n - k) = n + 1
  BY <1>0
<1>9. /\ r \in Seq(Chars) /\ Len(r) = n + 1 /\ r[k + 1] = ch
      /\ \A i \in 1..k : r[i] = s[i]
      /\ \A i \in (k + 2)..(n + 1) : r[i] = s[i - 1]
  BY <1>3, <1>4, <1>5, <1>6, <1>7, <1>8, Zenon
<1> QED BY <1>0, <1>9, Zenon

\* A sequence with one element less.
LEMMA Removed ==
  ASSUME NEW s \in Seq(Chars), NEW k \in 1..Len(s)
  PROVE  \E r \in Seq(Chars) :
           /\ r = RemoveAt(s, k) /\ Len(r) = Len(s) - 1
           /\ \A i \in 1..(k - 1) : r[i] = s[i]
           /\ \A i \in k..(Len(s) - 1) : r[i] = s[i + 1]
<1>0. PICK n, r : n = Len(s) /\ n \in Nat /\ k \in 1..n /\ r = RemoveAt(s, k)
  BY LenProperties
<1>1. PICK a, b : a = SubSeq(s, 1, k - 1) /\ b = SubSeq(s, k + 1, n)
  OBVIOUS
<1>2. r = a \o b
  BY <1>0, <1>1, Zenon DEF RemoveAt
<1>3. a \in Seq(Chars) /\ Len(a) = k - 1 /\ \A i \in 1..(k - 1) : a[i] = s[i]
  <2>1. /\ 1 \in Nat \ {0} /\ k - 1 \in Nat /\ 1 <= k - 1 + 1 /\ k - 1 <= Len(s) /\ k - 1 + 1 - 1 = k - 1
        /\ \A i \in 1..(k - 1) : 1 + i - 1 = i
    BY <1>0
  <2>2. a \in Seq(Chars) /\ Len(a) = k - 1 + 1 - 1 /\ \A i \in 1..(k - 1 + 1 - 1) : a[i] = s[1 + i - 1]
    BY <1>1, <2>1, Piece
  <2> QED BY <2>1, <2>2
<1>4. b \in Seq(Chars) /\ Len(b) = n - k /\ \A i \in 1..(n - k) : b[i] = s[k + i]
  <2>1. PICK m : m = k + 1
    OBVIOUS
  <2>2. /\ m \in Nat \ {0} /\ m <= n + 1 /\ n \in Nat /\ n <= Len(s) /\ n + 1 - m = n - k
        /\ \A i \in 1..(n - k) : m + i - 1 = k + i
    BY <1>0, <2>1
  <2>3. b = SubSeq(s, m, n)
    BY <1>1, <2>1, Zenon
  <2>4. b \in Seq(Chars) /\ Len(b) = n + 1 - m /\ \A i \in 1..(n + 1 - m) : b[i] = s[m + i - 1]
    BY <2>2, <2>3, Piece
  <2> QED BY <2>2, <2>4
<1>5. /\ r \in Seq(Chars) /\ Len(r) = Len(a) + Len(b)
      /\ \A i \in 1..Len(a) : r[i] = a[i]
      /\ \A i \in 1..Len(b) : r[Len(a) + i] = b[i]
  <2>1. a \in Seq(Chars) /\ b \in Seq(Chars)
    BY <1>3, <1>4, Zenon
  <2> QED BY <1>2, <2>1, Joined
<1>6. ASSUME NEW i \in k..(n - 1) PROVE r[i] = s[i + 1]
  <2>1. i - (k - 1) \in 1..(n - k) /\ (k - 1) + (i - (k - 1)) = i /\ k + (i - (k - 1)) = i + 1
    BY <1>0
  <2>2. b[i - (k - 1)] = s[i + 1]
    BY <1>4, <2>1, Zenon
  <2>3. r[(k - 1) + (i - (k - 1))] = b[i - (k - 1)]
    BY <1>3, <1>4, <1>5, <2>1, Zenon
  <2> QED BY <2>1, <2>2, <2>3, Zenon
<1>7. (k - 1) + (n - k) = n - 1
  BY <1>0
<1>8. /\ r \in Seq(Chars) /\ Len(r) = n - 1
      /\ \A i \in 1..(k - 1) : r[i] = s[i]
      /\ \A i \in k..(n - 1) : r[i] = s[i + 1]
  BY <1>3, <1>4, <1>5, <1>6, <1>7, Zenon
<1> QED BY <1>0, <1>8, Zenon

\* A typed character is inserted at the cursor.
LEMMA TypeInserts ==
  ASSUME Shape, NEW ch \in Chars, TypeLast(ch) \/ TypeInside(ch)
  PROVE  Editor!Insert(ch)
<1>1. /\ Shape' /\ pos' = pos + 1 /\ length' = length + 1 /\ returned' = returned
      /\ line'[pos] = ch
      /\ \A i \in Nat : i < pos => line'[i] = line[i]
      /\ \A i \in Nat : pos < i /\ i <= length => line'[i] = line[i - 1]
  <2>1. CASE TypeInside(ch)
    <3>1. returned' = returned
      BY <2>1 DEF TypeInside
    <3> QED BY <2>1, <3>1, TypeInsideText
  <2>2. CASE TypeLast(ch)
    <3>1. /\ line' = [line EXCEPT ![length] = ch] /\ pos = length /\ pos' = length + 1
          /\ length' = length + 1 /\ returned' = returned
      BY <2>2 DEF TypeLast
    <3>2. Shape'
      BY <2>2, TypeLastShape
    <3>3. line'[length] = ch /\ \A i \in Indices : i # length => line'[i] = line[i]
      BY <3>1, ShapeFacts DEF Shape, Memory
    <3>4. \A i \in Nat : i < length => i \in Indices /\ i # length
      BY ShapeFacts
    <3>5. \A i \in Nat : ~ (length < i /\ i <= length)
      BY ShapeFacts
    <3> QED BY <3>1, <3>2, <3>3, <3>4, <3>5
  <2> QED BY <2>1, <2>2
<1>2. PICK s \in Seq(Chars), n \in Nat, k \in 0..length : s = Text /\ n = length /\ k = pos /\ n = Len(s)
  BY <1>1, TextFacts, ShapeFacts
<1>3. \A i \in 1..n : s[i] = line[i - 1]
  BY <1>2, TextFacts, ShapeFacts
<1>4. PICK r \in Seq(Chars) :
           /\ r = InsertAt(s, k + 1, ch) /\ Len(r) = Len(s) + 1 /\ r[k + 1] = ch
           /\ \A i \in 1..k : r[i] = s[i]
           /\ \A i \in (k + 2)..(Len(s) + 1) : r[i] = s[i - 1]
  <2>1. k \in 0..Len(s)
    BY <1>2
  <2> QED BY <2>1, Inserted, Zenon
<1>5. /\ r \in Seq(Chars) /\ Len(r) = n + 1 /\ r[k + 1] = ch
      /\ \A i \in 1..k : r[i] = s[i]
      /\ \A i \in (k + 2)..(n + 1) : r[i] = s[i - 1]
  BY <1>2, <1>4, Zenon
<1>6. ASSUME NEW i \in 1..(n + 1) PROVE r[i] = line'[i - 1]
  <2>1. CASE i <= k
    <3>1. i \in 1..k /\ i \in 1..n /\ i - 1 \in Nat /\ i - 1 < k
      BY <1>2, <2>1
    <3> QED BY <1>1, <1>2, <1>3, <1>5, <3>1
  <2>2. CASE i = k + 1
    <3>1. i - 1 = k
      BY <1>2, <2>2
    <3> QED BY <1>1, <1>2, <1>5, <2>2, <3>1
  <2>3. CASE i > k + 1
    <3>1. /\ i \in (k + 2)..(n + 1) /\ i - 1 \in 1..n /\ i - 1 \in Nat /\ k < i - 1 /\ i - 1 <= n
      BY <1>2, <2>3
    <3>2. r[i] = s[i - 1] /\ s[i - 1] = line[i - 1 - 1]
      BY <1>3, <1>5, <3>1
    <3>3. line'[i - 1] = line[i - 1 - 1]
      BY <1>1, <1>2, <3>1
    <3> QED BY <3>2, <3>3
  <2> QED BY <1>2, <2>1, <2>2, <2>3
<1>7. Text' = r
  <2>1. Len(r) = length' /\ \A i \in 1..Len(r) : r[i] = line'[i - 1]
    BY <1>1, <1>2, <1>5, <1>6
  <2> QED BY <1>1, <1>5, <2>1, TextAfter
<1>8. Text' = InsertAt(Text, pos + 1, ch)
  BY <1>2, <1>4, <1>7, Zenon
<1> QED BY <1>1, <1>8, Zenon DEF Editor!Insert, Editor!InsertAt, InsertAt

\* The character before the cursor is removed.
LEMMA EraseRemoves ==
  ASSUME Shape, EraseLast \/ EraseInside
  PROVE  Editor!Erase
<1>1. /\ Shape' /\ pos > 0 /\ pos' = pos - 1 /\ length' = length - 1 /\ returned' = returned
      /\ \A i \in Nat : i < pos - 1 => line'[i] = line[i]
      /\ \A i \in Nat : pos - 1 <= i /\ i < length - 1 => line'[i] = line[i + 1]
  <2>1. CASE EraseInside
    <3>1. returned' = returned
      BY <2>1 DEF EraseInside
    <3> QED BY <2>1, <3>1, EraseInsideText, ShapeFacts
  <2>2. CASE EraseLast
    <3>1. /\ line' = [line EXCEPT ![length - 1] = NUL] /\ pos = length /\ pos > 0 /\ pos' = length - 1
          /\ length' = length - 1 /\ returned' = returned
      BY <2>2 DEF EraseLast
    <3>2. Shape'
      BY <2>2, EraseLastShape
    <3>3. \A i \in Indices : i # length - 1 => line'[i] = line[i]
      BY <3>1 DEF Shape, Memory
    <3>4. \A i \in Nat : i < length - 1 => i \in Indices /\ i # length - 1
      BY ShapeFacts
    <3>5. \A i \in Nat : ~ (length - 1 <= i /\ i < length - 1)
      BY ShapeFacts
    <3> QED BY <3>1, <3>2, <3>3, <3>4, <3>5
  <2> QED BY <2>1, <2>2
<1>2. PICK s \in Seq(Chars), n \in Nat, k \in 1..length : s = Text /\ n = length /\ k = pos /\ n = Len(s)
  BY <1>1, TextFacts, ShapeFacts
<1>3. \A i \in 1..n : s[i] = line[i - 1]
  BY <1>2, TextFacts, ShapeFacts
<1>4. PICK r \in Seq(Chars) :
           /\ r = RemoveAt(s, k) /\ Len(r) = Len(s) - 1
           /\ \A i \in 1..(k - 1) : r[i] = s[i]
           /\ \A i \in k..(Len(s) - 1) : r[i] = s[i + 1]
  <2>1. k \in 1..Len(s)
    BY <1>2
  <2> QED BY <2>1, Removed, Zenon
<1>5. /\ r \in Seq(Chars) /\ Len(r) = n - 1
      /\ \A i \in 1..(k - 1) : r[i] = s[i]
      /\ \A i \in k..(n - 1) : r[i] = s[i + 1]
  BY <1>2, <1>4, Zenon
<1>6. ASSUME NEW i \in 1..(n - 1) PROVE r[i] = line'[i - 1]
  <2>1. CASE i < k
    <3>1. i \in 1..(k - 1) /\ i \in 1..n /\ i - 1 \in Nat /\ i - 1 < k - 1
      BY <1>2, <2>1
    <3> QED BY <1>1, <1>2, <1>3, <1>5, <3>1
  <2>2. CASE i >= k
    <3>1. /\ i \in k..(n - 1) /\ i + 1 \in 1..n /\ i - 1 \in Nat /\ k - 1 <= i - 1 /\ i - 1 < n - 1
          /\ (i - 1) + 1 = (i + 1) - 1
      BY <1>2, <2>2
    <3>2. r[i] = s[i + 1] /\ s[i + 1] = line[(i + 1) - 1]
      BY <1>3, <1>5, <3>1
    <3>3. line'[i - 1] = line[(i - 1) + 1]
      BY <1>1, <1>2, <3>1
    <3> QED BY <3>1, <3>2, <3>3
  <2> QED BY <1>2, <2>1, <2>2
<1>7. Text' = r
  <2>1. Len(r) = length' /\ \A i \in 1..Len(r) : r[i] = line'[i - 1]
    BY <1>1, <1>2, <1>5, <1>6
  <2> QED BY <1>1, <1>5, <2>1, TextAfter
<1>8. Text' = RemoveAt(Text, pos)
  BY <1>2, <1>4, <1>7, Zenon
<1> QED BY <1>1, <1>8, Zenon DEF Editor!Erase, Editor!RemoveAt, RemoveAt

\* The cursor keys change nothing but the cursor.
LEMMA MoveMoves ==
  ASSUME Shape, Right \/ Left
  PROVE  Editor!Move
<1>1. line' = line /\ length' = length /\ returned' = returned /\ pos' \in {pos - 1, pos + 1} \cap 0..length
  BY ShapeFacts DEF Right, Left
<1>2. Text' = Text /\ Len(Text) = length
  BY <1>1, TextFacts DEF Text
<1> QED BY <1>1, <1>2 DEF Editor!Move

\* Where two texts are joined they come apart again.
LEMMA Apart ==
  ASSUME NEW a \in Seq(Chars), NEW b \in Seq(Chars), NEW c, c = a \o b
  PROVE  SubSeq(c, 1, Len(a)) = a /\ SubSeq(c, Len(a) + 1, Len(c)) = b
<1>1. /\ c \in Seq(Chars) /\ Len(a) \in Nat /\ Len(b) \in Nat /\ Len(c) = Len(a) + Len(b)
      /\ \A i \in 1..Len(a) : c[i] = a[i]
      /\ \A i \in 1..Len(b) : c[Len(a) + i] = b[i]
  BY Joined
<1>2. PICK k, n, m : k = Len(a) /\ n = Len(c) /\ m = k + 1
  OBVIOUS
<1>3. PICK p, q : p = SubSeq(c, 1, k) /\ q = SubSeq(c, m, n)
  OBVIOUS
<1>4. p = a
  <2>1. 1 \in Nat \ {0} /\ k \in Nat /\ 1 <= k + 1 /\ k <= Len(c) /\ k + 1 - 1 = k
        /\ \A i \in 1..k : 1 + i - 1 = i
    BY <1>1, <1>2
  <2>2. p \in Seq(Chars) /\ Len(p) = k + 1 - 1 /\ \A i \in 1..(k + 1 - 1) : p[i] = c[1 + i - 1]
    BY <1>1, <1>3, <2>1, Piece
  <2>3. Len(p) = Len(a) /\ \A i \in 1..Len(p) : p[i] = a[i]
    BY <1>1, <1>2, <2>1, <2>2
  <2> QED BY <2>2, <2>3, SeqEqual
<1>5. q = b
  <2>1. m \in Nat \ {0} /\ n \in Nat /\ m <= n + 1 /\ n <= Len(c) /\ n + 1 - m = Len(b)
        /\ \A i \in 1..Len(b) : m + i - 1 = k + i
    BY <1>1, <1>2
  <2>2. q \in Seq(Chars) /\ Len(q) = n + 1 - m /\ \A i \in 1..(n + 1 - m) : q[i] = c[m + i - 1]
    BY <1>1, <1>3, <2>1, Piece
  <2>3. Len(q) = Len(b)
    BY <2>1, <2>2, Zenon
  <2>4. ASSUME NEW i \in 1..Len(b) PROVE q[i] = b[i]
    <3>1. c[Len(a) + i] = b[i] /\ m + i - 1 = Len(a) + i
      BY <1>1, <1>2, <2>1, Zenon
    <3> QED BY <2>1, <2>2, <3>1, Zenon
  <2> QED BY <2>2, <2>3, <2>4, SeqEqual
<1> QED BY <1>2, <1>3, <1>4, <1>5, Zenon

\* The first places of the first places.
LEMMA FrontOfFront ==
  ASSUME NEW s \in Seq(Chars), NEW k \in 0..Len(s), NEW i \in 0..k, NEW f, f = SubSeq(s, 1, k)
  PROVE  /\ f \in Seq(Chars) /\ Len(f) = k /\ \A j \in 1..k : f[j] = s[j]
         /\ SubSeq(f, 1, i) = SubSeq(s, 1, i)
<1>1. PICK n \in Nat : n = Len(s) /\ k \in 0..n
  BY LenProperties
<1>2. /\ 1 \in Nat \ {0} /\ k \in Nat /\ 1 <= k + 1 /\ k <= Len(s) /\ k + 1 - 1 = k
      /\ \A j \in 1..k : 1 + j - 1 = j
      /\ i \in Nat /\ 1 <= i + 1 /\ i <= Len(s) /\ i <= k /\ i + 1 - 1 = i
      /\ \A j \in 1..i : 1 + j - 1 = j /\ j \in 1..k
  BY <1>1
<1>3. f \in Seq(Chars) /\ Len(f) = k + 1 - 1 /\ \A j \in 1..(k + 1 - 1) : f[j] = s[1 + j - 1]
  BY <1>2, Piece
<1>4. f \in Seq(Chars) /\ Len(f) = k /\ \A j \in 1..k : f[j] = s[j]
  BY <1>2, <1>3
<1>5. PICK p, q : p = SubSeq(f, 1, i) /\ q = SubSeq(s, 1, i)
  OBVIOUS
<1>6. i <= Len(f)
  BY <1>2, <1>4
<1>7. p \in Seq(Chars) /\ Len(p) = i + 1 - 1 /\ \A j \in 1..(i + 1 - 1) : p[j] = f[1 + j - 1]
  BY <1>2, <1>4, <1>5, <1>6, Piece
<1>8. q \in Seq(Chars) /\ Len(q) = i + 1 - 1 /\ \A j \in 1..(i + 1 - 1) : q[j] = s[1 + j - 1]
  BY <1>2, <1>5, Piece
<1>9. Len(p) = Len(q) /\ \A j \in 1..Len(p) : p[j] = q[j]
  BY <1>2, <1>4, <1>7, <1>8
<1>10. p = q
  BY <1>7, <1>8, <1>9, SeqEqual
<1> QED BY <1>4, <1>5, <1>10, Zenon

\* What is before the cursor.
LEMMA BeforeIsFront ==
  ASSUME Shape
  PROVE  Before = SubSeq(Text, 1, pos)
<1>1. PICK s \in Seq(Chars), b \in Seq(Chars), n \in Nat, k \in Nat :
           /\ s = Text /\ b = Before /\ n = length /\ k = pos
           /\ k <= n /\ n = Len(s) /\ k = Len(b)
  BY TextFacts, BeforeText, ShapeFacts
<1>2. (\A i \in 1..n : s[i] = line[i - 1]) /\ \A i \in 1..k : b[i] = line[i - 1]
  BY <1>1, TextFacts, BeforeText
<1>3. PICK f : f = SubSeq(s, 1, k)
  OBVIOUS
<1>4. k \in 0..Len(s) /\ 0 \in 0..k
  BY <1>1
<1>5. f \in Seq(Chars) /\ Len(f) = k /\ \A i \in 1..k : f[i] = s[i]
  BY <1>3, <1>4, FrontOfFront
<1>6. Len(f) = Len(b) /\ \A i \in 1..Len(f) : f[i] = b[i]
  BY <1>1, <1>2, <1>5
<1>7. f = b
  BY <1>1, <1>5, <1>6, SeqEqual
<1> QED BY <1>1, <1>3, <1>7, Zenon

\* A completion is one of the editor of texts.
LEMMA TabCompletes ==
  ASSUME Shape, Tab
  PROVE  Editor!Complete
<1>1. PICK prefix \in Seq(Chars), rest \in Seq(Chars), whole \in Seq(Chars) :
           /\ prefix = Completed(Before, comp_pos) /\ whole = prefix \o rest
           /\ CompleteTo(prefix, whole)
           /\ rest = StrAt(line, pos)
           /\ Len(whole) \in Nat /\ length' = Len(whole) /\ pos' = Len(prefix)
           /\ \A i \in 1..Len(whole) : line'[i - 1] = whole[i]
           /\ Shape'
  BY TabText
<1>2. Text' = whole
  BY <1>1, TextAfter
<1>3. /\ SubSeq(whole, 1, Len(prefix)) = prefix
      /\ SubSeq(whole, Len(prefix) + 1, Len(whole)) = rest
  BY <1>1, Apart
<1>4. Editor!Before' = prefix /\ Editor!Behind' = rest
  BY <1>1, <1>2, <1>3, Zenon DEF Editor!Before, Editor!Behind
<1>5. pos' \in 0..Len(Text')
  <2>1. Len(prefix) \in Nat /\ Len(rest) \in Nat /\ Len(whole) = Len(prefix) + Len(rest)
    BY <1>1, Joined
  <2> QED BY <1>1, <1>2, <2>1
<1>6. PICK s \in Seq(Chars), n \in Nat, k \in Nat :
           s = Text /\ n = length /\ k = pos /\ k <= n /\ n = Len(s)
  BY TextFacts, ShapeFacts
<1>7. Editor!IsPrefix(Editor!Behind, rest)
  <2>1. PICK b, m : b = SubSeq(s, m, n) /\ m = k + 1
    OBVIOUS
  <2>2. m \in Nat \ {0} /\ m <= n + 1 /\ n <= Len(s) /\ n + 1 - m = n - k /\ n - k \in Nat
        /\ \A i \in 1..(n - k) : m + i - 1 = k + i /\ k + i \in 1..n /\ (k + i) - 1 = k + i - 1
    BY <1>6, <2>1
  <2>3. b \in Seq(Chars) /\ Len(b) = n + 1 - m /\ \A i \in 1..(n + 1 - m) : b[i] = s[m + i - 1]
    BY <1>6, <2>1, <2>2, Piece
  <2>4. PICK h : h = n - k
    OBVIOUS
  <2>5. h \in Nat /\ Len(b) = h /\ Len(rest) >= h
    BY <1>1, <1>6, <2>2, <2>3, <2>4, RestText
  <2>6. ASSUME NEW i \in 1..h PROVE b[i] = rest[i]
    <3>1. b[i] = s[k + i] /\ k + i \in 1..n /\ (k + i) - 1 = k + i - 1
      BY <2>2, <2>3, <2>4, Zenon
    <3>2. s[k + i] = line[(k + i) - 1]
      BY <1>6, <3>1, TextFacts
    <3>3. i \in 1..Len(rest)
      BY <2>5, LenProperties
    <3>4. rest[i] = line[k + i - 1]
      BY <1>1, <1>6, <3>3, RestText
    <3> QED BY <3>1, <3>2, <3>4, Zenon
  <2>7. PICK p, q : p = SubSeq(b, 1, h) /\ q = SubSeq(rest, 1, h)
    OBVIOUS
  <2>8. 1 \in Nat \ {0} /\ 1 <= h + 1 /\ h <= Len(b) /\ h <= Len(rest) /\ h + 1 - 1 = h
        /\ \A i \in 1..h : 1 + i - 1 = i
    BY <2>5, LenProperties
  <2>9. p \in Seq(Chars) /\ Len(p) = h + 1 - 1 /\ \A i \in 1..(h + 1 - 1) : p[i] = b[1 + i - 1]
    BY <2>3, <2>5, <2>7, <2>8, Piece
  <2>10. q \in Seq(Chars) /\ Len(q) = h + 1 - 1 /\ \A i \in 1..(h + 1 - 1) : q[i] = rest[1 + i - 1]
    BY <2>5, <2>7, <2>8, Piece
  <2>11. Len(p) = Len(q) /\ \A i \in 1..Len(p) : p[i] = q[i]
    BY <2>6, <2>8, <2>9, <2>10, Zenon
  <2>12. p = q
    BY <2>9, <2>10, <2>11, SeqEqual
  <2>13. Len(b) <= Len(rest) /\ SubSeq(b, 1, Len(b)) = SubSeq(rest, 1, Len(b))
    BY <2>5, <2>7, <2>8, <2>12, Zenon
  <2>14. b = Editor!Behind
    BY <1>6, <2>1, Zenon DEF Editor!Behind
  <2> QED BY <2>13, <2>14, Zenon DEF Editor!IsPrefix, IsPrefix
<1>8. PICK b \in Seq(Chars) : b = Before /\ b = SubSeq(s, 1, k) /\ Len(b) = k
  BY <1>6, BeforeText, BeforeIsFront
<1>9. Editor!Before = b
  BY <1>6, <1>8, Zenon DEF Editor!Before
<1>10. CASE prefix = b
  BY <1>1, <1>4, <1>5, <1>7, <1>9, <1>10, Zenon DEF Editor!Complete, CompleteTo
<1>11. CASE prefix # b
  <2>1. comp_pos \in Nat
    BY DEF Shape
  <2>2. PICK i \in 2..Len(b), name \in Names :
              /\ b[i] = Slash
              /\ \A j \in (i + 1)..Len(b) : b[j] # Blank /\ b[j] # Slash
              /\ prefix = SubSeq(b, 1, i) \o name
    <3>1. \/ Completed(b, comp_pos) = b
          \/ \E i \in 2..Len(b), name \in Names :
               /\ name \in Seq(Chars)
               /\ b[i] = Slash
               /\ \A j \in (i + 1)..Len(b) : b[j] # Blank /\ b[j] # Slash
               /\ Completed(b, comp_pos) = SubSeq(b, 1, i) \o name
      BY <2>1, CompletedText, Zenon
    <3>2. prefix = Completed(b, comp_pos)
      BY <1>1, <1>8, Zenon
    <3> QED BY <1>11, <3>1, <3>2, Zenon
  <2>3. k \in 0..Len(s) /\ i \in 0..k /\ i \in 2..k /\ i \in 1..k
    BY <1>6, <1>8, <2>2
  <2>4. SubSeq(b, 1, i) = SubSeq(s, 1, i) /\ \A j \in 1..k : b[j] = s[j]
    BY <1>8, <2>3, FrontOfFront
  <2>5. {" ", "/"} \cap Editor!ToSet(SubSeq(s, i + 1, k)) = {}
    <3>1. PICK w, m : w = SubSeq(s, m, k) /\ m = i + 1
      OBVIOUS
    <3>2. m \in Nat \ {0} /\ m <= k + 1 /\ k <= Len(s)
      BY <1>6, <2>3, <3>1
    <3>3. w \in Seq(Chars) /\ Len(w) = k + 1 - m /\ \A j \in 1..(k + 1 - m) : w[j] = s[m + j - 1]
      BY <1>6, <3>1, <3>2, Piece
    <3>4. ASSUME NEW j \in DOMAIN w PROVE w[j] # " " /\ w[j] # "/"
      <4>1. j \in 1..(k + 1 - m)
        BY <3>3, LenProperties
      <4>2. m + j - 1 \in (i + 1)..k /\ m + j - 1 \in 1..k
        BY <1>6, <2>3, <3>1, <4>1
      <4>3. w[j] = b[m + j - 1]
        BY <2>4, <3>3, <4>1, <4>2, Zenon
      <4> QED BY <1>8, <2>2, <4>2, <4>3, Zenon DEF Blank, Slash
    <3> QED BY <3>1, <3>4, Zenon DEF Editor!ToSet, ToSet
  <2>6. Text[i] = "/"
    BY <1>6, <2>2, <2>3, <2>4, Zenon DEF Slash
  <2>7. Editor!Before' = SubSeq(Text, 1, i) \o name
    BY <1>4, <1>6, <2>2, <2>4, Zenon
  <2>8. {" ", "/"} \cap Editor!ToSet(SubSeq(Text, i + 1, pos)) = {}
    BY <1>6, <2>5, Zenon
  <2>9. i \in 2..pos /\ returned' = returned
    BY <1>1, <1>6, <2>3 DEF CompleteTo
  <2> QED BY <1>4, <1>5, <1>7, <2>6, <2>7, <2>8, <2>9, Zenon DEF Editor!Complete
<1> QED BY <1>10, <1>11

\* Every step of get_line() is one of the editor of texts, or none.
THEOREM ImplementsTextEditor == Spec => Refinement
<1>1. Init => Editor!Init
  BY DEF Init, Editor!Init, Text, StrNAt
<1>2. IInv /\ [Next]_vars => [Editor!Next]_(Editor!vars)
  <2> SUFFICES ASSUME Shape, Rests, [Next]_vars PROVE [Editor!Next]_(Editor!vars)
    BY DEF IInv
  <2>1. ASSUME NEW ch \in Chars, TypeLast(ch) \/ TypeInside(ch) PROVE Editor!Next
    BY <2>1, TypeInserts DEF Editor!Next
  <2>2. CASE EraseLast \/ EraseInside
    BY <2>2, EraseRemoves DEF Editor!Next
  <2>3. CASE Right \/ Left
    BY <2>3, MoveMoves DEF Editor!Next
  <2>4. CASE Tab
    BY <2>4, TabCompletes DEF Editor!Next
  <2>5. CASE Return
    <3>1. Text' = <<>> /\ pos' = 0 /\ returned' = Text
      BY <2>5 DEF Return, Text, StrNAt
    <3> QED BY <3>1 DEF Editor!Next, Editor!Submit
  <2>6. CASE Prompt
    <3>1. Text = <<>> /\ Text' = Text /\ pos' = pos /\ returned' = <<>>
      BY <2>6 DEF Prompt, Rests, Text, StrNAt
    <3> QED BY <3>1 DEF Editor!Next, Editor!Prompt
  <2>7. CASE Interrupt \/ Quit \/ UNCHANGED vars
    <3>1. Text' = Text /\ pos' = pos /\ returned' = returned
      BY <2>7 DEF Interrupt, Quit, vars, Text
    <3> QED BY <3>1 DEF Editor!vars
  <2> QED BY <2>1, <2>2, <2>3, <2>4, <2>5, <2>6, <2>7 DEF Next
<1> QED BY <1>1, <1>2, EditorInductive, PTL DEF Spec, Refinement, Editor!Spec

(***************************************************************************)
(* The job table.                                                          *)
(***************************************************************************)

\* An allocated table is not the null pointer.
LEMMA AllocatedNotNull ==
  ASSUME NEW c \in Nat, NEW t, DOMAIN t = 0..c
  PROVE  t # NULL
<1>1. DOMAIN NULL = {}
  BY DEF NULL
<1>2. 0 \in 0..c
  OBVIOUS
<1> QED BY <1>1, <1>2

\* A table that was never allocated reads like one full of free places.
LEMMA TableType ==
  ASSUME TypeOK
  PROVE  /\ Table \in [0..jobs_capacity -> Pids \cup {0}]
         /\ Table[0] = 0
BY DEF TypeOK, Table

\* The jobs listed are those of the table, allocated or not.
LEMMA ListedIsTable ==
  ASSUME TypeOK
  PROVE  Listed = [i \in {k \in Places : Table[k] # 0} |-> Table[i]]
<1>1. CASE jobs = NULL
  <2>1. {k \in Places : Table[k] # 0} = {}
    BY <1>1 DEF Table, Places, TypeOK
  <2>2. Listed = [i \in {} |-> jobs[i]]
    BY <1>1 DEF Listed
  <2> QED BY <2>1, <2>2
<1>2. CASE jobs # NULL
  BY <1>2 DEF Listed, Table
<1> QED BY <1>1, <1>2

\* The jobs listed after a step that leaves a table.
LEMMA ListedNext ==
  ASSUME jobs' # NULL
  PROVE  Listed' = [i \in {k \in 1..jobs_capacity' : jobs'[k] # 0} |-> jobs'[i]]
BY DEF Listed, Places, NULL

\* Searching the table and searching the list come to the same.
LEMMA FindsAlike ==
  ASSUME TypeOK, NEW pid \in Pids, NEW i \in {0} \cup Places, Finds(pid, i)
  PROVE  Jobs!Finds(pid, i)
<1> USE PidsAssumption, ListedIsTable DEF Jobs!Finds, Jobs!Numbers, Places, TypeOK
<1>1. CASE jobs = NULL
  <2>1. \A k \in Places : Table[k] = 0
    BY <1>1 DEF Table
  <2> QED BY <1>1, <2>1 DEF Finds
<1>2. CASE jobs # NULL
  <2>1. Table = jobs
    BY <1>2 DEF Table
  <2> QED BY <1>2, <2>1 DEF Finds
<1> QED BY <1>1, <1>2

-----------------------------------------------------------------------------

\* An allocated table of the right shape is all that TypeOK asks for.
LEMMA TypeFromTable ==
  ASSUME jobs_capacity' \in Nat \ {0}, result' \in Nat,
         jobs' \in [0..jobs_capacity' -> Pids \cup {0}], jobs'[0] = 0
  PROVE  TypeOK'
BY DEF TypeOK, NULL

\* Adding a job keeps the type.
LEMMA AddType ==
  ASSUME TypeOK, NEW pid \in Pids, Add(pid)
  PROVE  TypeOK'
BY TableType DEF TypeOK, Add, Places, NULL

\* Doubling the table keeps the type.
LEMMA GrowType ==
  ASSUME TypeOK, NEW pid \in Pids, Grow(pid)
  PROVE  TypeOK'
<1>1. jobs_capacity' \in Nat \ {0} /\ result' \in Nat
  BY DEF TypeOK, Grow
<1>2. DOMAIN Table = 0..jobs_capacity
  BY TableType
<1>3. jobs' \in [0..jobs_capacity' -> Pids \cup {0}]
  BY <1>1, <1>2, TableType DEF TypeOK, Grow
<1>4. jobs'[0] = 0
  BY <1>1, <1>2, TableType DEF TypeOK, Grow
<1> QED BY <1>1, <1>3, <1>4, TypeFromTable

\* Clearing a place keeps the type.
LEMMA ClearType ==
  ASSUME TypeOK, NEW i \in Nat, Clear(i)
  PROVE  TypeOK'
BY DEF TypeOK, Clear, NULL

\* Every call keeps the type.
LEMMA TypeStep == TypeOK /\ [TableNext]_tableVars => TypeOK'
<1> SUFFICES ASSUME TypeOK, [TableNext]_tableVars PROVE TypeOK'
  OBVIOUS
<1> USE PidsAssumption, IdsAssumption
<1>1. ASSUME NEW pid \in Pids, Add(pid) \/ Grow(pid)
      PROVE  TypeOK'
  BY <1>1, AddType, GrowType
<1>2. ASSUME NEW pid \in Pids, get_job_id(pid)
      PROVE  TypeOK'
  BY <1>2 DEF get_job_id, TypeOK, Places, NULL
<1>3. ASSUME NEW pid \in Pids, delete_job_by_pid(pid)
      PROVE  TypeOK'
  BY <1>3, ClearType DEF delete_job_by_pid, Places, TypeOK
<1>4. ASSUME NEW id \in Ids, get_job(id)
      PROVE  TypeOK'
  BY <1>4 DEF get_job, TypeOK, NULL
<1>5. ASSUME NEW id \in Ids, delete_job_by_id(id)
      PROVE  TypeOK'
  BY <1>5, ClearType DEF delete_job_by_id
<1>6. CASE UNCHANGED tableVars
  BY <1>6 DEF tableVars, TypeOK, NULL
<1> QED BY <1>1, <1>2, <1>3, <1>4, <1>5, <1>6 DEF TableNext

\* The table has a place for every number up to its capacity, and place 0 is
\* never taken, for every set of pids and every first capacity.
THEOREM TypeCorrect == TableSpec => []TypeOK
<1>1. TableInit => TypeOK
  BY CapacityAssumption DEF TableInit, TypeOK
<1> QED BY <1>1, TypeStep, PTL DEF TableSpec

-----------------------------------------------------------------------------

\* A table with one more job lists that job as well.
LEMMA AddMapped ==
  ASSUME TypeOK, NEW pid \in Pids, Add(pid)
  PROVE  Jobs!Add(pid)
<1>1. PICK i \in Places :
        /\ Table[i] = 0 /\ result' = i
        /\ \A k \in 1..(i - 1) : Table[k] # 0
        /\ jobs' = [Table EXCEPT ![i] = pid]
        /\ UNCHANGED jobs_capacity
  BY DEF Add
<1> DEFINE taken == {k \in Places : Table[k] # 0}
<1>2. Listed = [k \in taken |-> Table[k]]
  BY ListedIsTable
<1>3. DOMAIN jobs' = 0..jobs_capacity /\ jobs_capacity \in Nat
  BY <1>1, TableType DEF TypeOK
<1>4. jobs' # NULL
  BY <1>3, AllocatedNotNull
<1>5. Listed' = [k \in {n \in Places : jobs'[n] # 0} |-> jobs'[k]]
  BY <1>1, <1>4, ListedNext DEF Places
<1>6. {n \in Places : jobs'[n] # 0} = taken \cup {i}
  BY <1>1, TableType, PidsAssumption DEF Places, TypeOK
<1>7. \A k \in taken \cup {i} : jobs'[k] = IF k = i THEN pid ELSE Table[k]
  BY <1>1, TableType DEF Places, TypeOK
<1>8. Listed' = [k \in taken \cup {i} |-> IF k = i THEN pid ELSE Listed[k]]
  BY <1>2, <1>5, <1>6, <1>7
<1>9. i \in Nat \ (taken \cup {0}) /\ \A k \in 1..(i - 1) : k \in taken
  BY <1>1 DEF Places, TypeOK
<1>10. DOMAIN Listed = taken
  BY <1>2
<1> HIDE DEF taken
<1> QED BY <1>1, <1>8, <1>9, <1>10 DEF Jobs!Add, Jobs!Numbers

\* A table that grew lists the jobs it had and the new one.
LEMMA GrowMapped ==
  ASSUME TypeOK, NEW pid \in Pids, Grow(pid)
  PROVE  Jobs!Add(pid)
<1> DEFINE i == jobs_capacity + 1
<1>1. /\ \A k \in Places : Table[k] # 0
      /\ jobs_capacity' = 2 * jobs_capacity /\ result' = i
      /\ jobs' = [k \in 0..jobs_capacity' |->
                    IF k \in DOMAIN Table THEN Table[k]
                    ELSE IF k = i THEN pid ELSE 0]
  BY DEF Grow
<1>2. DOMAIN Table = 0..jobs_capacity /\ jobs_capacity \in Nat \ {0}
  BY TableType DEF TypeOK
<1>3. Listed = [k \in Places |-> Table[k]]
  BY <1>1, ListedIsTable
<1>4. jobs' # NULL
  BY <1>1, <1>2, AllocatedNotNull
<1>5. \A k \in 1..jobs_capacity' :
        jobs'[k] = IF k \in Places THEN Table[k] ELSE IF k = i THEN pid ELSE 0
  BY <1>1, <1>2 DEF Places
<1>6. {k \in 1..jobs_capacity' : jobs'[k] # 0} = Places \cup {i}
  BY <1>1, <1>2, <1>5, PidsAssumption DEF Places
<1>7. Listed' = [k \in Places \cup {i} |-> jobs'[k]]
  BY <1>4, <1>6, ListedNext
<1>8. Listed' = [k \in Places \cup {i} |-> IF k = i THEN pid ELSE Listed[k]]
  BY <1>2, <1>3, <1>5, <1>6, <1>7 DEF Places
<1>9. i \in Nat \ (Places \cup {0}) /\ \A k \in 1..(i - 1) : k \in Places
  BY <1>2 DEF Places
<1>10. DOMAIN Listed = Places
  BY <1>3
<1> QED BY <1>1, <1>8, <1>9, <1>10 DEF Jobs!Add, Jobs!Numbers

\* Clearing a place takes its job off the list, and nothing else.
LEMMA ClearMapped ==
  ASSUME TypeOK, NEW i \in Nat, Clear(i)
  PROVE  Listed' = Jobs!Without(i) /\ UNCHANGED result
<1> USE DEF Jobs!Without, Jobs!Numbers
<1>1. UNCHANGED <<jobs_capacity, result>>
  BY DEF Clear
<1>2. CASE jobs = NULL \/ i > jobs_capacity
  <2>1. jobs' = jobs
    BY <1>2 DEF Clear
  <2>2. Listed' = Listed
    BY <1>1, <2>1 DEF Listed, Places, NULL
  <2>3. i \notin DOMAIN Listed
    BY <1>2 DEF Listed, Places, TypeOK
  <2> QED BY <1>1, <2>2, <2>3 DEF Listed
<1>3. CASE jobs # NULL /\ i <= jobs_capacity
  <2>1. jobs' = [jobs EXCEPT ![i] = 0]
    BY <1>3 DEF Clear, TypeOK
  <2>2. jobs' # NULL
    BY <1>3, <2>1, AllocatedNotNull DEF TypeOK
  <2>3. Listed' = [k \in {n \in Places : jobs'[n] # 0} |-> jobs'[k]]
    BY <1>1, <2>2, ListedNext DEF Places
  <2>4. Listed = [k \in {n \in Places : jobs[n] # 0} |-> jobs[k]]
    BY <1>3 DEF Listed
  <2>5. {n \in Places : jobs'[n] # 0} = {n \in Places : jobs[n] # 0} \ {i}
    BY <1>3, <2>1 DEF TypeOK, Places
  <2>6. \A k \in {n \in Places : jobs[n] # 0} \ {i} : jobs'[k] = jobs[k]
    BY <1>3, <2>1 DEF TypeOK, Places
  <2> QED BY <1>1, <2>3, <2>4, <2>5, <2>6
<1> QED BY <1>2, <1>3 DEF TypeOK

\* Every call on the table is a call on the list, or changes neither.
LEMMA StepMapped ==
  ASSUME TypeOK, [TableNext]_tableVars
  PROVE  [Jobs!Next]_(Jobs!vars)
<1> USE PidsAssumption, IdsAssumption
<1>1. ASSUME NEW pid \in Pids, Add(pid) \/ Grow(pid)
      PROVE  Jobs!Next
  BY <1>1, AddMapped, GrowMapped DEF Jobs!Next
<1>2. ASSUME NEW pid \in Pids, get_job_id(pid)
      PROVE  Jobs!Next
  <2>1. PICK i \in {0} \cup Places : Finds(pid, i) /\ result' = i
    BY <1>2 DEF get_job_id
  <2>2. Listed' = Listed
    BY <1>2 DEF get_job_id, Listed, Places, NULL
  <2> QED BY <2>1, <2>2, FindsAlike DEF Jobs!Next, Jobs!NumberOf
<1>3. ASSUME NEW pid \in Pids, delete_job_by_pid(pid)
      PROVE  Jobs!Next
  <2>1. PICK i \in {0} \cup Places : Finds(pid, i) /\ Clear(i)
    BY <1>3 DEF delete_job_by_pid
  <2>2. i \in Nat
    BY DEF Places, TypeOK
  <2>3. Listed' = Jobs!Without(i) /\ UNCHANGED result
    BY <2>1, <2>2, ClearMapped
  <2>4. Jobs!Finds(pid, i)
    BY <2>1, FindsAlike
  <2>5. i \in Jobs!Numbers \cup {0}
    BY <2>4 DEF Jobs!Finds
  <2> QED BY <2>3, <2>4, <2>5 DEF Jobs!Next, Jobs!DeletePid
<1>4. ASSUME NEW id \in Ids, get_job(id)
      PROVE  Jobs!Next
  <2>1. Listed' = Listed
    BY <1>4 DEF get_job, Listed, Places, NULL
  <2>2. result' = IF id \in DOMAIN Listed THEN Listed[id] ELSE 0
    BY <1>4 DEF get_job, Listed, Places, TypeOK
  <2> QED BY <2>1, <2>2 DEF Jobs!Next, Jobs!PidOf, Jobs!Numbers
<1>5. ASSUME NEW id \in Ids, delete_job_by_id(id)
      PROVE  Jobs!Next
  BY <1>5, ClearMapped DEF delete_job_by_id, Jobs!Next, Jobs!DeleteId
<1>6. CASE UNCHANGED tableVars
  BY <1>6 DEF tableVars, Jobs!vars, Listed, Places, NULL
<1> QED BY <1>1, <1>2, <1>3, <1>4, <1>5, <1>6 DEF TableNext

\* job.c implements job.h: every call on the table is the call on the list.
THEOREM ImplementsJobList == TableSpec => JobRefinement
<1>1. TableInit => Jobs!Init
  <2> SUFFICES ASSUME TableInit PROVE Jobs!Init
    OBVIOUS
  <2>1. Listed = [i \in {} |-> jobs[i]]
    BY DEF TableInit, Listed
  <2> QED BY <2>1 DEF TableInit, Jobs!Init, Jobs!Numbers
<1>2. TypeOK /\ [TableNext]_tableVars => [Jobs!Next]_(Jobs!vars)
  BY StepMapped
<1> QED BY <1>1, <1>2, TypeCorrect, PTL DEF TableSpec, JobRefinement, Jobs!Spec
=============================================================================
