----------------------------- MODULE LineEditor -----------------------------
(***************************************************************************)
(* lab4/io.c: get_line(), the line editor of the shell, with the helpers   *)
(* that shift text in its buffer and complete a file name, and what the    *)
(* user sees of it.                                                        *)
(*                                                                         *)
(* One action is one key.  The buffer is memory: a string in it ends at    *)
(* the first NUL, wherever the editor believes the line to end.  The       *)
(* screen is the part of the row behind the prompt.  Every character is    *)
(* one column wide.  A key read as an escape sequence the editor does not  *)
(* know changes nothing and is left out, as is the end of the input.       *)
(***************************************************************************)
EXTENDS Integers, Sequences, SequencesExt, FiniteSetsExt

CONSTANTS
  Chars,       \* characters of lines and of names
  Listing,     \* names in each directory that can be opened, by its path
  Size,        \* length of the line buffer (1024)
  MaxTabs      \* bound: completions in a behaviour

NUL   == "NUL"
Blank == " "
Slash == "/"

ASSUME CharsAssumption == NUL \notin Chars /\ {Blank, Slash} \subseteq Chars
ASSUME SizeAssumption == Size \in Nat /\ Size > 2
ASSUME ListingAssumption == \A d \in DOMAIN Listing : Listing[d] \in Seq(Seq(Chars))

VARIABLES
  line,        \* the buffer
  pos,         \* where the cursor is
  length,      \* where the line ends
  comp_pos,    \* static: completions asked for since the shell started
  screen, col, \* the row behind the prompt, and the cursor in it
  followed,    \* the screen is followed: no ^C, no unterminated text so far
  call,        \* get_line is "reading", has "returned", or the shell has "left"
  returned     \* the line it returned

screenVars == <<screen, col, followed>>
vars == <<line, pos, length, comp_pos, screenVars, call, returned>>

Indices == 0..(Size - 1)
Columns == 0..Size
Zeroed == [i \in Indices |-> NUL]
BlankRow == [i \in Columns |-> Blank]

-----------------------------------------------------------------------------
(* Strings in the buffer.                                                  *)

\* strlen(mem + from)
StrLen(mem, from) == Min({i \in from..(Size - 1) : mem[i] = NUL}) - from

\* The string at mem + from, and n characters from there.
StrNAt(mem, from, n) == [i \in 1..n |-> mem[from + i - 1]]
StrAt(mem, from) == StrNAt(mem, from, StrLen(mem, from))

\* strcpy(mem, s)
StrCpy(mem, s) ==
  [i \in Indices |-> IF i < Len(s) THEN s[i + 1]
                     ELSE IF i = Len(s) THEN NUL ELSE mem[i]]

\* strshl(str, 1): the string at from goes one place to the left.
StrShl(mem, from) ==
  [i \in Indices |-> IF i \in (from - 1)..(from + StrLen(mem, from) - 1)
                     THEN mem[i + 1] ELSE mem[i]]

\* strshr(str, 1): one place to the right; the first character stays.
StrShr(mem, from) ==
  LET end == from + StrLen(mem, from) IN
  [i \in Indices |-> IF i = end + 1 THEN NUL
                     ELSE IF i \in (from + 1)..end THEN mem[i - 1] ELSE mem[i]]

\* The line as the editor sees it, and in its two parts.
Text   == StrNAt(line, 0, length)
Before == StrNAt(line, 0, pos)
Behind == StrNAt(line, pos, length - pos)

-----------------------------------------------------------------------------
(* The screen.                                                             *)

\* What a row looks like when s is printed from column c on.
Printed(row, c, s) ==
  [i \in Columns |-> IF i \in c..(c + Len(s) - 1) THEN s[i - c + 1] ELSE row[i]]

Blanks(n) == [i \in 1..n |-> Blank]

\* The screen is followed as long as the text in the buffer is terminated
\* where the editor believes it to be.
Shows(row, c) ==
  IF followed /\ line'[length'] = NUL
  THEN screen' = row /\ col' = c /\ followed' = TRUE
  ELSE screen' = BlankRow /\ col' = 0 /\ followed' = FALSE

-----------------------------------------------------------------------------
Init ==
  /\ line = Zeroed
  /\ pos = 0 /\ length = 0 /\ comp_pos = 0
  /\ screen = BlankRow /\ col = 0 /\ followed = TRUE
  /\ call = "reading" /\ returned = <<>>

\* The code does not compare a line with the size of its buffer: the model
\* does, and looks at the lines that fit.
Room == length + 2 < Size /\ StrLen(line, 0) + 2 < Size

\* A character at the end of the line ...
TypeLast(ch) ==
  /\ call = "reading" /\ Room
  /\ pos = length
  /\ line' = [line EXCEPT ![pos] = ch]
  /\ pos' = pos + 1 /\ length' = length + 1
  /\ Shows(Printed(screen, col, <<ch>>), col + 1)
  /\ UNCHANGED <<comp_pos, call, returned>>

\* ... and inside it: the rest of the line is printed, and the cursor goes
\* back by as many columns as the line was believed to have there.
TypeInside(ch) ==
  /\ call = "reading" /\ Room
  /\ pos # length
  /\ line' = [StrShr(line, pos) EXCEPT ![pos] = ch]
  /\ pos' = pos + 1 /\ length' = length + 1
  /\ LET tail == StrAt(line', pos) IN
       Shows(Printed(screen, col, tail), col + Len(tail) - (length - pos))
  /\ UNCHANGED <<comp_pos, call, returned>>

EraseLast ==
  /\ call = "reading"
  /\ pos > 0 /\ pos = length
  /\ line' = [line EXCEPT ![pos - 1] = NUL]
  /\ pos' = pos - 1 /\ length' = length - 1
  /\ Shows(Printed(screen, col - 1, <<Blank>>), col - 1)
  /\ UNCHANGED <<comp_pos, call, returned>>

\* Mutant: the cell that the line no longer reaches is not blanked.
EraseInsideDirty ==
  /\ call = "reading"
  /\ pos > 0 /\ pos # length
  /\ line' = StrShl(line, pos)
  /\ pos' = pos - 1 /\ length' = length - 1
  /\ Shows(Printed(screen, col - 1, Behind), col - 1)
  /\ UNCHANGED <<comp_pos, call, returned>>

\* '\b', the rest of the line, two blanks, and back.
EraseInside ==
  /\ call = "reading"
  /\ pos > 0 /\ pos # length
  /\ line' = StrShl(line, pos)
  /\ pos' = pos - 1 /\ length' = length - 1
  /\ Shows(Printed(screen, col - 1, Behind \o Blanks(2)),
           (col - 1) + (length - pos) + 2 - (length - pos + 2))
  /\ UNCHANGED <<comp_pos, call, returned>>

\* The sequence ESC [ 3 ~ that is printed first moves no cursor.
Right ==
  /\ call = "reading"
  /\ pos # length
  /\ pos' = pos + 1
  /\ UNCHANGED <<line, length>>
  /\ Shows(Printed(screen, col, <<line[pos]>>), col + 1)
  /\ UNCHANGED <<comp_pos, call, returned>>

Left ==
  /\ call = "reading"
  /\ pos > 0
  /\ pos' = pos - 1
  /\ UNCHANGED <<line, length>>
  /\ Shows(screen, col - 1)
  /\ UNCHANGED <<comp_pos, call, returned>>

\* complete(): the last word of prefix, taken for a path, gets the skip-th
\* name of its directory.  The last word starts behind the last blank, or
\* behind the first character when there is no blank.  What lies behind the end
\* of an empty prefix (io.c:283) is taken to name no directory, and the two
\* blocks that are a byte or more too short (io.c:263, 423) to have room.
Completed(prefix, skip) ==
  LET space == SelectLastInSeq(prefix, LAMBDA ch : ch = Blank)
      kept  == IF space = 0 THEN 1 ELSE space
      word  == SubSeq(prefix, kept + 1, Len(prefix))
      dir   == SubSeq(word, 1, SelectLastInSeq(word, LAMBDA ch : ch = Slash))
      count == Len(Listing[dir])
      nth   == IF skip > count THEN skip % count ELSE skip
  IN  IF dir # <<>> /\ dir \in DOMAIN Listing /\ count > 0 /\ nth < count
      THEN SubSeq(prefix, 1, kept) \o dir \o Listing[dir][nth + 1]
      ELSE prefix

\* Tab: the two parts are copied out as strings, the first is completed, and
\* the buffer is written again.
CompleteTo(prefix, whole) ==
  /\ Len(whole) + 2 <= Size
  /\ line' = StrCpy(line, whole)
  /\ pos' = Len(prefix) /\ length' = Len(whole)
  /\ comp_pos' = comp_pos + 1
  /\ LET erased == Printed(screen, col - pos, Blanks(length + 1)) IN
       Shows(Printed(erased, col - pos, whole),
             (col - pos) + Len(whole) - (Len(whole) - Len(prefix)))
  /\ UNCHANGED <<call, returned>>

\* Mutant: what is behind the cursor is not written again.
TabDropsRest ==
  /\ call = "reading" /\ comp_pos < MaxTabs
  /\ LET prefix == Completed(Before, comp_pos) IN CompleteTo(prefix, prefix)

Tab ==
  /\ call = "reading" /\ comp_pos < MaxTabs
  /\ LET prefix == Completed(Before, comp_pos) IN
       CompleteTo(prefix, prefix \o StrAt(line, pos))

\* ^C: signal_handler() prints two characters where the cursor is.
Interrupt ==
  /\ call = "reading" /\ followed
  /\ screen' = BlankRow /\ col' = 0 /\ followed' = FALSE
  /\ UNCHANGED <<line, pos, length, comp_pos, call, returned>>

\* Return.  The caller frees the line.
Return ==
  /\ call = "reading"
  /\ call' = "returned" /\ returned' = Text
  /\ line' = Zeroed /\ pos' = 0 /\ length' = 0
  /\ screen' = BlankRow /\ col' = 0 /\ followed' = TRUE
  /\ UNCHANGED comp_pos

\* The next call, with a prompt and a buffer from calloc.
Prompt ==
  /\ call = "returned"
  /\ call' = "reading" /\ returned' = <<>>
  /\ UNCHANGED <<line, pos, length, comp_pos, screenVars>>

\* ^D: goodnight(0), whatever is on the line.
Quit ==
  /\ call = "reading"
  /\ call' = "left"
  /\ UNCHANGED <<line, pos, length, comp_pos, screenVars, returned>>

Next ==
  \/ \E ch \in Chars : TypeLast(ch) \/ TypeInside(ch)
  \/ EraseLast \/ EraseInside \/ Right \/ Left
  \/ Tab \/ Interrupt \/ Return \/ Prompt \/ Quit

Spec == Init /\ [][Next]_vars

-----------------------------------------------------------------------------
(* Correctness.                                                            *)

\* What the user sees is the line that will be returned, with nothing left
\* over on the row, and the cursor is where the next character will go: every
\* key prints exactly what brings the row up to date.
ScreenShowsLine ==
  followed =>
    /\ screen = [i \in Columns |-> IF i < length THEN line[i] ELSE Blank]
    /\ col = pos

\* The arithmetic on the buffer is editing of a text at a cursor, although
\* pieces of older lines stay in memory behind its end.
Names == UNION {ToSet(Listing[d]) : d \in DOMAIN Listing}
Editor == INSTANCE TextEditor
            WITH text <- Text, cursor <- pos, submitted <- returned
Refinement == Editor!Spec

\* io.c:278 says "Trying to complete the last word of prefix": a completion
\* leaves what is behind the cursor as it was.  It does not after a completion
\* that made the line shorter, when a character typed at the new end has
\* taken the place of the terminator.
CompletionKeepsRest == [][comp_pos' # comp_pos => Behind' = Behind]_vars
=============================================================================
