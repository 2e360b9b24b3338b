----------------------------- MODULE TextEditor -----------------------------
(***************************************************************************)
(* What get_line() of lab4/io.c gives its user: a line of text and a       *)
(* cursor, edited one key at a time.  Completion rewrites the last word    *)
(* before the cursor; what is behind the cursor stays behind it, but some  *)
(* more text, left over from a longer line, may come after that.           *)
(***************************************************************************)
EXTENDS Integers, Sequences, SequencesExt

CONSTANTS Chars,     \* what can be typed
          Names      \* names of files

VARIABLES text,      \* the line being edited
          cursor,    \* how many of its characters are before the cursor
          submitted  \* the line handed to the shell

vars == <<text, cursor, submitted>>

Init == text = <<>> /\ cursor = 0 /\ submitted = <<>>

Before == SubSeq(text, 1, cursor)
Behind == SubSeq(text, cursor + 1, Len(text))

Insert(ch) ==
  /\ text' = InsertAt(text, cursor + 1, ch)
  /\ cursor' = cursor + 1
  /\ UNCHANGED submitted

Erase ==
  /\ cursor > 0
  /\ text' = RemoveAt(text, cursor)
  /\ cursor' = cursor - 1
  /\ UNCHANGED submitted

Move ==
  /\ cursor' \in {cursor - 1, cursor + 1} \cap 0..Len(text)
  /\ UNCHANGED <<text, submitted>>

\* What follows the last slash of the word at the cursor becomes a file name,
\* unless there is nothing to complete.
Complete ==
  /\ cursor' \in 0..Len(text')
  /\ IsPrefix(Behind, Behind')
  /\ \/ Before' = Before
     \/ \E i \in 2..cursor, name \in Names :
          /\ text[i] = "/"
          /\ {" ", "/"} \cap ToSet(SubSeq(text, i + 1, cursor)) = {}
          /\ Before' = SubSeq(text, 1, i) \o name
  /\ UNCHANGED submitted

Submit ==
  /\ submitted' = text
  /\ text' = <<>> /\ cursor' = 0

Prompt ==
  /\ text = <<>>
  /\ submitted' = <<>>
  /\ UNCHANGED <<text, cursor>>

Next == (\E ch \in Chars : Insert(ch)) \/ Erase \/ Move \/ Complete
          \/ Submit \/ Prompt

Spec == Init /\ [][Next]_vars
=============================================================================
