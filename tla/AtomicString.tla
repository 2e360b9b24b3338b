---------------------------- MODULE AtomicString ----------------------------
(* What the string programs of lab5 do to their string, seen from outside  *)
(* of their locks: it is reversed, or the case of its letters is changed.  *)
EXTENDS Integers, Sequences, SequencesExt

CONSTANTS Upper      \* the capital of every small letter
VARIABLE  text

\* The other case of a letter; anything else stays.
OtherCase(ch) ==
  IF ch \in DOMAIN Upper THEN Upper[ch]
  ELSE IF ch \in Range(Upper) THEN CHOOSE l \in DOMAIN Upper : Upper[l] = ch
  ELSE ch

Turned(s) == [i \in DOMAIN s |-> OtherCase(s[i])]

Next == text' = Reverse(text) \/ text' = Turned(text)

Spec == [][Next]_text
=============================================================================
