----------------------------- MODULE LossyQueue -----------------------------
(***************************************************************************)
(* What the queue of lab6/queue.c gives its caller.  Elements go in one at *)
(* a time; taking returns the oldest one and forgets all the others.  The  *)
(* caller sees -1 when there is nothing to take.                           *)
(***************************************************************************)
EXTENDS Integers, Sequences

CONSTANT Elems       \* descriptors that can be queued

NoElem == -1

VARIABLES items,     \* what is queued, the oldest first
          out        \* what the last dequeue returned

vars == <<items, out>>

Init == items = <<>> /\ out = NoElem

Put(e) == items' = Append(items, e) /\ out' = out

\* The one queued longest comes out, and with it the rest is lost.
Take ==
  /\ items # <<>>
  /\ out' = Head(items)
  /\ items' = <<>>

TakeNothing ==
  /\ items = <<>>
  /\ out' = NoElem
  /\ UNCHANGED items

Discard == items' = <<>> /\ out' = out

Next == (\E e \in Elems : Put(e)) \/ Take \/ TakeNothing \/ Discard

Spec == Init /\ [][Next]_vars
=============================================================================
