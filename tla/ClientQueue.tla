----------------------------- MODULE ClientQueue ----------------------------
(***************************************************************************)
(* lab6/queue.c: the linked queue of accepted descriptors, one call at a   *)
(* time (WorkerPool has the interleaved calls).  malloc may fail at any    *)
(* call.  The node of the n-th successful malloc is called n, and memory   *)
(* is not handed out twice.                                                *)
(***************************************************************************)
EXTENDS Integers, Sequences, FiniteSets

CONSTANTS Elems,       \* descriptors that can be queued
          MaxNodes     \* bound: nodes allocated in a behaviour

ASSUME ElemsAssumption == Elems \subseteq Nat /\ Elems # {}
ASSUME NodesAssumption == MaxNodes \in Nat

Nodes  == 1..MaxNodes
NULL   == 0
NoElem == -1

VARIABLES
  queue,       \* the queue as a whole: "none", "live" or "destroyed"
  head, tail,  \* the fields of its header
  heap,        \* the three fields of each node
  used,        \* nodes handed out by malloc so far
  allocated,   \* nodes not freed
  out,         \* what the last queue_dequeue returned
  fault        \* the null pointer was dereferenced

vars == <<queue, head, tail, heap, used, allocated, out, fault>>

NodeFields == [head : {NULL} \cup Nodes, tail : {NULL} \cup Nodes, elem : Elems]

Init ==
  /\ queue = "none"
  /\ head = NULL /\ tail = NULL
  /\ heap = [n \in Nodes |-> [head |-> NULL, tail |-> NULL,
                              elem |-> CHOOSE e \in Elems : TRUE]]
  /\ used = 0 /\ allocated = {}
  /\ out = NoElem /\ fault = FALSE

Fresh == used + 1

\* malloc and queue_init for one node; the caller then stores its element.
Allocate ==
  /\ used < MaxNodes
  /\ used' = Fresh
  /\ allocated' = allocated \cup {Fresh}
NewNode(e) == [head |-> NULL, tail |-> NULL, elem |-> e]

\* The header is a node of its own.  When malloc fails there is no queue, and
\* the calls on it return at once.
queue_init ==
  /\ queue = "none" /\ ~fault
  /\ queue' = "live"
  /\ UNCHANGED <<head, tail, heap, used, allocated, out, fault>>

EnqueueFirst(e) ==
  /\ queue = "live" /\ ~fault
  /\ tail = NULL
  /\ Allocate
  /\ head' = Fresh /\ tail' = Fresh
  /\ heap' = [heap EXCEPT ![Fresh] = NewNode(e)]
  /\ UNCHANGED <<queue, out, fault>>

\* malloc failed: both pointers become NULL, and the element is dropped.
EnqueueFirstFails ==
  /\ queue = "live" /\ ~fault
  /\ tail = NULL
  /\ head' = NULL /\ tail' = NULL
  /\ UNCHANGED <<queue, heap, used, allocated, out, fault>>

\* Mutant: the tail of the queue is not advanced to the new node.
EnqueueLinkNotAdvanced(e) ==
  /\ queue = "live" /\ ~fault
  /\ tail # NULL
  /\ Allocate
  /\ heap' = [heap EXCEPT ![Fresh] = NewNode(e), ![tail].tail = Fresh]
  /\ UNCHANGED <<queue, head, tail, out, fault>>

\* Mutant: the element is stored in the old tail, q->tail->elem.
EnqueueLinkMisplaced(e) ==
  /\ queue = "live" /\ ~fault
  /\ tail # NULL
  /\ Allocate
  /\ heap' = [heap EXCEPT ![Fresh] = NewNode(heap[tail].elem),
                          ![tail].tail = Fresh, ![tail].elem = e]
  /\ tail' = Fresh
  /\ UNCHANGED <<queue, head, out, fault>>

EnqueueLink(e) ==
  /\ queue = "live" /\ ~fault
  /\ tail # NULL
  /\ Allocate
  /\ heap' = [heap EXCEPT ![Fresh] = NewNode(e), ![tail].tail = Fresh]
  /\ tail' = Fresh
  /\ UNCHANGED <<queue, head, out, fault>>

\* malloc failed: q->tail->tail->elem is a store through NULL.
EnqueueLinkFails ==
  /\ queue = "live" /\ ~fault
  /\ tail # NULL
  /\ heap' = [heap EXCEPT ![tail].tail = NULL]
  /\ fault' = TRUE
  /\ UNCHANGED <<queue, head, tail, used, allocated, out>>

DequeueEmpty ==
  /\ queue # "destroyed" /\ ~fault
  /\ queue = "none" \/ head = NULL
  /\ out' = NoElem
  /\ UNCHANGED <<queue, head, tail, heap, used, allocated, fault>>

\* Mutant: an emptied queue keeps its tail.
DequeueKeepsTail ==
  /\ queue = "live" /\ ~fault
  /\ head # NULL
  /\ out' = heap[head].elem
  /\ allocated' = allocated \ {head}
  /\ head' = heap[head].head
  /\ UNCHANGED <<queue, tail, heap, used, fault>>

\* The new head is the node's field head, which nobody has set: NULL.
Dequeue ==
  /\ queue = "live" /\ ~fault
  /\ head # NULL
  /\ out' = heap[head].elem
  /\ allocated' = allocated \ {head}
  /\ head' = heap[head].head
  /\ tail' = IF head' = NULL THEN NULL ELSE tail
  /\ UNCHANGED <<queue, heap, used, fault>>

\* The loop frees q->head and goes to its field head, which is NULL: one
\* node at most.  Then the header goes, and its fields with it.
queue_destroy ==
  /\ queue = "live" /\ ~fault
  /\ queue' = "destroyed"
  /\ allocated' = allocated \ {head}
  /\ head' = NULL /\ tail' = NULL
  /\ UNCHANGED <<heap, used, out, fault>>

Next ==
  \/ queue_init
  \/ \E e \in Elems : EnqueueFirst(e) \/ EnqueueLink(e)
  \/ EnqueueFirstFails \/ EnqueueLinkFails
  \/ DequeueEmpty \/ Dequeue
  \/ queue_destroy

Spec == Init /\ [][Next]_vars

-----------------------------------------------------------------------------
(* Correctness.                                                            *)

\* The nodes in the queue: allocation order is queue order.
Chain == IF head = NULL THEN {} ELSE head..tail

\* Their elements, the oldest first: the abstract queue.
Items == IF head = NULL THEN <<>>
         ELSE [i \in 1..(tail - head + 1) |-> heap[head + i - 1].elem]

TypeOK ==
  /\ queue \in {"none", "live", "destroyed"}
  /\ head \in {NULL} \cup Nodes /\ tail \in {NULL} \cup Nodes
  /\ heap \in [Nodes -> NodeFields]
  /\ used \in 0..MaxNodes
  /\ allocated \subseteq 1..used
  /\ out \in Elems \cup {NoElem}
  /\ fault \in BOOLEAN

\* The two header fields agree, every node from the head to the tail is
\* allocated and linked to the next one, and the last one was made last, so
\* that no call follows a freed pointer or frees a node twice.
ChainOK ==
  /\ head = NULL <=> tail = NULL
  /\ queue # "live" => head = NULL
  /\ head # NULL =>
       /\ head <= tail /\ tail = used
       /\ \A n \in head..tail :
            /\ n \in allocated
            /\ heap[n].head = NULL
            /\ heap[n].tail = IF n = tail THEN NULL ELSE n + 1

\* Nodes that are allocated and that no call can reach any more.
Leaked == allocated \ Chain

\* A queued client is lost only when another one is taken, or with the queue:
\* no enqueue, not even one whose malloc fails, breaks the chain.
LossOnlyByDequeue ==
  [][Leaked' # Leaked => head # NULL /\ head' = NULL]_vars

\* queue.c does what LossyQueue says: first in, first out for the oldest
\* client, nothing for those behind it.
Lossy == INSTANCE LossyQueue WITH items <- Items, out <- out
Refinement == Lossy!Spec
=============================================================================
