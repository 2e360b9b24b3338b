-------------------------- MODULE ClientQueueProofs -------------------------
(***************************************************************************)
(* Proofs about lab6/queue.c, for any set of elements and any number of    *)
(* nodes: the shape of the chain, where clients can be lost, and that the  *)
(* pointers implement LossyQueue.                                          *)
(***************************************************************************)
EXTENDS ClientQueue, SequenceTheorems, TLAPS

\* Every step keeps the types; ChainOK is needed to know that a field that is
\* read belongs to a node.
LEMMA TypeStep == TypeOK /\ ChainOK /\ [Next]_vars => TypeOK'
<1> USE ElemsAssumption, NodesAssumption
<1> SUFFICES ASSUME TypeOK, ChainOK, [Next]_vars
             PROVE  TypeOK'
  OBVIOUS
<1> USE DEF TypeOK, Nodes, NULL, NoElem, NodeFields
<1>1. CASE queue_init
  BY <1>1 DEF queue_init
<1>2. ASSUME NEW e \in Elems, EnqueueFirst(e)
      PROVE  TypeOK'
  <2>1. Fresh \in Nodes /\ NewNode(e) \in NodeFields
    BY <1>2 DEF EnqueueFirst, Allocate, Fresh, NewNode
  <2> QED BY <1>2, <2>1 DEF EnqueueFirst, Allocate, Fresh
<1>3. ASSUME NEW e \in Elems, EnqueueLink(e)
      PROVE  TypeOK'
  <2>1. Fresh \in Nodes /\ NewNode(e) \in NodeFields
    BY <1>3 DEF EnqueueLink, Allocate, Fresh, NewNode
  <2>2. heap' \in [Nodes -> NodeFields]
    BY <1>3, <2>1 DEF EnqueueLink
  <2>3. /\ used' = used + 1 /\ used + 1 \in Nodes /\ tail' = used + 1
        /\ allocated' = allocated \cup {used + 1}
        /\ UNCHANGED <<queue, head, out, fault>>
    BY <1>3 DEF EnqueueLink, Allocate, Fresh
  <2> HIDE DEF NodeFields
  <2> QED BY <2>2, <2>3
<1>4. CASE EnqueueFirstFails
  BY <1>4 DEF EnqueueFirstFails
<1>5. CASE EnqueueLinkFails
  <2>1. heap' \in [Nodes -> NodeFields]
    BY <1>5 DEF EnqueueLinkFails
  <2> QED BY <1>5, <2>1 DEF EnqueueLinkFails
<1>6. CASE DequeueEmpty
  BY <1>6 DEF DequeueEmpty
<1>7. CASE Dequeue
  BY <1>7 DEF Dequeue
<1>8. CASE queue_destroy
  BY <1>8 DEF queue_destroy
<1>9. CASE UNCHANGED vars
  BY <1>9 DEF vars
<1> QED BY <1>1, <1>2, <1>3, <1>4, <1>5, <1>6, <1>7, <1>8, <1>9 DEF Next

\* Every step keeps the shape of the chain.
LEMMA ChainStep == TypeOK /\ ChainOK /\ [Next]_vars => ChainOK'
<1> USE ElemsAssumption, NodesAssumption
<1> SUFFICES ASSUME TypeOK, ChainOK, [Next]_vars
             PROVE  ChainOK'
  OBVIOUS
<1> USE DEF TypeOK, ChainOK, Nodes, NULL
<1>1. CASE queue_init
  BY <1>1 DEF queue_init
<1>2. ASSUME NEW e \in Elems, EnqueueFirst(e)
      PROVE  ChainOK'
  BY <1>2 DEF EnqueueFirst, Allocate, Fresh, NewNode
<1>3. ASSUME NEW e \in Elems, EnqueueLink(e)
      PROVE  ChainOK'
  <2>1. /\ head # NULL /\ head' = head /\ queue = "live" /\ queue' = queue
        /\ tail' = tail + 1 /\ tail' = used' /\ tail + 1 \in Nodes
        /\ allocated' = allocated \cup {tail + 1}
    BY <1>3 DEF EnqueueLink, Allocate, Fresh
  <2>2. heap' = [heap EXCEPT ![tail + 1] = NewNode(e), ![tail].tail = tail + 1]
    <3>1. Fresh = tail + 1
      BY <1>3 DEF EnqueueLink, Fresh
    <3> QED BY <1>3, <3>1 DEF EnqueueLink
  <2>3. ASSUME NEW n \in head'..tail'
        PROVE  /\ n \in allocated'
               /\ heap'[n].head = NULL
               /\ heap'[n].tail = IF n = tail' THEN NULL ELSE n + 1
    <3>1. CASE n = tail + 1
      BY <2>1, <2>2, <3>1 DEF NewNode
    <3>2. CASE n = tail
      BY <2>1, <2>2, <3>2 DEF NewNode, NodeFields
    <3>3. CASE n \in head..(tail - 1)
      BY <2>1, <2>2, <3>3 DEF NewNode
    <3> QED BY <2>1, <3>1, <3>2, <3>3
  <2> QED BY <2>1, <2>3
<1>4. CASE EnqueueFirstFails
  BY <1>4 DEF EnqueueFirstFails
<1>5. CASE EnqueueLinkFails
  <2>1. heap' = heap
    BY <1>5 DEF EnqueueLinkFails, NodeFields
  <2> QED BY <1>5, <2>1 DEF EnqueueLinkFails
<1>6. CASE DequeueEmpty
  BY <1>6 DEF DequeueEmpty
<1>7. CASE Dequeue
  BY <1>7 DEF Dequeue
<1>8. CASE queue_destroy
  BY <1>8 DEF queue_destroy
<1>9. CASE UNCHANGED vars
  BY <1>9 DEF vars
<1> QED BY <1>1, <1>2, <1>3, <1>4, <1>5, <1>6, <1>7, <1>8, <1>9 DEF Next

\* The inductive invariant: neither half stands without the other, for the
\* fields that Dequeue follows are typed only for the nodes of the chain.
LEMMA Invariance == Spec => [](TypeOK /\ ChainOK)
<1>1. Init => TypeOK /\ ChainOK
  <2> SUFFICES ASSUME Init PROVE TypeOK /\ ChainOK
    OBVIOUS
  <2> USE ElemsAssumption, NodesAssumption DEF Nodes, NULL, NoElem
  <2>1. (CHOOSE e \in Elems : TRUE) \in Elems
    OBVIOUS
  <2>2. heap \in [Nodes -> NodeFields]
    BY <2>1 DEF Init, NodeFields
  <2>3. /\ queue = "none" /\ head = 0 /\ tail = 0 /\ used = 0
        /\ allocated = {} /\ out = NoElem /\ fault = FALSE
    BY DEF Init
  <2>4. TypeOK
    <3> HIDE DEF NodeFields
    <3>1. head \in {NULL} \cup Nodes /\ tail \in {NULL} \cup Nodes
      BY <2>3
    <3>2. used \in 0..MaxNodes
      BY <2>3
    <3>3. allocated \subseteq 1..used
      BY <2>3
    <3> QED BY <2>2, <2>3, <3>1, <3>2, <3>3 DEF TypeOK
  <2>5. ChainOK
    BY DEF Init, ChainOK
  <2> QED BY <2>4, <2>5
<1>2. TypeOK /\ ChainOK /\ [Next]_vars => (TypeOK /\ ChainOK)'
  BY TypeStep, ChainStep
<1> QED BY <1>1, <1>2, PTL DEF Spec

\* The chain is well formed after every call: no call follows a pointer to
\* freed memory, and none frees a node twice.
THEOREM ChainCorrect == Spec => []ChainOK
BY Invariance, PTL

\* Only a dequeue, or the end of the queue, loses clients.
THEOREM LossCorrect == Spec => LossOnlyByDequeue
<1>1. TypeOK /\ ChainOK /\ [Next]_vars
        => [Leaked' # Leaked => head # NULL /\ head' = NULL]_vars
  <2> USE NodesAssumption
  <2> SUFFICES ASSUME TypeOK, ChainOK, Next, Leaked' # Leaked
               PROVE  head # NULL /\ head' = NULL
    OBVIOUS
  <2> USE DEF TypeOK, ChainOK, Leaked, Chain, Nodes, NULL
  <2>1. CASE queue_init
    BY <2>1 DEF queue_init
  <2>2. ASSUME NEW e \in Elems, EnqueueFirst(e)
        PROVE  FALSE
    <3>1. head = NULL /\ head' = used + 1 /\ tail' = used + 1
          /\ allocated' = allocated \cup {used + 1}
      BY <2>2 DEF EnqueueFirst, Allocate, Fresh
    <3>2. head'..tail' = {used + 1} /\ used + 1 \notin allocated
      BY <3>1
    <3> QED BY <3>1, <3>2
  <2>3. ASSUME NEW e \in Elems, EnqueueLink(e)
        PROVE  FALSE
    <3>1. head # NULL /\ head' = head /\ tail' = tail + 1 /\ tail = used
          /\ allocated' = allocated \cup {tail + 1}
      BY <2>3 DEF EnqueueLink, Allocate, Fresh
    <3>2. head'..tail' = (head..tail) \cup {tail + 1} /\ tail + 1 \notin allocated
      BY <3>1
    <3> QED BY <3>1, <3>2
  <2>4. CASE EnqueueFirstFails
    BY <2>4 DEF EnqueueFirstFails
  <2>5. CASE EnqueueLinkFails
    BY <2>5 DEF EnqueueLinkFails
  <2>6. CASE DequeueEmpty
    BY <2>6 DEF DequeueEmpty
  <2>7. CASE Dequeue
    BY <2>7 DEF Dequeue
  <2>8. CASE queue_destroy
    BY <2>8 DEF queue_destroy
  <2> QED BY <2>1, <2>2, <2>3, <2>4, <2>5, <2>6, <2>7, <2>8 DEF Next
<1> QED BY <1>1, Invariance, PTL DEF Spec, LossOnlyByDequeue

\* A queue that is not empty is a sequence of elements, oldest first.
ItemsOK ==
  head # NULL =>
    /\ Items \in Seq(Elems)
    /\ Len(Items) = tail - head + 1
    /\ tail - head + 1 \in Nat \ {0}
    /\ \A i \in 1..Len(Items) : Items[i] = heap[head + i - 1].elem

LEMMA ItemsSeq == TypeOK /\ ChainOK => ItemsOK
<1> SUFFICES ASSUME TypeOK, ChainOK, head # NULL PROVE ItemsOK
  BY DEF ItemsOK
<1> USE NodesAssumption DEF TypeOK, ChainOK, Nodes, NULL
<1> DEFINE len == tail - head + 1
<1>1. len \in Nat \ {0} /\ head \in Nodes /\ tail \in Nodes
  OBVIOUS
<1>2. \A i \in 1..len : heap[head + i - 1].elem \in Elems
  <2> SUFFICES ASSUME NEW i \in 1..len PROVE heap[head + i - 1].elem \in Elems
    OBVIOUS
  <2>1. head + i - 1 \in Nodes
    BY <1>1
  <2> QED BY <2>1 DEF NodeFields
<1>3. Items = [i \in 1..len |-> heap[head + i - 1].elem]
  BY DEF Items
<1>4. Items \in [1..len -> Elems]
  BY <1>2, <1>3
<1>5. Items \in Seq(Elems)
  BY <1>1, <1>4, SeqDef
<1>6. DOMAIN Items = 1..Len(Items) /\ Len(Items) \in Nat
  BY <1>5, LenProperties
<1>7. Len(Items) = len
  BY <1>1, <1>4, <1>6
<1> QED BY <1>1, <1>3, <1>5, <1>7 DEF ItemsOK

LEMMA ItemsSeqNext == TypeOK' /\ ChainOK' => ItemsOK'
BY ItemsSeq, PTL

\* The abstract queue after each step, read off the pointers.
LEMMA ItemsStep ==
  ASSUME TypeOK, ChainOK, Next
  PROVE  Lossy!Next \/ UNCHANGED <<Items, out>>
<1> USE ElemsAssumption, NodesAssumption
<1> USE DEF TypeOK, ChainOK, Nodes, NULL
<1>1. CASE queue_init
  BY <1>1 DEF queue_init, Items
<1>2. ASSUME NEW e \in Elems, EnqueueFirst(e)
      PROVE  Lossy!Put(e)
  <2>1. /\ Items = <<>> /\ Fresh \in Nodes
        /\ head' = Fresh /\ tail' = Fresh /\ heap'[Fresh].elem = e
    BY <1>2 DEF EnqueueFirst, Allocate, Fresh, NewNode, Items
  <2>2. TypeOK' /\ ChainOK'
    BY TypeStep, ChainStep
  <2>3. /\ Items' \in Seq(Elems) /\ Len(Items') = 1
        /\ \A i \in 1..1 : Items'[i] = heap'[Fresh + i - 1].elem
    BY <2>1, <2>2, ItemsSeqNext DEF ItemsOK
  <2>4. /\ Append(Items, e) \in Seq(Elems) /\ Len(Append(Items, e)) = 1
        /\ Append(Items, e)[1] = e
    BY <2>1, EmptySeq, AppendProperties
  <2>5. Items'[1] = e
    BY <2>1, <2>3
  <2>6. Items' = Append(Items, e)
    BY <2>3, <2>4, <2>5, SeqEqual
  <2> QED BY <1>2, <2>6 DEF Lossy!Put, EnqueueFirst
<1>3. ASSUME NEW e \in Elems, EnqueueLink(e)
      PROVE  Lossy!Put(e)
  <2> DEFINE len == tail - head + 1
  <2>1. /\ head # NULL /\ head' = head
        /\ tail' = tail + 1 /\ tail + 1 \in Nodes /\ Fresh = tail + 1
    BY <1>3 DEF EnqueueLink, Allocate, Fresh
  <2>2. heap' = [heap EXCEPT ![tail + 1] = NewNode(e), ![tail].tail = tail + 1]
    BY <1>3, <2>1 DEF EnqueueLink
  <2>3. \A n \in head..tail : heap'[n].elem = heap[n].elem
    BY <2>1, <2>2 DEF NodeFields
  <2>4. heap'[tail + 1].elem = e
    BY <2>1, <2>2 DEF NewNode
  <2>5. /\ Items \in Seq(Elems) /\ Len(Items) = len /\ len \in Nat \ {0}
        /\ \A i \in 1..len : Items[i] = heap[head + i - 1].elem
    BY <2>1, ItemsSeq DEF ItemsOK
  <2>6. TypeOK' /\ ChainOK'
    BY TypeStep, ChainStep
  <2>7. /\ Items' \in Seq(Elems) /\ Len(Items') = len + 1
        /\ \A i \in 1..(len + 1) : Items'[i] = heap'[head + i - 1].elem
    BY <2>1, <2>6, ItemsSeqNext DEF ItemsOK
  <2>8. /\ Append(Items, e) \in Seq(Elems) /\ Len(Append(Items, e)) = len + 1
        /\ \A i \in 1..len : Append(Items, e)[i] = Items[i]
        /\ Append(Items, e)[len + 1] = e
    BY <2>5, AppendProperties
  <2>9. ASSUME NEW i \in 1..(len + 1)
        PROVE  Items'[i] = Append(Items, e)[i]
    <3>1. CASE i = len + 1
      BY <2>1, <2>4, <2>5, <2>7, <2>8, <3>1
    <3>2. CASE i \in 1..len
      <4>1. head + i - 1 \in head..tail
        BY <2>1, <2>5, <3>2
      <4> QED BY <2>3, <2>5, <2>7, <2>8, <3>2, <4>1
    <3> QED BY <2>5, <3>1, <3>2
  <2>10. Items' = Append(Items, e)
    <3>1. Len(Items') = Len(Append(Items, e)) /\ DOMAIN Items' = 1..(len + 1)
      BY <2>5, <2>7, <2>8
    <3> QED BY <2>7, <2>8, <2>9, <3>1, SeqEqual
  <2> QED BY <1>3, <2>10 DEF Lossy!Put, EnqueueLink
<1>4. CASE EnqueueFirstFails
  BY <1>4 DEF EnqueueFirstFails, Items
<1>5. CASE EnqueueLinkFails
  <2>1. heap' = heap
    BY <1>5 DEF EnqueueLinkFails, NodeFields
  <2> QED BY <1>5, <2>1 DEF EnqueueLinkFails, Items
<1>6. CASE DequeueEmpty
  <2>1. Items = <<>> /\ Items' = Items
    BY <1>6 DEF DequeueEmpty, Items
  <2> QED BY <1>6, <2>1 DEF DequeueEmpty, Lossy!TakeNothing, Lossy!NoElem,
                            Lossy!Next, NoElem
<1>7. CASE Dequeue
  <2>1. head # NULL
    BY <1>7 DEF Dequeue
  <2>2. Items # <<>> /\ Head(Items) = heap[head].elem
    <3>1. /\ Items \in Seq(Elems) /\ Len(Items) \in Nat \ {0}
          /\ Items[1] = heap[head].elem
      BY <2>1, ItemsSeq DEF ItemsOK
    <3> QED BY <3>1, EmptySeq
  <2>3. Items' = <<>>
    BY <1>7 DEF Dequeue, Items
  <2> QED BY <1>7, <2>2, <2>3 DEF Dequeue, Lossy!Take, Lossy!Next
<1>8. CASE queue_destroy
  BY <1>8 DEF queue_destroy, Items, Lossy!Discard, Lossy!Next
<1> QED BY <1>1, <1>2, <1>3, <1>4, <1>5, <1>6, <1>7, <1>8 DEF Next, Lossy!Next

\* The pointers of queue.c implement the abstract queue.
THEOREM ImplementsLossyQueue == Spec => Refinement
<1>1. Init => Lossy!Init
  BY DEF Init, Items, NULL, NoElem, Lossy!Init, Lossy!NoElem
<1>2. TypeOK /\ ChainOK /\ [Next]_vars => [Lossy!Next]_<<Items, out>>
  <2>1. TypeOK /\ ChainOK /\ Next => Lossy!Next \/ UNCHANGED <<Items, out>>
    BY ItemsStep
  <2>2. UNCHANGED vars => UNCHANGED <<Items, out>>
    BY DEF vars, Items
  <2> QED BY <2>1, <2>2
<1> QED BY <1>1, <1>2, Invariance, PTL
        DEF Spec, Refinement, Lossy!Spec, Lossy!vars
=============================================================================
