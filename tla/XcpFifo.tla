------------------------------- MODULE XcpFifo ------------------------------
(***************************************************************************)
(* The queues of Xcp_ByteStream.h as they are: singly linked lists through *)
(* the buffers, with a front and a back pointer.  One action is one        *)
(* operation under the queue lock.  A buffer in nobody's hands is on one   *)
(* list; contexts take buffers from any list and put them on any list.     *)
(***************************************************************************)
EXTENDS Naturals, Sequences, FiniteSets, Functions

CONSTANTS Buffers,    \* Xcp_Buffers
          NoBuffer,   \* NULL
          Contexts    \* the local variables that hold a buffer

ASSUME BuffersAssumption == IsFiniteSet(Buffers) /\ Buffers # {} /\ NoBuffer \notin Buffers

Free == "free"
Queues == {Free, "rx", "tx"}

VARIABLES front,   \* q->front
          back,    \* q->back
          next,    \* b->next
          hand     \* the buffer each context holds

vars == <<front, back, next, hand>>

\* Xcp_Fifo_Put: the pointers after b is put at the back of q.
Link(q, b, f, k, n) ==
  [front |-> IF k[q] = NoBuffer THEN [f EXCEPT ![q] = b] ELSE f,
   back  |-> [k EXCEPT ![q] = b],
   next  |-> IF k[q] = NoBuffer THEN [n EXCEPT ![b] = NoBuffer]
                                ELSE [n EXCEPT ![b] = NoBuffer, ![k[q]] = b]]

\* Xcp_Fifo_Init: the buffers are put one by one, in the order of the array.
Filled(order) ==
  LET none == [q \in Queues |-> NoBuffer]
      filled[i \in 0..Len(order)] ==
        IF i = 0 THEN [front |-> none, back |-> none, next |-> [b \in Buffers |-> NoBuffer]]
        ELSE LET s == filled[i - 1] IN Link(Free, order[i], s.front, s.back, s.next)
  IN filled[Len(order)]

Init ==
  /\ \E order \in {o \in [1..Cardinality(Buffers) -> Buffers] : IsInjective(o)} :
       LET s == Filled(order) IN front = s.front /\ back = s.back /\ next = s.next
  /\ hand = [c \in Contexts |-> NoBuffer]

\* Xcp_Fifo_Get
Get(c, q) ==
  /\ hand[c] = NoBuffer /\ front[q] # NoBuffer
  /\ hand' = [hand EXCEPT ![c] = front[q]]
  /\ front' = [front EXCEPT ![q] = next[front[q]]]
  /\ back' = [back EXCEPT ![q] = IF next[front[q]] = NoBuffer THEN NoBuffer ELSE @]
  /\ next' = [next EXCEPT ![front[q]] = NoBuffer]

\* Xcp_Fifo_Put, and Xcp_Fifo_Free, which puts on the free list
Put(c, q) ==
  /\ hand[c] # NoBuffer
  /\ LET s == Link(q, hand[c], front, back, next)
     IN front' = s.front /\ back' = s.back /\ next' = s.next
  /\ hand' = [hand EXCEPT ![c] = NoBuffer]

\* Fault: back stays NULL when the list was empty.
PutFrontKeepsBack(c, q) ==
  /\ hand[c] # NoBuffer
  /\ next' = [next EXCEPT ![hand[c]] = front[q]]
  /\ front' = [front EXCEPT ![q] = hand[c]]
  /\ hand' = [hand EXCEPT ![c] = NoBuffer]
  /\ UNCHANGED back

\* Xcp_Fifo_Put_Front
PutFront(c, q) ==
  /\ hand[c] # NoBuffer
  /\ next' = [next EXCEPT ![hand[c]] = front[q]]
  /\ front' = [front EXCEPT ![q] = hand[c]]
  /\ back' = [back EXCEPT ![q] = IF @ = NoBuffer THEN hand[c] ELSE @]
  /\ hand' = [hand EXCEPT ![c] = NoBuffer]

Next == \E c \in Contexts, q \in Queues : Get(c, q) \/ Put(c, q) \/ PutFront(c, q)

Spec == Init /\ [][Next]_vars

-----------------------------------------------------------------------------
\* The list of a queue, followed from its front.
Chain(q) ==
  LET at[i \in 1..Cardinality(Buffers) + 1] ==
        IF i = 1 THEN front[q]
        ELSE IF at[i - 1] = NoBuffer THEN NoBuffer ELSE next[at[i - 1]]
  IN [i \in 1..Cardinality({j \in DOMAIN at : at[j] # NoBuffer}) |-> at[i]]

Abstract == INSTANCE BufferQueues WITH queue <- [q \in Queues |-> Chain(q)]

\* The linked lists behave as sequences: every operation of
\* Xcp_ByteStream.h takes from, or adds to, the end it names.
QueuesAreSequences == Abstract!Spec
=============================================================================
