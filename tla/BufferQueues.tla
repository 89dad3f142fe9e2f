---------------------------- MODULE BufferQueues ----------------------------
(***************************************************************************)
(* What the queues of Xcp_ByteStream.h promise to their users: each is a   *)
(* sequence of buffers, taken at the front and put at the back or back at  *)
(* the front, and a buffer keeps its length until it is freed.  XcpCore is *)
(* written with these queues; XcpFifo implements them with linked lists.   *)
(***************************************************************************)
EXTENDS Sequences, Functions

CONSTANTS Buffers, NoBuffer, Queues, Free, Contexts

VARIABLES queue,   \* the buffers of every queue, front first
          hand     \* the buffer every context has in hand

queueVars == <<queue, hand>>

Init == /\ queue \in [Queues -> Seq(Buffers)]
        /\ IsInjective(queue[Free]) /\ Range(queue[Free]) = Buffers
        /\ \A q \in Queues \ {Free} : queue[q] = <<>>
        /\ hand = [c \in Contexts |-> NoBuffer]

Get(c, q) ==
  /\ hand[c] = NoBuffer /\ queue[q] # <<>>
  /\ hand' = [hand EXCEPT ![c] = Head(queue[q])]
  /\ queue' = [queue EXCEPT ![q] = Tail(@)]

Put(c, q) ==
  /\ hand[c] # NoBuffer
  /\ hand' = [hand EXCEPT ![c] = NoBuffer]
  /\ queue' = [queue EXCEPT ![q] = Append(@, hand[c])]

PutFront(c, q) ==
  /\ hand[c] # NoBuffer
  /\ hand' = [hand EXCEPT ![c] = NoBuffer]
  /\ queue' = [queue EXCEPT ![q] = <<hand[c]>> \o @]

Next == \E c \in Contexts, q \in Queues : Get(c, q) \/ Put(c, q) \/ PutFront(c, q)

Spec == Init /\ [][Next]_queueVars
=============================================================================
