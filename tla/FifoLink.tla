------------------------------ MODULE FifoLink ------------------------------
(***************************************************************************)
(* What the transmit side of the XCP slave promises: the frames queued for *)
(* transmission by any context leave on the wire one by one, each exactly  *)
(* once and in the order in which they were queued, whatever the transport *)
(* layer refuses in between.  XcpCore is shown to implement it.            *)
(***************************************************************************)
EXTENDS Sequences

CONSTANT Frames   \* the frames a context may queue

VARIABLES pending,   \* the frames queued and not yet on the wire, oldest first
          wire       \* the frame sent last, <<>> before the first

linkVars == <<pending, wire>>

Init == /\ pending = <<>>
        /\ wire = <<>>

\* A context hands a frame to the link.
Accept(f) == /\ pending' = Append(pending, f)
             /\ UNCHANGED wire

\* The oldest frame goes out.
Deliver == /\ pending # <<>>
           /\ wire' = Head(pending)
           /\ pending' = Tail(pending)

Next == (\E f \in Frames : Accept(f)) \/ Deliver

Spec == Init /\ [][Next]_linkVars
=============================================================================
