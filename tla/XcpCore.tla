------------------------------ MODULE XcpCore ------------------------------
(***************************************************************************)
(* The packet engine of the XCP slave (Xcp.c, Xcp_ByteStream.h): one pool  *)
(* of buffers that circulates between the free list, the receive queue,    *)
(* the transmit queue, the ODTs that hold a STIM packet and the local      *)
(* variables of the contexts that run the code.                            *)
(*                                                                         *)
(* Four kinds of contexts interleave at the boundaries of the queue lock:  *)
(* the receive callbacks (Xcp_RxIndication), the cyclic Xcp_MainFunction,  *)
(* the event channel tasks (Xcp_MainFunction_Channel) and the application  *)
(* that ends a session (Xcp_Disconnect, run in the context that also calls *)
(* Xcp_MainFunction).  A step is one critical section of Xcp_Fifo_Get or   *)
(* Xcp_Fifo_Put with the thread-local code next to it.                     *)
(*                                                                         *)
(* What a buffer carries is a sequence of tokens <<kind, number>>: one     *)
(* token is what one context wrote, so a frame of two tokens is a frame    *)
(* that was appended to the stale bytes of an earlier one.                 *)
(***************************************************************************)
EXTENDS Integers, Sequences, FiniteSets, Functions

CONSTANTS Buffers,      \* Xcp_Buffers[XCP_MAX_RXTX_QUEUE]
          NoBuffer,     \* NULL
          RxContexts,   \* contexts that may run Xcp_RxIndication
          DaqLists,     \* running DAQ lists, one event channel task each
          StimLists,    \* STIM lists of one ODT, one event channel task each
          Packets,      \* the packet classes the master may send
          OdtCount,     \* ODTs of every DAQ list (XcpOdtCount)
          MaxUpload,    \* bound: frames of one block mode upload
          Preemptive,   \* TRUE: channel tasks and Xcp_MainFunction interleave
          StrictMaster, \* TRUE: the master waits until a packet is settled
          TransmitFast  \* XCP_FEATURE_TRANSMIT_FAST

\* CONNECT      a connect request (mode 0, or an unknown mode)
\* DISCONNECT   a disconnect request
\* COMMAND      a command answered by one frame, a response or an error
\* SILENT       a command without answer (an inner DOWNLOAD_NEXT)
\* UPLOAD       UPLOAD of one up to MaxUpload frames
\* TRUNCATED    a known command, shorter than its entry in Xcp_CmdList
\* TRANSPORT    a transport layer command that is not recognised
\* SLAVE_ID     the GET_SLAVE_ID transport layer command
Commands == {"CONNECT", "DISCONNECT", "COMMAND", "SILENT", "UPLOAD",
             "TRUNCATED", "TRANSPORT", "SLAVE_ID"}

Tasks == DaqLists \cup StimLists
MainSlots == {"it", "e", "item"}
Slots == RxContexts \cup Tasks \cup MainSlots

ASSUME ConstantsAssumption ==
  /\ OdtCount \in Nat \ {0}
  /\ MaxUpload \in Nat \ {0}
  /\ Preemptive \in BOOLEAN
  /\ StrictMaster \in BOOLEAN
  /\ TransmitFast \in BOOLEAN
  /\ Packets \subseteq Commands \cup StimLists

ASSUME DistinctAssumption ==
  /\ IsFiniteSet(Buffers) /\ NoBuffer \notin Buffers
  /\ RxContexts \cap (Tasks \cup MainSlots) = {}
  /\ DaqLists \cap (StimLists \cup MainSlots) = {}
  /\ StimLists \cap (Commands \cup MainSlots) = {}

VARIABLES
  free,       \* Xcp_FifoFree
  rx,         \* Xcp_FifoRx
  tx,         \* Xcp_FifoTx
  content,    \* the tokens of data[0 .. len-1] of every buffer
  held,       \* the buffer each local variable or odt->XcpStim points to
  mpc,        \* where the Xcp_MainFunction context is
  reply,      \* the frames the running handler has still to queue
  after,      \* where the main context goes when the last one is queued
  worker,     \* frames Xcp_CmdUpload_Worker has still to send, 0: no worker
  connected,  \* Xcp_Connected
  disc,       \* 0, or which Xcp_MainFunction of Xcp_Disconnect runs
  tpc,        \* where each event channel task is
  pass,       \* Xcp_ProcessDaq: iterations of the loop over the ODTs
  odt,        \* Xcp_ProcessDaq: ODTs the pointer odt has advanced over
  wire        \* the frame accepted last by the transport layer

pool == <<free, rx, tx, content, held>>
call == <<mpc, reply, after>>
session == <<worker, connected, disc>>
channel == <<tpc, pass, odt>>
vars == <<pool, call, session, channel, wire>>

-----------------------------------------------------------------------------
(* Queues and buffers: what one critical section does to the pool          *)

\* Xcp_Fifo_Get on the free list, into a slot; what is written to the buffer
\* before it is queued is part of the same step.
GetFree(slot, data) ==
  /\ free # <<>>
  /\ free' = Tail(free)
  /\ held' = [held EXCEPT ![slot] = Head(free)]
  /\ content' = [content EXCEPT ![Head(free)] = data]
  /\ UNCHANGED <<rx, tx>>

GetRx(slot) ==
  /\ rx # <<>>
  /\ rx' = Tail(rx)
  /\ held' = [held EXCEPT ![slot] = Head(rx)]
  /\ UNCHANGED <<free, tx, content>>

GetTx(slot) ==
  /\ tx # <<>>
  /\ tx' = Tail(tx)
  /\ held' = [held EXCEPT ![slot] = Head(tx)]
  /\ UNCHANGED <<free, rx, content>>

\* Xcp_Fifo_Put of the buffer of a slot.
PutRx(slot) ==
  /\ rx' = Append(rx, held[slot])
  /\ held' = [held EXCEPT ![slot] = NoBuffer]
  /\ UNCHANGED <<free, tx, content>>

\* Fault: the frame is put in front of those that wait.
PutTxInFront(slot) ==
  /\ tx' = <<held[slot]>> \o tx
  /\ held' = [held EXCEPT ![slot] = NoBuffer]
  /\ UNCHANGED <<free, rx, content>>

PutTx(slot) ==
  /\ tx' = Append(tx, held[slot])
  /\ held' = [held EXCEPT ![slot] = NoBuffer]
  /\ UNCHANGED <<free, rx, content>>

\* Fault: the refused frame is put behind those that wait.
PutFrontTxBehind(slot) == PutTx(slot)

PutFrontTx(slot) ==
  /\ tx' = <<held[slot]>> \o tx
  /\ held' = [held EXCEPT ![slot] = NoBuffer]
  /\ UNCHANGED <<free, rx, content>>

\* Fault: len is not reset.
FreeBufferKeepsLen(b) ==
  /\ free' = IF b = NoBuffer THEN free ELSE Append(free, b)
  /\ UNCHANGED <<rx, tx, content>>

\* Xcp_Fifo_Free of a pointer: nothing for NULL, else reset len and put.
FreeBuffer(b) ==
  /\ IF b = NoBuffer
     THEN UNCHANGED <<free, content>>
     ELSE /\ free' = Append(free, b)
          /\ content' = [content EXCEPT ![b] = <<>>]
  /\ UNCHANGED <<rx, tx>>

\* Responses, errors and events store their length, the longer frames are
\* appended byte by byte to data[len] (FIFO_ADD_U8 and friends).
Stored == {"RES", "ERR", "EV", "UPL"}

Written(kind, n) == IF kind \in Stored
                    THEN << <<kind, n>> >>
                    ELSE Append(content[Head(free)], <<kind, n>>)

-----------------------------------------------------------------------------
(* Xcp_Init: Xcp_Fifo_Init puts every buffer on the free list, in order of *)
(* their addresses, which is left open. The other queues start empty.      *)

Init ==
  /\ free \in {q \in [1..Cardinality(Buffers) -> Buffers] :
                 IsInjective(q) /\ Range(q) = Buffers}
  /\ rx = <<>> /\ tx = <<>>
  /\ content = [b \in Buffers |-> <<>>]
  /\ held = [s \in Slots |-> NoBuffer]
  /\ mpc = "idle" /\ reply = <<>> /\ after = "idle"
  /\ worker = 0 /\ connected = FALSE /\ disc = 0
  /\ tpc = [t \in Tasks |-> "idle"]
  /\ pass = [d \in DaqLists |-> 0]
  /\ odt = [d \in DaqLists |-> 0]
  /\ wire = <<>>

-----------------------------------------------------------------------------
(* Xcp_RxIndication: a buffer is taken from the free list and filled, then *)
(* queued. Without a free buffer the packet is dropped and nothing changes.*)

\* What a master that waits for the outcome of each packet waits for.
Settled == /\ rx = <<>> /\ tx = <<>>
           /\ \A s \in RxContexts \cup MainSlots : held[s] = NoBuffer
           /\ mpc = "idle" /\ worker = 0

RxGet(r, p) ==
  /\ held[r] = NoBuffer
  /\ StrictMaster => Settled
  /\ GetFree(r, << <<p, 0>> >>)
  /\ UNCHANGED <<call, session, channel, wire>>

RxPut(r) ==
  /\ held[r] # NoBuffer
  /\ PutRx(r)
  /\ UNCHANGED <<call, session, channel, wire>>

-----------------------------------------------------------------------------
(* Xcp_MainFunction and Xcp_Disconnect                                     *)

Goto(pc) == mpc' = pc /\ UNCHANGED <<reply, after>>

\* Cooperative scheduling: a context starts only while the others are idle.
MainMayStart == Preemptive \/ \A t \in Tasks : tpc[t] = "idle"
TaskMayStart == MainMayStart /\ (Preemptive \/ mpc = "idle")

\* The call of Xcp_MainFunction: a queued worker replaces Xcp_Recieve_Main.
CallMain == Goto(IF worker > 0 THEN "work" ELSE "receive")

\* Where the main context continues when Xcp_MainFunction returns.
Return == Goto(CASE disc = 0 -> "idle"
                 [] disc = 1 -> "event"
                 [] disc = 2 -> "finish")

MainStart ==
  /\ mpc = "idle" /\ MainMayStart
  /\ CallMain
  /\ UNCHANGED <<pool, session, channel, wire>>

\* Xcp_Disconnect: Xcp_MainFunction, the event, Xcp_MainFunction again.
DisconnectStart ==
  /\ mpc = "idle" /\ MainMayStart
  /\ connected
  /\ disc' = 1
  /\ CallMain
  /\ UNCHANGED <<pool, worker, connected, channel, wire>>

DisconnectEvent ==
  /\ mpc = "event"
  /\ mpc' = "respond" /\ reply' = <<"EV">> /\ after' = "recall"
  /\ UNCHANGED <<pool, session, channel, wire>>

DisconnectRecall ==
  /\ mpc = "recall"
  /\ disc' = 2
  /\ CallMain
  /\ UNCHANGED <<pool, worker, connected, channel, wire>>

DisconnectFinish ==
  /\ mpc = "finish"
  /\ connected' = FALSE /\ disc' = 0
  /\ Goto("idle")
  /\ UNCHANGED <<pool, worker, channel, wire>>

\* Fault: rem does not decrease, the worker never unregisters.
WorkForever ==
  /\ mpc = "work"
  /\ mpc' = "respond" /\ reply' = <<"UPL">> /\ after' = "transmit"
  /\ UNCHANGED <<pool, session, channel, wire>>

\* Xcp_CmdUpload_Worker: one frame, and rem decreases also when no buffer
\* is found for it.
Work ==
  /\ mpc = "work"
  /\ mpc' = "respond" /\ reply' = <<"UPL">> /\ after' = "transmit"
  /\ worker' = worker - 1
  /\ UNCHANGED <<pool, connected, disc, channel, wire>>

-----------------------------------------------------------------------------
(* Xcp_Recieve_Main                                                        *)

Receive ==
  /\ mpc = "receive"
  /\ GetRx("it")
  /\ Goto("dispatch")
  /\ UNCHANGED <<session, channel, wire>>

ReceiveEmpty ==
  /\ mpc = "receive" /\ rx = <<>>
  /\ Goto("transmit")
  /\ UNCHANGED <<pool, session, channel, wire>>

Packet == Head(content[held["it"]])[1]

\* Before a connection only CONNECT and the transport layer commands count.
Accepted == connected \/ Packet \in {"CONNECT", "TRANSPORT", "SLAVE_ID"}

Ignore ==
  /\ mpc = "dispatch" /\ ~Accepted
  /\ Goto("release")
  /\ UNCHANGED <<pool, session, channel, wire>>

Dispatched(p) == mpc = "dispatch" /\ Accepted /\ Packet = p

\* A handler leaves its answer in reply; the buffer of the packet is freed
\* when the loop body is left.
Answer(frames) ==
  /\ mpc' = "respond" /\ reply' = frames /\ after' = "release"
  /\ UNCHANGED <<pool, disc, channel, wire>>

DispatchConnect ==
  /\ Dispatched("CONNECT")
  /\ \/ connected' = TRUE /\ Answer(<<"CONNECT_RES">>)
     \/ UNCHANGED connected /\ Answer(<<"ERR">>)
  /\ UNCHANGED worker

DispatchDisconnect ==
  /\ Dispatched("DISCONNECT")
  /\ connected' = FALSE
  /\ Answer(<<"RES">>)
  /\ UNCHANGED worker

DispatchCommand ==
  /\ Dispatched("COMMAND")
  /\ \E f \in {"RES", "ERR", "DATA"} : Answer(<<f>>)
  /\ UNCHANGED <<worker, connected>>

DispatchSilent ==
  /\ Dispatched("SILENT")
  /\ Goto("release")
  /\ UNCHANGED <<pool, session, channel, wire>>

\* Xcp_CmdUpload: the handler installs the worker and runs it once.
DispatchUpload ==
  /\ Dispatched("UPLOAD")
  /\ worker' \in 0..MaxUpload - 1
  /\ Answer(<<"UPL">>)
  /\ UNCHANGED connected

\* A command shorter than its table entry: return from inside the loop, past
\* the Xcp_Fifo_Free of the loop. The buffer is in nobody's hands any more.
DispatchTruncated ==
  /\ Dispatched("TRUNCATED")
  /\ held' = [held EXCEPT !["it"] = NoBuffer]
  /\ Goto("transmit")
  /\ UNCHANGED <<free, rx, tx, content, session, channel, wire>>

\* Xcp_CmdGetSlaveId answers, then RETURN_SUCCESS answers again.
DispatchTransport ==
  /\ \/ Dispatched("TRANSPORT") /\ Answer(<<"ERR">>)
     \/ Dispatched("SLAVE_ID") /\ Answer(<<"DATA", "RES">>)
  /\ UNCHANGED <<worker, connected>>

\* Fault: the buffer the ODT still holds is overwritten.
DispatchStimKeepsOld(s) ==
  /\ Dispatched(s)
  /\ Goto("stim")
  /\ UNCHANGED <<pool, session, channel, wire>>

\* Xcp_Recieve_Stim: the buffer the ODT still holds is freed ...
DispatchStim(s) ==
  /\ Dispatched(s)
  /\ FreeBuffer(held[s])
  /\ Goto("stim")
  /\ UNCHANGED <<held, session, channel, wire>>

\* Fault: the loop frees the packet's buffer although the ODT holds it now.
StoreStimAndFree(s) ==
  /\ mpc = "stim" /\ Packet = s
  /\ held' = [held EXCEPT ![s] = held["it"]]
  /\ mpc' = "respond" /\ reply' = <<"RES">> /\ after' = "release"
  /\ UNCHANGED <<free, rx, tx, content, session, channel, wire>>

\* ... and the packet's buffer takes its place; the loop frees nothing then.
StoreStim(s) ==
  /\ mpc = "stim" /\ Packet = s
  /\ held' = [held EXCEPT ![s] = held["it"], !["it"] = NoBuffer]
  /\ mpc' = "respond" /\ reply' = <<"RES">> /\ after' = "receive"
  /\ UNCHANGED <<free, rx, tx, content, session, channel, wire>>

\* FIFO_FOR_READ: the packet's buffer is freed, the loop goes on.
Release ==
  /\ mpc = "release"
  /\ FreeBuffer(held["it"])
  /\ held' = [held EXCEPT !["it"] = NoBuffer]
  /\ Goto("receive")
  /\ UNCHANGED <<session, channel, wire>>

-----------------------------------------------------------------------------
(* FIFO_GET_WRITE of the frames of an answer                               *)

Respond ==
  /\ mpc = "respond"
  /\ GetFree("e", Written(Head(reply), 0))
  /\ Goto("queue")
  /\ UNCHANGED <<session, channel, wire>>

\* The rest of the answer, or the continuation.
Answered ==
  /\ reply' = Tail(reply)
  /\ IF Len(reply) > 1
     THEN mpc' = "respond" /\ UNCHANGED after
     ELSE mpc' = after /\ after' = "idle"

\* Without a free buffer the frame is dropped.
DropReply ==
  /\ mpc = "respond" /\ free = <<>>
  /\ Answered
  /\ UNCHANGED <<pool, session, channel, wire>>

QueueReply ==
  /\ mpc = "queue"
  /\ PutTx("e")
  /\ Answered
  /\ UNCHANGED <<session, channel, wire>>

-----------------------------------------------------------------------------
(* Xcp_Transmit_Main                                                       *)

Transmit ==
  /\ mpc = "transmit"
  /\ GetTx("item")
  /\ Goto("send")
  /\ UNCHANGED <<session, channel, wire>>

TransmitEmpty ==
  /\ mpc = "transmit" /\ tx = <<>>
  /\ Return
  /\ UNCHANGED <<pool, session, channel, wire>>

\* Xcp_Transmit accepts the frame; one frame per call unless TransmitFast.
SendOk ==
  /\ mpc = "send"
  /\ wire' = content[held["item"]]
  /\ FreeBuffer(held["item"])
  /\ held' = [held EXCEPT !["item"] = NoBuffer]
  /\ IF TransmitFast THEN Goto("transmit") ELSE Return
  /\ UNCHANGED <<session, channel>>

\* Fault: a refused frame is put back and freed as well.
SendFailFrees ==
  /\ mpc = "send"
  /\ tx' = <<held["item"]>> \o tx
  /\ free' = Append(free, held["item"])
  /\ held' = [held EXCEPT !["item"] = NoBuffer]
  /\ Return
  /\ UNCHANGED <<rx, content, session, channel, wire>>

\* Xcp_Transmit refuses it: back to the front of the queue.
SendFail ==
  /\ mpc = "send"
  /\ PutFrontTx("item")
  /\ Return
  /\ UNCHANGED <<session, channel, wire>>

-----------------------------------------------------------------------------
(* Xcp_MainFunction_Channel: a DAQ list is sampled                         *)

Loop(d, pc, p, o) == /\ tpc' = [tpc EXCEPT ![d] = pc]
                     /\ pass' = [pass EXCEPT ![d] = p]
                     /\ odt' = [odt EXCEPT ![d] = o]

\* Xcp_ProcessChannel lets the list through, Xcp_ProcessDaq starts.
StartDaq(d) ==
  /\ tpc[d] = "idle" /\ TaskMayStart
  /\ connected
  /\ Loop(d, "sample", 0, 0)
  /\ UNCHANGED <<pool, call, session, wire>>

\* Fault: one ODT too many.
SampleBeyond(d) ==
  /\ tpc[d] = "sample" /\ pass[d] <= OdtCount
  /\ GetFree(d, Written(d, odt[d]))
  /\ Loop(d, "queue", pass[d], odt[d])
  /\ UNCHANGED <<call, session, wire>>

\* A buffer is taken and filled with the ODT the pointer is at.
Sample(d) ==
  /\ tpc[d] = "sample" /\ pass[d] < OdtCount
  /\ GetFree(d, Written(d, odt[d]))
  /\ Loop(d, "queue", pass[d], odt[d])
  /\ UNCHANGED <<call, session, wire>>

\* The pointer advances in the loop body that queues the frame.
QueueSample(d) ==
  /\ tpc[d] = "queue"
  /\ PutTx(d)
  /\ Loop(d, "sample", pass[d] + 1, odt[d] + 1)
  /\ UNCHANGED <<call, session, wire>>

\* Without a free buffer the iteration is spent and the pointer stays.
MissSample(d) ==
  /\ tpc[d] = "sample" /\ pass[d] < OdtCount
  /\ free = <<>>
  /\ Loop(d, "sample", pass[d] + 1, odt[d])
  /\ UNCHANGED <<pool, call, session, wire>>

EndDaq(d) ==
  /\ tpc[d] = "sample" /\ pass[d] = OdtCount
  /\ Loop(d, "idle", 0, 0)
  /\ UNCHANGED <<pool, call, session, wire>>

-----------------------------------------------------------------------------
(* Xcp_MainFunction_Channel: a STIM list is applied                        *)

\* The data of odt->XcpStim starts to be written to its entries.
StartStim(s) ==
  /\ tpc[s] = "idle" /\ TaskMayStart
  /\ connected /\ held[s] # NoBuffer
  /\ tpc' = [tpc EXCEPT ![s] = "apply"]
  /\ UNCHANGED <<pool, call, session, pass, odt, wire>>

\* The buffer that odt->XcpStim points to now is freed ...
FreeStim(s) ==
  /\ tpc[s] = "apply"
  /\ FreeBuffer(held[s])
  /\ tpc' = [tpc EXCEPT ![s] = "clear"]
  /\ UNCHANGED <<held, call, session, pass, odt, wire>>

\* ... and the pointer is cleared.
ClearStim(s) ==
  /\ tpc[s] = "clear"
  /\ held' = [held EXCEPT ![s] = NoBuffer]
  /\ tpc' = [tpc EXCEPT ![s] = "idle"]
  /\ UNCHANGED <<free, rx, tx, content, call, session, pass, odt, wire>>

-----------------------------------------------------------------------------
RxStep(r) == RxPut(r) \/ \E p \in Packets : RxGet(r, p)

Dispatch == \/ Ignore
            \/ DispatchConnect \/ DispatchDisconnect \/ DispatchCommand
            \/ DispatchSilent \/ DispatchUpload \/ DispatchTruncated
            \/ DispatchTransport
            \/ \E s \in StimLists : DispatchStim(s) \/ StoreStim(s)

MainStep == \/ Work \/ Receive \/ ReceiveEmpty \/ Dispatch \/ Release
            \/ Respond \/ DropReply \/ QueueReply
            \/ Transmit \/ TransmitEmpty \/ SendOk \/ SendFail
            \/ DisconnectEvent \/ DisconnectRecall \/ DisconnectFinish

DaqStep(d) == Sample(d) \/ QueueSample(d) \/ MissSample(d) \/ EndDaq(d)

StimStep(s) == FreeStim(s) \/ ClearStim(s)

Next == \/ \E r \in RxContexts : RxStep(r)
        \/ MainStart \/ DisconnectStart \/ MainStep
        \/ \E d \in DaqLists : StartDaq(d) \/ DaqStep(d)
        \/ \E s \in StimLists : StartStim(s) \/ StimStep(s)

Spec == Init /\ [][Next]_vars

\* The application calls Xcp_MainFunction at regular intervals whatever the
\* tasks do, a started context runs on, and the transport layer does not
\* refuse the same frame for ever.
Fairness == /\ SF_vars(MainStart) /\ WF_vars(MainStep) /\ SF_vars(SendOk)
            /\ \A r \in RxContexts : WF_vars(RxPut(r))
            /\ \A d \in DaqLists : WF_vars(DaqStep(d))
            /\ \A s \in StimLists : WF_vars(StimStep(s))

LiveSpec == Spec /\ Fairness

-----------------------------------------------------------------------------
(* Properties                                                              *)

Answers == Stored \cup {"CONNECT_RES", "DATA"}

Tokens == ((Packets \cup Answers) \X {0}) \cup (DaqLists \X (0..OdtCount - 1))

PoolOK == /\ free \in Seq(Buffers) /\ rx \in Seq(Buffers) /\ tx \in Seq(Buffers)
          /\ content \in [Buffers -> Seq(Tokens)]
          /\ held \in [Slots -> Buffers \cup {NoBuffer}]

CallOK == /\ mpc \in {"idle", "work", "receive", "dispatch", "stim", "respond",
                      "queue", "release", "transmit", "send", "event",
                      "recall", "finish"}
          /\ reply \in Seq(Answers)
          /\ after \in {"idle", "receive", "release", "transmit", "recall"}

SessionOK == worker \in 0..MaxUpload - 1 /\ connected \in BOOLEAN /\ disc \in 0..2

ChannelOK == /\ tpc \in [Tasks -> {"idle", "sample", "queue", "apply", "clear"}]
             /\ pass \in [DaqLists -> 0..OdtCount]
             /\ odt \in [DaqLists -> 0..OdtCount]

\* The type invariant of the packet engine.
TypeOK == PoolOK /\ CallOK /\ SessionOK /\ ChannelOK /\ wire \in Seq(Tokens)

\* Between a Xcp_Fifo_Free(odt->XcpStim) and the assignment that follows it
\* the pointer of the ODT dangles: the ODT owns nothing.
Dangling(s) == s \in StimLists /\ (tpc[s] = "clear" \/ (mpc = "stim" /\ Packet = s))

\* The buffer each context and each ODT owns.
Own == [s \in Slots |-> IF Dangling(s) THEN NoBuffer ELSE held[s]]

\* A buffer is in one place only: at most once in one queue, or in the hands
\* of one context or ODT. Violated, two contexts would write the same frame
\* or a queue would lose its tail.
Exclusive ==
  /\ IsInjective(free) /\ IsInjective(rx) /\ IsInjective(tx)
  /\ Range(free) \cap Range(rx) = {}
  /\ Range(free) \cap Range(tx) = {}
  /\ Range(rx) \cap Range(tx) = {}
  /\ \A s \in Slots : Own[s] \notin Range(free) \cup Range(rx) \cup Range(tx)
  /\ \A s, u \in Slots : Own[s] = Own[u] /\ Own[s] # NoBuffer => s = u

\* No buffer is lost: whatever was received, dropped, refused or replaced,
\* each of the buffers is still in a queue or in somebody's hands.
NoLeak == Buffers \subseteq Range(free) \cup Range(rx) \cup Range(tx) \cup Range(Own)

\* Nothing of the previous use of a buffer is in the frame that is sent.
NoStaleBytes == /\ \A b \in Range(free) : content[b] = <<>>
                /\ \A b \in Range(rx) \cup Range(tx) : Len(content[b]) = 1

\* Frames leave once each and in the order they were queued, across refused
\* transmissions and whatever queues frames meanwhile (Xcp_Transmit_Main).
InFlight == IF mpc = "send" THEN <<held["item"]>> \o tx ELSE tx

Carried(q) == [i \in DOMAIN q |-> content[q[i]]]

Link == INSTANCE FifoLink WITH
          Frames <- {<<t>> : t \in Tokens}, pending <- Carried(InFlight), wire <- wire

TxInOrder == Link!Spec

\* What each point of the code holds: the inductive strengthening of TypeOK.
Control ==
  /\ held["it"] # NoBuffer <=> \/ mpc \in {"dispatch", "stim", "release"}
                               \/ mpc \in {"respond", "queue"} /\ after = "release"
  /\ held["e"] # NoBuffer <=> mpc = "queue"
  /\ held["item"] # NoBuffer <=> mpc = "send"
  /\ mpc \in {"respond", "queue"} => reply # <<>> /\ after # "idle"
  /\ mpc = "work" => worker > 0
  /\ \A d \in DaqLists :
       /\ tpc[d] \in {"idle", "sample", "queue"}
       /\ held[d] # NoBuffer <=> tpc[d] = "queue"
       /\ odt[d] <= pass[d]
       /\ tpc[d] = "queue" => pass[d] < OdtCount
  /\ \A s \in StimLists :
       /\ tpc[s] \in {"idle", "apply", "clear"}
       /\ tpc[s] # "idle" => held[s] # NoBuffer

\* Cooperative contexts: at most one of them is under way.
Scheduled == \/ Preemptive
             \/ /\ mpc # "idle" => \A t \in Tasks : tpc[t] = "idle"
                /\ \A t, u \in Tasks : tpc[t] # "idle" /\ tpc[u] # "idle" => t = u

\* What the buffers of each queue and of each context contain.
PacketFrame(b) == \E p \in Packets : content[b] = << <<p, 0>> >>

OneToken(b) == \E t \in Tokens : content[b] = <<t>>

Contents ==
  /\ \A b \in Range(free) : content[b] = <<>>
  /\ \A b \in Range(rx) : PacketFrame(b)
  /\ \A b \in Range(tx) : OneToken(b)
  /\ \A s \in RxContexts \cup {"it"} : held[s] # NoBuffer => PacketFrame(held[s])
  /\ \A s \in DaqLists \cup {"e", "item"} : held[s] # NoBuffer => OneToken(held[s])

StimPacket == mpc = "stim" => Packet \in StimLists

\* The inductive invariant behind Exclusive, NoLeak, NoStaleBytes, TxInOrder.
IInv == TypeOK /\ Control /\ Scheduled /\ Exclusive /\ Contents /\ StimPacket

\* A pool of one buffer to receive, one to send and one for each STIM packet
\* is enough for a master that waits for the outcome of each packet: neither
\* the packet nor its answer is dropped (XCP_MAX_RXTX_QUEUE in README.txt).
PoolSuffices == (mpc = "respond" \/ Settled) => free # <<>>

\* When Xcp_Disconnect ends the session the termination event has gone out
\* ("make sure event is transmitted directly").
EventTransmitted ==
  mpc = "finish" => \A b \in Range(tx) : content[b] # << <<"EV", 0>> >>

\* A queued packet reaches its handler, also while more packets arrive and
\* while a block mode upload has displaced Xcp_Recieve_Main.
ReceivedIsHandled == \A b \in Buffers : (b \in Range(rx)) ~> (held["it"] = b)

\* A queued frame goes out, provided that Xcp_Recieve_Main returns from each
\* run: its loop goes on for as long as packets keep arriving.
QueuedIsSent == []<>(mpc = "transmit") =>
                  \A b \in Buffers : (b \in Range(tx)) ~> (b \notin Range(InFlight))
=============================================================================
