----------------------------- MODULE XcpDialogue -----------------------------
(***************************************************************************)
(* A master and the slave talk about calibration pages (Xcp.c), over CAN   *)
(* (XcpOnCan.c) or Ethernet (XcpOnEth.c): the commands that switch and     *)
(* read pages, those that say which there are, and the transport layer     *)
(* command.  Commands and frames are lost, answers find no buffer, the     *)
(* transport layer refuses a frame, or delivers one twice.                 *)
(*                                                                         *)
(* The master is external: it gives one command at a time, waits for the   *)
(* answer or a timeout, flushes with SYNCH (with CONNECT before there is a *)
(* session) when something went wrong, and remembers the pages.            *)
(***************************************************************************)
EXTENDS Integers, Sequences, FiniteSets

CONSTANTS MaxPages,    \* XcpMaxPage of each segment of Xcp_Config.XcpSegment
          MaxMapping,  \* XcpMaxMapping of all segments
          Transports,  \* subset of {"CAN", "ETHERNET"}
          CtrMod,      \* 65536, the range of the uint16 Xcp_EthCtrTx
          Requests,    \* what the master asks for
          Habits,      \* what the master takes care of, see AllHabits
          FaultKinds,  \* what goes wrong
          Unknown, None,
          MaxRequests, \* bound: commands of the master
          MaxFaults    \* bound: how often something goes wrong

Segments == 1..Len(MaxPages)
Kinds == {"ECU", "XCP"}

\* The master flushes after GET_SLAVE_ID, knows nothing of the pages after
\* an error of a SET_CAL_PAGE for all segments, and drops a frame whose
\* counter it has seen last.
AllHabits == {"FLUSH_AFTER_ID", "DOUBT_PARTIAL", "DROP_REPEATED"}

\* What the master can ask for, and what the slave answers.
Commands ==
  [cmd : {"CONNECT", "GET_PAG_PROCESSOR_INFO", "GET_COMM_MODE_INFO", "USER_CMD"}]
  \cup [cmd : {"SET_CAL_PAGE"}, mode : SUBSET {"ECU", "XCP", "ALL"}, segm : Nat, page : Nat]
  \cup [cmd : {"GET_CAL_PAGE"}, mode : SUBSET {"ECU", "XCP", "ALL"}, segm : Nat]
  \cup [cmd : {"GET_SEGMENT_INFO"}, mode : Nat, segm : Nat, info : Nat, mapi : Nat]
  \cup [cmd : {"TRANSPORT_LAYER_CMD"}, sub : STRING]

Answers ==
  [kind : {"RES", "CONNECTED", "ERR_SYNCH", "INFO", "ID"}]
  \cup [kind : {"ERR"}, code : {"SEGMENT_NOT_VALID", "PAGE_NOT_VALID", "OUT_OF_RANGE",
                                "CMD_SYNTAX", "CMD_UNKNOWN"}]
  \cup [kind : {"PAGE"}, page : Nat] \cup [kind : {"COUNT"}, pages : Nat]

ASSUME DialogueAssumption ==
  /\ Requests \subseteq Commands /\ None \notin Requests \cup Answers
  /\ MaxPages \in Seq(Nat \ {0}) /\ MaxMapping \in Nat
  /\ Transports \subseteq {"CAN", "ETHERNET"}
  /\ CtrMod \in Nat \ {0} /\ MaxRequests \in Nat /\ MaxFaults \in Nat
  /\ Habits \subseteq AllHabits
  /\ FaultKinds \subseteq {"LOSE_COMMAND", "REPEAT_COMMAND", "NO_BUFFER", "REFUSE",
                           "LOSE_FRAME", "REPEAT_FRAME"}

VARIABLES
  transport,  \* which of XcpOnCan.c and XcpOnEth.c is linked
  connected,  \* Xcp_Connected
  page,       \* XcpPageEcu and XcpPageXcp of the segments
  queue,      \* Xcp_FifoTx
  ctrTx,      \* Xcp_EthCtrTx
  toSlave,    \* commands on the way or in Xcp_FifoRx
  air,        \* frames on the way to the master
  master,     \* the call it waits for, if any, its result and its state
  belief,     \* the pages the master takes for set, and the page counts
  heard,      \* the counter of the frame heard last
  outcome,    \* history: the answer the slave gave to the call
  lost,       \* history: frames lost since one was heard
  faults      \* how much has gone wrong

slave == <<connected, page, queue, ctrTx>>
link == <<toSlave, air>>
mind == <<master, belief, heard>>
history == <<outcome, lost>>
vars == <<transport, slave, link, mind, history, faults>>

Init == /\ transport \in Transports
        /\ connected = FALSE
        /\ page = [k \in Kinds |-> [s \in Segments |-> 0]]
        /\ queue = <<>> /\ ctrTx = 0 /\ toSlave = <<>> /\ air = <<>>
        /\ master = [stage |-> "idle", call |-> None, result |-> None,
                     online |-> FALSE, asked |-> 0]
        /\ belief = [k \in Kinds \cup {"COUNT"} |-> [s \in Segments |-> Unknown]]
        /\ heard = 0 /\ outcome = None /\ lost = 0 /\ faults = 0

Fault(kind) == kind \in FaultKinds /\ faults < MaxFaults /\ faults' = faults + 1

-----------------------------------------------------------------------------
(* The slave: commands                                                     *)

Command == Head(toSlave)
Err(code) == [kind |-> "ERR", code |-> code]
Res == [kind |-> "RES"]

\* FIFO_GET_WRITE(Xcp_FifoTx): the answers are queued, but for those that
\* find no buffer.
Answer(answers) ==
  \E dropped \in IF "NO_BUFFER" \in FaultKinds THEN SUBSET DOMAIN answers ELSE {{}} :
    /\ faults + Cardinality(dropped) <= MaxFaults
    /\ faults' = faults + Cardinality(dropped)
    /\ LET Kept(i) == IF i \in dropped THEN <<>> ELSE <<answers[i]>>
       IN queue' = queue \o (IF Len(answers) = 1 THEN Kept(1) ELSE Kept(1) \o Kept(2))

\* Xcp_Recieve_Main: the next command.  Without a session only CONNECT and the
\* one of the transport layer are handled, and the master gives no other; how
\* sessions end is in XcpSession.
Receive(cmds) == /\ toSlave # <<>> /\ Command.cmd \in cmds
                 /\ connected \/ Command.cmd \in {"CONNECT", "TRANSPORT_LAYER_CMD"}
                 /\ toSlave' = Tail(toSlave)
                 /\ UNCHANGED <<transport, ctrTx, air, mind, lost>>

\* The answers of the command, of which the first is its outcome.
Reply(answers) == /\ Answer(answers)
                  /\ outcome' = IF Command = master.call THEN answers[1] ELSE outcome

Connect == /\ Receive({"CONNECT"})
           /\ connected' = TRUE
           /\ Reply(<<[kind |-> "CONNECTED"]>>)
           /\ UNCHANGED page

\* Fault: SYNCH is not answered.
SynchSilent == /\ Receive({"SYNCH"})
               /\ UNCHANGED <<connected, page, queue, outcome, faults>>

Synch == /\ Receive({"SYNCH"})
         /\ Reply(<<[kind |-> "ERR_SYNCH"]>>)
         /\ UNCHANGED <<connected, page>>

\* Xcp_CmdSetCalPage goes through the segments in their order, up to the
\* first that does not have the page.
Chosen(c) == IF "ALL" \in c.mode THEN Segments ELSE {c.segm} \cap Segments
Lacking(c) == {s \in Chosen(c) : c.page >= MaxPages[s]}

\* Fault: the segment that does not have the page is passed over.
ReachedBeyond(c) == Chosen(c)

Reached(c) == {s \in Chosen(c) : \A t \in Lacking(c) : s < t}

\* Fault: a segment without the page ends the loop, not the command.
SetCalPageStops ==
  /\ Receive({"SET_CAL_PAGE"})
  /\ page' = [k \in Kinds |-> [s \in Segments |->
                IF k \in Command.mode /\ s \in Reached(Command) THEN Command.page ELSE page[k][s]]]
  /\ Reply(<<IF Chosen(Command) = {} THEN Err("SEGMENT_NOT_VALID") ELSE Res>>)
  /\ UNCHANGED connected

SetCalPage ==
  /\ Receive({"SET_CAL_PAGE"})
  /\ page' = [k \in Kinds |-> [s \in Segments |->
                IF k \in Command.mode /\ s \in Reached(Command) THEN Command.page ELSE page[k][s]]]
  /\ Reply(<<IF Chosen(Command) = {} THEN Err("SEGMENT_NOT_VALID")
             ELSE IF Lacking(Command) # {} THEN Err("PAGE_NOT_VALID") ELSE Res>>)
  /\ UNCHANGED connected

\* Fault: the pages of the two kinds are mixed up.
GetCalPageOther ==
  /\ Receive({"GET_CAL_PAGE"})
  /\ Reply(<<IF Command.segm \notin Segments THEN Err("SEGMENT_NOT_VALID")
             ELSE IF Cardinality(Command.mode) # 1 THEN Err("CMD_SYNTAX")
             ELSE [kind |-> "PAGE",
                   page |-> page[CHOOSE k \in Kinds : Command.mode # {k}][Command.segm]]>>)
  /\ UNCHANGED <<connected, page>>

\* Xcp_CmdGetCalPage: the page of one kind, not of both.
GetCalPage ==
  /\ Receive({"GET_CAL_PAGE"})
  /\ Reply(<<IF Command.segm \notin Segments THEN Err("SEGMENT_NOT_VALID")
             ELSE IF ~\E k \in Kinds : Command.mode = {k} THEN Err("CMD_SYNTAX")
             ELSE [kind |-> "PAGE",
                   page |-> page[CHOOSE k \in Kinds : Command.mode = {k}][Command.segm]]>>)
  /\ UNCHANGED <<connected, page>>

\* Xcp_CmdGetSegmentInfo: what it reads is configuration; of that the number
\* of pages, in mode 1, is of interest here.
SegmentInfo(c) ==
  CASE c.segm \notin Segments -> Err("OUT_OF_RANGE")
    [] c.segm \in Segments /\ c.mode = 1 -> [kind |-> "COUNT", pages |-> MaxPages[c.segm]]
    [] c.segm \in Segments /\ c.mode = 2 /\ c.mapi >= MaxMapping -> Err("OUT_OF_RANGE")
    [] c.segm \in Segments /\ c.mode = 0 /\ c.info \in 0..1 -> [kind |-> "INFO"]
    [] c.segm \in Segments /\ c.mode = 2 /\ c.mapi < MaxMapping /\ c.info \in 0..2 -> [kind |-> "INFO"]
    [] OTHER -> Err("CMD_SYNTAX")

GetSegmentInfo == /\ Receive({"GET_SEGMENT_INFO"})
                  /\ Reply(<<SegmentInfo(Command)>>)
                  /\ UNCHANGED <<connected, page>>

\* Xcp_CmdGetPagProcessorInfo and Xcp_CmdGetCommModeInfo: configuration.
GetInfo == /\ Receive({"GET_PAG_PROCESSOR_INFO", "GET_COMM_MODE_INFO"})
           /\ Reply(<<[kind |-> "INFO"]>>)
           /\ UNCHANGED <<connected, page>>

\* Xcp_CmdUser, without a XcpUserFn.
User == /\ Receive({"USER_CMD"})
        /\ Reply(<<Err("CMD_UNKNOWN")>>)
        /\ UNCHANGED <<connected, page>>

\* Xcp_CmdTransportLayer of XcpOnCan.c knows GET_SLAVE_ID only, which it
\* answers twice; the one of XcpOnEth.c knows nothing.
TransportLayer ==
  /\ Receive({"TRANSPORT_LAYER_CMD"})
  /\ Reply(IF transport = "CAN" /\ Command.sub = "GET_SLAVE_ID"
           THEN <<[kind |-> "ID"], Res>> ELSE <<Err("CMD_UNKNOWN")>>)
  /\ UNCHANGED <<connected, page>>

-----------------------------------------------------------------------------
(* The slave: frames                                                       *)

\* Fault: the counter has one bit.
CountBit(ctr) == (ctr + 1) % 2

Count(ctr) == (ctr + 1) % CtrMod

\* Xcp_Transmit: on Ethernet each attempt has a number of its own.
Number == IF transport = "ETHERNET" THEN Count(ctrTx) ELSE 0

\* Xcp_Transmit_Main: a frame that is refused stays the first.
Transmit == /\ queue # <<>>
            /\ ctrTx' = Number
            /\ \/ /\ queue' = Tail(queue)
                  /\ air' = Append(air, [ctr |-> Number, body |-> Head(queue)])
                  /\ UNCHANGED faults
               \/ Fault("REFUSE") /\ UNCHANGED <<queue, air>>
            /\ UNCHANGED <<transport, connected, page, toSlave, mind, history>>

Slave == \/ Connect \/ Synch \/ SetCalPage \/ GetCalPage
         \/ GetSegmentInfo \/ GetInfo \/ User \/ TransportLayer \/ Transmit

-----------------------------------------------------------------------------
(* The transport between them                                              *)

\* The next frame has arrived before or will arrive again.
Copied == Head(air).ctr = heard \/ (Len(air) > 1 /\ Head(air).ctr = air[2].ctr)

Lose == /\ UNCHANGED <<transport, slave, mind, outcome>>
        /\ \/ /\ toSlave # <<>> /\ Fault("LOSE_COMMAND")
              /\ toSlave' = Tail(toSlave) /\ UNCHANGED <<air, lost>>
           \/ /\ air # <<>> /\ Fault("LOSE_FRAME")
              /\ air' = Tail(air) /\ UNCHANGED toSlave
              /\ lost' = IF Copied THEN lost ELSE lost + 1

\* A datagram that arrives twice.
Twice(datagrams) == <<Head(datagrams)>> \o datagrams

Repeat ==
  /\ transport = "ETHERNET"
  /\ \E kind \in {"REPEAT_COMMAND", "REPEAT_FRAME"} :
       /\ (IF kind = "REPEAT_COMMAND" THEN toSlave ELSE air) # <<>> /\ Fault(kind)
       /\ toSlave' = IF kind = "REPEAT_COMMAND" THEN Twice(toSlave) ELSE toSlave
       /\ air' = IF kind = "REPEAT_FRAME" THEN Twice(air) ELSE air
  /\ UNCHANGED <<transport, slave, mind, history>>

-----------------------------------------------------------------------------
(* The master                                                              *)

Ask == /\ master.stage = "idle" /\ master.asked < MaxRequests
       /\ \E r \in Requests :
            /\ master.online \/ r.cmd \in {"CONNECT", "TRANSPORT_LAYER_CMD"}
            /\ toSlave' = Append(toSlave, r)
            /\ master' = [master EXCEPT !.stage = "waiting", !.call = r, !.asked = @ + 1]
       /\ outcome' = None
       /\ UNCHANGED <<transport, slave, air, belief, heard, lost, faults>>

Flushing == [cmd |-> IF master.online THEN "SYNCH" ELSE "CONNECT"]
Flush(m) == /\ toSlave' = Append(toSlave, Flushing)
            /\ master' = [m EXCEPT !.stage = "flushing"]

\* The answers a call may have.
Fits(c, e) ==
  \/ e.kind = "ERR"
  \/ c.cmd = "CONNECT" /\ e.kind = "CONNECTED"
  \/ c.cmd = "SET_CAL_PAGE" /\ e.kind = "RES"
  \/ c.cmd = "GET_CAL_PAGE" /\ e.kind = "PAGE"
  \/ c.cmd = "GET_SEGMENT_INFO" /\ e.kind \in {"COUNT", "INFO"}
  \/ c.cmd \in {"GET_PAG_PROCESSOR_INFO", "GET_COMM_MODE_INFO"} /\ e.kind = "INFO"
  \/ c.cmd = "TRANSPORT_LAYER_CMD" /\ e.kind = "ID"

\* What the master believes with value v for the segments and kinds.
Believe(kinds, segments, v) ==
  belief' = [k \in DOMAIN belief |-> [s \in Segments |->
               IF k \in kinds /\ s \in segments THEN v ELSE belief[k][s]]]

Learn(c, e) ==
  CASE c.cmd = "SET_CAL_PAGE" /\ e.kind = "RES" -> Believe(c.mode, Chosen(c), c.page)
    [] c.cmd = "SET_CAL_PAGE" /\ e.kind = "ERR" /\ "ALL" \in c.mode /\ "DOUBT_PARTIAL" \in Habits ->
         Believe(c.mode, Segments, Unknown)
    [] e.kind = "PAGE" -> Believe(c.mode, {c.segm}, e.page)
    [] e.kind = "COUNT" -> Believe({"COUNT"}, {c.segm}, e.pages)
    [] OTHER -> UNCHANGED belief

\* A call without a result: its effect, if any, is not known.
Forget(c) == IF c # None /\ c.cmd = "SET_CAL_PAGE"
             THEN Believe(c.mode, Chosen(c), Unknown) ELSE UNCHANGED belief

Repeated == /\ transport = "ETHERNET" /\ "DROP_REPEATED" \in Habits
            /\ Head(air).ctr = heard

Hear ==
  /\ air # <<>> /\ air' = Tail(air)
  /\ heard' = Head(air).ctr /\ lost' = 0
  /\ LET e == Head(air).body
         c == master.call
         online == master.online \/ e.kind = "CONNECTED"
     IN \/ /\ Repeated \/ master.stage = "idle"
           /\ UNCHANGED <<master, belief, toSlave>>
        \/ /\ ~Repeated /\ master.stage = "flushing"
           /\ IF e.kind \in {"ERR_SYNCH", "CONNECTED"}
              THEN /\ master' = [master EXCEPT !.stage = "idle", !.call = None, !.online = online,
                                               !.result = IF c = None THEN @ ELSE None]
                   /\ Forget(c)
              ELSE UNCHANGED <<master, belief>>
           /\ UNCHANGED toSlave
        \/ /\ ~Repeated /\ master.stage = "waiting" /\ Fits(c, e)
           /\ Learn(c, e)
           /\ LET m == [master EXCEPT !.stage = "idle", !.call = None, !.result = e, !.online = online]
              IN IF c.cmd = "TRANSPORT_LAYER_CMD" /\ "FLUSH_AFTER_ID" \in Habits
                 THEN Flush(m) ELSE master' = m /\ UNCHANGED toSlave
        \/ /\ ~Repeated /\ master.stage = "waiting" /\ ~Fits(c, e)
           /\ Flush(master)
           /\ UNCHANGED belief
  /\ UNCHANGED <<transport, slave, outcome, faults>>

\* No answer came and none will: the timeout is longer than any delay.
Timeout == /\ toSlave = <<>> /\ air = <<>> /\ queue = <<>>
           /\ master.stage # "idle"
           /\ Flush(master)
           /\ UNCHANGED <<transport, slave, air, belief, heard, history, faults>>

Next == Slave \/ Lose \/ Repeat \/ Ask \/ Hear \/ Timeout

\* The slave is called again and again, the master listens.
Spec == Init /\ [][Next]_vars /\ WF_vars(Slave) /\ WF_vars(Hear) /\ WF_vars(Timeout)

-----------------------------------------------------------------------------
(* Properties                                                              *)

TypeOK ==
  /\ transport \in Transports /\ connected \in BOOLEAN
  /\ \A k \in Kinds, s \in Segments :
       page[k][s] \in 0..MaxPages[s] - 1 /\ belief[k][s] \in (0..MaxPages[s] - 1) \cup {Unknown}
  /\ ctrTx \in 0..CtrMod - 1 /\ heard \in 0..CtrMod - 1
  /\ master.stage \in {"idle", "waiting", "flushing"}
  /\ master.call \in Requests \cup {None} /\ faults \in 0..MaxFaults

\* The pages that the call in hand may be changing.
Changing == IF master.call # None /\ master.call.cmd = "SET_CAL_PAGE"
            THEN (master.call.mode \cap Kinds) \X Chosen(master.call) ELSE {}

\* What the master takes for the page of a segment is the page of the segment
\* (Xcp_CmdSetCalPage, Xcp_CmdGetCalPage), and its count of pages is right,
\* however many answers, frames and commands were lost, refused or repeated.
PagesKnown ==
  \A s \in Segments :
    /\ \A k \in Kinds : <<k, s>> \in Changing \/ belief[k][s] \in {Unknown, page[k][s]}
    /\ belief["COUNT"][s] \in {Unknown, MaxPages[s]}

\* Each command has at most one effect, while the master waits for it, and
\* the result it gets is that one: the dialogue implements PageRegisters.
Registers == INSTANCE PageRegisters
  WITH Calls <- Requests, call <- master.call, result <- master.result,
       outcome <- IF master.call = None THEN None ELSE outcome
IsRegisters == Registers!Spec

\* On Ethernet a lost frame shows: the one heard next is not numbered as the
\* successor of the last one heard (Xcp_EthCtrTx), as long as fewer frames
\* are lost than the counter has values.
LossShows ==
  [][transport = "ETHERNET" /\ lost > 0 /\ lost' = 0 => Head(air).ctr # Count(heard)]_vars

\* The reverse, that a gap in the numbers means that a frame was lost.
GapIsLoss ==
  [][transport = "ETHERNET" /\ Len(air') < Len(air) /\ lost' = 0
       => lost > 0 \/ Head(air).ctr \in {heard, Count(heard)}]_vars

\* The master is never left waiting.
CallEnds == master.stage # "idle" ~> master.stage = "idle"
==============================================================================
