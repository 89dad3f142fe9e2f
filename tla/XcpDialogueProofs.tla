-------------------------- MODULE XcpDialogueProofs --------------------------
(***************************************************************************)
(* Proofs about XcpDialogue, for all pages and requests, every range of    *)
(* the counter and any number of faults.                                   *)
(*                                                                         *)
(* As in a session, the argument is about what is under way.  Of what the  *)
(* master can still hear, everything is a copy of the frame it has heard   *)
(* last, or comes from the command it waits for; and what makes it go idle *)
(* has nothing but its own copies behind it.                               *)
(***************************************************************************)
EXTENDS XcpDialogue, QueueLemmas

\* The master takes care of what it hears, and commands arrive once at most.
\* dialogue_id and dialogue_udp show that both are needed.
Careful == /\ {"FLUSH_AFTER_ID", "DROP_REPEATED"} \subseteq Habits
           /\ "REPEAT_COMMAND" \notin FaultKinds

-----------------------------------------------------------------------------
(* The invariant                                                           *)

\* The frames that a master drops, as it has heard their number last.
Old(i) == transport = "ETHERNET" /\ \A j \in 1..i : air[j].ctr = heard

\* What the master can still hear in its stage, and what it goes idle at.
Awaited ==
  {e \in Answers : \/ master.stage = "flushing"
                   \/ /\ master.stage = "waiting" /\ outcome # None
                      /\ e = outcome \/ (master.call.cmd = "TRANSPORT_LAYER_CMD" /\ e = Res)}

Ending == {e \in Answers : \/ master.stage = "waiting" /\ master.call.cmd # "TRANSPORT_LAYER_CMD"
                           \/ e.kind \in {"ERR_SYNCH", "CONNECTED"}}

\* Behind frame i there are copies of it only.
Alone(i) == /\ toSlave = <<>> /\ queue = <<>>
            /\ \A j \in DOMAIN air : j > i => transport = "ETHERNET" /\ air[j].ctr = air[i].ctr

Calling ==
  /\ master.stage = "idle" => master.call = None /\ toSlave = <<>>
  /\ master.stage = "waiting" => /\ master.call # None
                                 /\ toSlave # <<>> => toSlave = <<master.call>> /\ outcome = None
  /\ master.stage = "flushing" => toSlave \in {<<>>, <<Flushing>>}

Arriving ==
  /\ \A i \in DOMAIN queue : /\ queue[i] \in Awaited
                             /\ queue[i] \in Ending => i = Len(queue) /\ toSlave = <<>>
  /\ \A i \in DOMAIN air : \/ Old(i)
                           \/ air[i].body \in Awaited /\ (air[i].body \in Ending => Alone(i))

\* Answer e fits the call and is true.
Answering(e) ==
  LET c == master.call
  IN /\ Fits(c, e)
     /\ c.cmd = "CONNECT" => e = [kind |-> "CONNECTED"]
     /\ e.kind = "PAGE" => /\ c.segm \in Segments
                           /\ \E k \in Kinds : c.mode = {k} /\ e.page = page[k][c.segm]
     /\ e.kind = "COUNT" => c.segm \in Segments /\ e.pages = MaxPages[c.segm]
     /\ e.kind = "RES" => \A p \in Changing : page[p[1]][p[2]] = c.page

Told == master.call # None /\ outcome # None => Answering(outcome)

MasterType == [stage : {"idle", "waiting", "flushing"}, call : Requests \cup {None},
               result : Answers \cup {None}, online : BOOLEAN, asked : Nat]

Typed ==
  /\ transport \in Transports /\ connected \in BOOLEAN
  /\ page = [k \in Kinds |-> [s \in Segments |-> page[k][s]]]
  /\ belief = [k \in Kinds \cup {"COUNT"} |-> [s \in Segments |-> belief[k][s]]]
  /\ \A k \in Kinds, s \in Segments :
       page[k][s] \in 0..MaxPages[s] - 1 /\ belief[k][s] \in (0..MaxPages[s] - 1) \cup {Unknown}
  /\ ctrTx \in 0..CtrMod - 1 /\ heard \in 0..CtrMod - 1
  /\ queue \in Seq(Answers) /\ air \in Seq([ctr : 0..CtrMod - 1, body : Answers])
  /\ master \in MasterType
  /\ outcome \in Answers \cup {None} /\ faults \in 0..MaxFaults

IInv == Typed /\ Calling /\ Arriving /\ Told

\* What the master believes is so, but for what the call in hand has changed.
Knows ==
  \A s \in Segments :
    /\ belief["COUNT"][s] \in {Unknown, MaxPages[s]}
    /\ \A k \in Kinds :
         \/ belief[k][s] \in {Unknown, page[k][s]}
         \/ /\ <<k, s>> \in Changing /\ outcome # None
            /\ outcome.kind = "RES" \/ "ALL" \in master.call.mode

-----------------------------------------------------------------------------
(* Values                                                                  *)

LEMMA PagesType ==
  /\ Segments \subseteq Nat /\ \A s \in Segments : MaxPages[s] \in Nat \ {0}
BY DialogueAssumption, LenProperties, ElementOfSeq DEF Segments

LEMMA RequestFields ==
  ASSUME NEW c \in Requests
  PROVE  /\ c # None
         /\ c.cmd \in {"CONNECT", "GET_PAG_PROCESSOR_INFO", "GET_COMM_MODE_INFO", "USER_CMD",
                       "SET_CAL_PAGE", "GET_CAL_PAGE", "GET_SEGMENT_INFO", "TRANSPORT_LAYER_CMD"}
         /\ c.cmd = "CONNECT" => c = [cmd |-> "CONNECT"]
         /\ c.cmd = "SET_CAL_PAGE" => c.mode \subseteq {"ECU", "XCP", "ALL"} /\ c.page \in Nat
         /\ c.cmd = "GET_CAL_PAGE" => c.mode \subseteq {"ECU", "XCP", "ALL"}
BY DialogueAssumption DEF Commands

LEMMA AnswerTypes ==
  /\ Res \in Answers /\ None \notin Answers
  /\ \A kind \in {"RES", "CONNECTED", "ERR_SYNCH", "INFO", "ID"} : [kind |-> kind] \in Answers
  /\ \A code \in {"SEGMENT_NOT_VALID", "PAGE_NOT_VALID", "CMD_SYNTAX", "CMD_UNKNOWN", "OUT_OF_RANGE"} :
       Err(code) \in Answers
  /\ \A p \in Nat : [kind |-> "PAGE", page |-> p] \in Answers /\ [kind |-> "COUNT", pages |-> p] \in Answers
<1>1. None \notin Answers
  BY DialogueAssumption
<1>2. Res \in Answers /\ \A kind \in {"RES", "CONNECTED", "ERR_SYNCH", "INFO", "ID"} : [kind |-> kind] \in Answers
  BY DEF Answers, Res
<1>3. \A code \in {"SEGMENT_NOT_VALID", "PAGE_NOT_VALID", "CMD_SYNTAX", "CMD_UNKNOWN", "OUT_OF_RANGE"} :
        Err(code) \in Answers
  BY DEF Answers, Err
<1>4. \A p \in Nat : [kind |-> "PAGE", page |-> p] \in Answers /\ [kind |-> "COUNT", pages |-> p] \in Answers
  BY DEF Answers
<1>. QED  BY <1>1, <1>2, <1>3, <1>4

\* What a call can be about.
LEMMA ChosenType ==
  ASSUME NEW c PROVE Chosen(c) \subseteq Segments
BY DEF Chosen

LEMMA MasterFields ==
  ASSUME Typed
  PROVE  /\ master.stage \in {"idle", "waiting", "flushing"} /\ master.call \in Requests \cup {None}
         /\ master.result \in Answers \cup {None} /\ master.online \in BOOLEAN /\ master.asked \in Nat
BY DEF Typed, MasterType

-----------------------------------------------------------------------------
(* Answers                                                                 *)

\* What FIFO_GET_WRITE leaves of an answer, or of two.
LEMMA Answered ==
  ASSUME queue \in Seq(Answers), faults \in 0..MaxFaults,
         NEW a \in Answers, Answer(<<a>>)
  PROVE  queue' \in {queue, Append(queue, a)} /\ faults' \in faults..MaxFaults
<1>1. PICK dropped \in SUBSET {1} :
        /\ faults + Cardinality(dropped) <= MaxFaults
        /\ faults' = faults + Cardinality(dropped)
        /\ queue' = queue \o (IF 1 \in dropped THEN <<>> ELSE <<a>>)
  <2>1. DOMAIN <<a>> = {1} /\ Len(<<a>>) = 1 /\ <<a>>[1] = a
    OBVIOUS
  <2>. QED  BY <2>1 DEF Answer
<1>2. IsFiniteSet({1})
  BY FS_Singleton
<1>3. Cardinality(dropped) \in Nat
  BY <1>1, <1>2, FS_Subset, FS_CardinalityType
<1>4. faults' \in faults..MaxFaults
  BY <1>1, <1>3, DialogueAssumption
<1>5. queue' \in {queue, Append(queue, a)}
  BY <1>1, ConcatEmptySeq, AppendIsConcat
<1>. QED  BY <1>4, <1>5

LEMMA AnsweredTwice ==
  ASSUME queue = <<>>, faults \in 0..MaxFaults,
         NEW a \in Answers, NEW b \in Answers, Answer(<<a, b>>)
  PROVE  /\ queue' \in Seq(Answers) /\ \A i \in DOMAIN queue' : queue'[i] \in {a, b}
         /\ faults' \in faults..MaxFaults
<1>1. PICK dropped \in SUBSET {1, 2} :
        /\ faults + Cardinality(dropped) <= MaxFaults
        /\ faults' = faults + Cardinality(dropped)
        /\ queue' = <<>> \o ((IF 1 \in dropped THEN <<>> ELSE <<a>>) \o (IF 2 \in dropped THEN <<>> ELSE <<b>>))
  <2>1. DOMAIN <<a, b>> = {1, 2} /\ Len(<<a, b>>) = 2 /\ <<a, b>>[1] = a /\ <<a, b>>[2] = b
    OBVIOUS
  <2>. QED  BY <2>1 DEF Answer
<1>2. IsFiniteSet({1, 2})
  <2>1. IsFiniteSet({1} \cup {2})
    BY FS_Singleton, FS_AddElement
  <2>2. {1, 2} = {1} \cup {2}
    OBVIOUS
  <2>. QED  BY <2>1, <2>2
<1>3. Cardinality(dropped) \in Nat
  BY <1>1, <1>2, FS_Subset, FS_CardinalityType
<1>4. faults' \in faults..MaxFaults
  BY <1>1, <1>3, DialogueAssumption
<1>5. queue' \in {<<>>, <<a>>, <<b>>, <<a, b>>}
  <2>1. /\ <<>> \in Seq({a, b}) /\ <<a>> \in Seq({a, b}) /\ <<b>> \in Seq({a, b})
        /\ <<a, b>> \in Seq({a, b}) /\ Len(<<a>>) = 1 /\ Len(<<b>>) = 1 /\ Len(<<a, b>>) = 2
    OBVIOUS
  <2>2. <<a>> \o <<b>> = <<a, b>>
    <3>1. /\ <<a>> \o <<b>> \in Seq({a, b}) /\ Len(<<a>> \o <<b>>) = 2
          /\ (<<a>> \o <<b>>)[1] = a /\ (<<a>> \o <<b>>)[2] = b
      BY <2>1, ConcatProperties
    <3>2. \A i \in 1..2 : (<<a>> \o <<b>>)[i] = <<a, b>>[i]
      BY <3>1
    <3>. QED  BY <2>1, <3>1, <3>2, SeqEqual
  <2>3. \A s \in Seq({a, b}) : <<>> \o s = s /\ s \o <<>> = s
    BY ConcatEmptySeq
  <2>. QED  BY <1>1, <2>1, <2>2, <2>3
<1>6. /\ queue' \in Seq(Answers)
      /\ \A i \in DOMAIN queue' : queue'[i] \in {a, b}
  <2>1. /\ <<>> \in Seq(Answers) /\ <<a>> \in Seq(Answers) /\ <<b>> \in Seq(Answers)
        /\ <<a, b>> \in Seq(Answers)
    OBVIOUS
  <2>2. \A i \in DOMAIN <<a, b>> : <<a, b>>[i] \in {a, b}
    OBVIOUS
  <2>3. \A s \in {<<>>, <<a>>, <<b>>} : \A i \in DOMAIN s : s[i] \in {a, b}
    OBVIOUS
  <2>. QED  BY <1>5, <2>1, <2>2, <2>3
<1>. QED  BY <1>4, <1>6

-----------------------------------------------------------------------------
(* The slave handles a command                                             *)

\* A command in the queue is the call or the one that flushes, and no other
\* is behind it.  Before a call is handled nothing of it can be heard.
LEMMA Received ==
  ASSUME IInv, NEW cmds, Receive(cmds)
  PROVE  /\ Command.cmd \in cmds /\ toSlave' = <<>>
         /\ UNCHANGED <<transport, ctrTx, air, master, belief, heard, lost>>
         /\ \/ /\ master.stage = "waiting" /\ Command = master.call /\ master.call \in Requests
               /\ outcome = None /\ queue = <<>> /\ \A i \in DOMAIN air : Old(i)
            \/ master.stage = "flushing" /\ Command.cmd \in {"SYNCH", "CONNECT"}
         /\ \A i \in DOMAIN queue : queue[i] \in Awaited \ Ending
         /\ \A i \in DOMAIN air : Old(i) \/ air[i].body \in Awaited \ Ending
<1>1. Typed /\ Calling /\ Arriving
  BY DEF IInv
<1>2. /\ toSlave # <<>> /\ Command.cmd \in cmds /\ toSlave' = Tail(toSlave)
      /\ UNCHANGED <<transport, ctrTx, air, master, belief, heard, lost>>
  BY DEF Receive, mind
<1>3. /\ \A i \in DOMAIN queue : queue[i] \in Awaited \ Ending
      /\ \A i \in DOMAIN air : Old(i) \/ air[i].body \in Awaited \ Ending
  BY <1>1, <1>2 DEF Arriving, Alone
<1>4. CASE master.stage = "waiting"
  <2>1. toSlave = <<master.call>> /\ outcome = None /\ master.call # None
    BY <1>1, <1>2, <1>4 DEF Calling
  <2>2. Tail(toSlave) = <<>> /\ Command = master.call
    BY <2>1 DEF Command
  <2>3. Awaited = {}
    BY <1>4, <2>1 DEF Awaited
  <2>4. queue = <<>>
    <3>1. queue \in Seq(Answers) /\ queue # <<>> => queue[1] \in Awaited
      BY <1>1, <1>3, Dropped DEF Typed
    <3>. QED  BY <1>1, <2>3, <3>1 DEF Typed
  <2>5. master.call \in Requests
    BY <1>1, <2>1, MasterFields
  <2>. QED  BY <1>2, <1>3, <1>4, <2>1, <2>2, <2>3, <2>4, <2>5
<1>5. CASE master.stage = "flushing"
  <2>1. toSlave = <<Flushing>>
    BY <1>1, <1>2, <1>5 DEF Calling
  <2>2. Tail(toSlave) = <<>> /\ Command = Flushing
    BY <2>1 DEF Command
  <2>. QED  BY <1>2, <1>3, <1>5, <2>2 DEF Flushing
<1>6. CASE master.stage = "idle"
  BY <1>1, <1>2, <1>6 DEF Calling
<1>. QED  BY <1>1, <1>4, <1>5, <1>6, MasterFields

\* Its answer is then the only one that is awaited, or the last one.
LEMMA ReplyArrives ==
  ASSUME IInv, NEW cmds, Receive(cmds), NEW a \in Answers, Reply(<<a>>)
  PROVE  /\ Calling' /\ Arriving'
         /\ queue' \in Seq(Answers) /\ outcome' \in Answers \cup {None} /\ faults' \in 0..MaxFaults
         /\ outcome' = IF Command = master.call THEN a ELSE outcome
<1>1. Typed /\ Calling /\ Arriving
  BY DEF IInv
<1>2. /\ toSlave' = <<>> /\ UNCHANGED <<transport, ctrTx, air, master, heard>>
      /\ \/ /\ master.stage = "waiting" /\ Command = master.call /\ master.call \in Requests
            /\ outcome = None /\ queue = <<>> /\ \A i \in DOMAIN air : Old(i)
         \/ master.stage = "flushing"
      /\ \A i \in DOMAIN queue : queue[i] \in Awaited \ Ending
      /\ \A i \in DOMAIN air : Old(i) \/ air[i].body \in Awaited \ Ending
  BY Received
<1>3. queue' \in {queue, Append(queue, a)} /\ faults' \in faults..MaxFaults /\ queue \in Seq(Answers)
      /\ faults \in 0..MaxFaults
  BY <1>1, Answered DEF Typed, Reply
<1>4. queue' \in Seq(Answers) /\ faults' \in 0..MaxFaults
  <2>1. faults' \in 0..MaxFaults
    BY <1>3, DialogueAssumption
  <2>. QED  BY <1>3, <2>1, AppendProperties
<1>5. outcome' = IF Command = master.call THEN a ELSE outcome
  BY DEF Reply
<1>6. outcome' \in Answers \cup {None}
  BY <1>1, <1>5 DEF Typed
<1>7. Calling'
  BY <1>1, <1>2 DEF Calling
<1>8. \A i \in DOMAIN queue' : \/ (i \in DOMAIN queue /\ queue'[i] = queue[i])
                              \/ (i = Len(queue') /\ queue'[i] = a)
  <2>1. CASE queue' = queue
    BY <2>1
  <2>2. CASE queue' = Append(queue, a)
    BY <1>3, <2>2, Appended
  <2>. QED  BY <1>3, <2>1, <2>2
<1>9. ASSUME NEW e, e \in Awaited \/ e = a PROVE e \in Awaited'
  <2>1. CASE master.stage = "waiting"
    <3>1. e = a /\ outcome' = a /\ a # None
      BY <1>2, <1>5, <1>9, <2>1, AnswerTypes DEF Awaited
    <3>. QED  BY <1>2, <2>1, <3>1 DEF Awaited
  <2>2. CASE master.stage = "flushing"
    BY <1>2, <1>9, <2>2 DEF Awaited
  <2>. QED  BY <1>2, <2>1, <2>2
<1>10. Ending' = Ending
  BY <1>2 DEF Ending
<1>11. \A i : Old(i)' <=> Old(i)
  BY <1>2 DEF Old
<1>12. Arriving'
  <2>1. ASSUME NEW i \in DOMAIN queue'
        PROVE  queue'[i] \in Awaited' /\ (queue'[i] \in Ending' => i = Len(queue') /\ toSlave' = <<>>)
    BY <1>2, <1>8, <1>9, <1>10
  <2>2. ASSUME NEW i \in DOMAIN air', ~Old(i)'
        PROVE  air'[i].body \in Awaited' /\ air'[i].body \notin Ending'
    BY <1>2, <1>9, <1>10, <1>11, <2>2
  <2>. QED  BY <2>1, <2>2 DEF Arriving
<1>. QED  BY <1>4, <1>5, <1>6, <1>7, <1>12

\* An answer that fits and that changes no page.
LEMMA Replied ==
  ASSUME IInv, NEW cmds, Receive(cmds), "SET_CAL_PAGE" \notin cmds,
         NEW a \in Answers, Reply(<<a>>), connected' \in BOOLEAN, UNCHANGED page,
         Command = master.call /\ master.call # None => Answering(a)
  PROVE  /\ IInv' /\ [Registers!Next]_(Registers!vars)
         /\ Knows => Knows'
<1>1. Typed /\ Calling /\ Told
  BY DEF IInv
<1>2. /\ Calling' /\ Arriving' /\ queue' \in Seq(Answers) /\ outcome' \in Answers \cup {None}
      /\ faults' \in 0..MaxFaults /\ outcome' = IF Command = master.call THEN a ELSE outcome
  BY ReplyArrives
<1>3. /\ UNCHANGED <<transport, ctrTx, air, master, belief, heard>> /\ Command.cmd \in cmds
      /\ \/ master.stage = "waiting" /\ Command = master.call /\ outcome = None
         \/ master.stage = "flushing" /\ Command.cmd \in {"SYNCH", "CONNECT"}
  BY Received
<1>4. Typed'
  BY <1>1, <1>2, <1>3 DEF Typed
<1>5. Told'
  <2>. SUFFICES ASSUME master.call # None, outcome' # None PROVE Answering(outcome)'
    BY <1>3 DEF Told
  <2>1. Answering(outcome')
    BY <1>1, <1>2 DEF Told
  <2>. QED  BY <1>3, <2>1 DEF Answering, Changing
<1>6. \/ outcome' = outcome
      \/ outcome = None /\ outcome' = a /\ Command = master.call
      \/ master.call = None
  <2>. SUFFICES ASSUME Command = master.call, outcome # None, master.stage = "flushing", master.call # None
                PROVE  outcome = a
    BY <1>2, <1>3
  <2>1. Command.cmd = "CONNECT"
    BY <1>1, <1>3, RequestFields, MasterFields
  <2>. QED  BY <1>1, <2>1 DEF Told, Answering
<1>7. [Registers!Next]_(Registers!vars)
  <2>1. CASE outcome' = outcome \/ master.call = None
    BY <1>3, <2>1 DEF Registers!vars
  <2>2. CASE outcome = None /\ outcome' = a /\ Command = master.call /\ master.call # None
    <3>1. Answering(a) /\ a # None /\ master.call.cmd # "SET_CAL_PAGE"
      BY <1>3, <2>2, AnswerTypes
    <3>2. a.kind = "PAGE" => /\ master.call.cmd = "GET_CAL_PAGE"
                             /\ \E k \in master.call.mode : a.page = page[k][master.call.segm]
      BY <3>1 DEF Answering, Fits
    <3>. QED  BY <1>3, <2>2, <3>1, <3>2 DEF Registers!Next, Registers!Effect
  <2>. QED  BY <1>6, <2>1, <2>2
<1>8. Knows => Knows'
  BY <1>3, <1>6 DEF Knows, Changing
<1>. QED  BY <1>2, <1>4, <1>5, <1>7, <1>8 DEF IInv

LEMMA ConnectStep ==
  ASSUME IInv, Connect
  PROVE  IInv' /\ [Registers!Next]_(Registers!vars) /\ (Knows => Knows')
<1>1. /\ Receive({"CONNECT"}) /\ Reply(<<[kind |-> "CONNECTED"]>>) /\ connected' \in BOOLEAN
      /\ UNCHANGED page /\ [kind |-> "CONNECTED"] \in Answers
  BY AnswerTypes DEF Connect
<1>2. ASSUME Command = master.call, master.call # None PROVE Answering([kind |-> "CONNECTED"])
  <2>1. master.call.cmd = "CONNECT"
    BY <1>1, <1>2 DEF Receive
  <2>. QED  BY <2>1 DEF Answering, Fits
<1>. QED  BY <1>1, <1>2, Replied

LEMMA SynchStep ==
  ASSUME IInv, Synch
  PROVE  IInv' /\ [Registers!Next]_(Registers!vars) /\ (Knows => Knows')
<1>1. /\ Receive({"SYNCH"}) /\ Reply(<<[kind |-> "ERR_SYNCH"]>>) /\ connected' \in BOOLEAN
      /\ UNCHANGED page /\ [kind |-> "ERR_SYNCH"] \in Answers
  BY AnswerTypes DEF Synch, IInv, Typed
<1>2. Command = master.call => master.call = None
  BY <1>1, RequestFields, MasterFields DEF Receive, IInv
<1>. QED  BY <1>1, <1>2, Replied

LEMMA GetCalPageStep ==
  ASSUME IInv, GetCalPage
  PROVE  IInv' /\ [Registers!Next]_(Registers!vars) /\ (Knows => Knows')
<1> DEFINE c == Command
           k == CHOOSE j \in Kinds : c.mode = {j}
           a == IF c.segm \notin Segments THEN Err("SEGMENT_NOT_VALID")
                ELSE IF ~\E j \in Kinds : c.mode = {j} THEN Err("CMD_SYNTAX")
                ELSE [kind |-> "PAGE", page |-> page[k][c.segm]]
<1>1. /\ Receive({"GET_CAL_PAGE"}) /\ Reply(<<a>>) /\ connected' \in BOOLEAN /\ UNCHANGED page
  BY DEF GetCalPage, IInv, Typed
<1>2. ASSUME c.segm \in Segments, \E j \in Kinds : c.mode = {j}
      PROVE  k \in Kinds /\ c.mode = {k} /\ page[k][c.segm] \in Nat
  <2>1. k \in Kinds /\ c.mode = {k}
    BY <1>2
  <2>2. page[k][c.segm] \in 0..MaxPages[c.segm] - 1
    <3>. HIDE DEF k
    <3>. QED  BY <1>2, <2>1 DEF IInv, Typed
  <2>3. page[k][c.segm] \in Nat
    BY <1>2, <2>2, PagesType
  <2>. QED  BY <2>1, <2>3
<1>3. a \in Answers
  <2>. HIDE DEF k
  <2>. QED  BY <1>2, AnswerTypes
<1>4. ASSUME c = master.call PROVE Answering(a)
  <2>1. c.cmd = "GET_CAL_PAGE"
    BY <1>1 DEF Receive
  <2>2. CASE a.kind = "ERR" /\ a.kind # "PAGE"
    BY <1>4, <2>1, <2>2 DEF Answering, Fits
  <2>3. CASE c.segm \in Segments /\ \E j \in Kinds : c.mode = {j}
    <3>. HIDE DEF k
    <3>1. a.kind = "PAGE" /\ a.page = page[k][c.segm]
      BY <2>3
    <3>2. k \in Kinds /\ c.mode = {k}
      BY <1>2, <2>3
    <3>. QED  BY <1>4, <2>1, <2>3, <3>1, <3>2 DEF Answering, Fits
  <2>. QED  BY <2>2, <2>3 DEF Err
<1>. HIDE DEF a
<1>. QED  BY <1>1, <1>3, <1>4, Replied

LEMMA GetSegmentInfoStep ==
  ASSUME IInv, GetSegmentInfo
  PROVE  IInv' /\ [Registers!Next]_(Registers!vars) /\ (Knows => Knows')
<1> DEFINE a == SegmentInfo(Command)
<1>1. /\ Receive({"GET_SEGMENT_INFO"}) /\ Reply(<<a>>) /\ connected' \in BOOLEAN /\ UNCHANGED page
  BY DEF GetSegmentInfo, IInv, Typed
<1>2. \/ a \in {Err("OUT_OF_RANGE"), Err("CMD_SYNTAX"), [kind |-> "INFO"]}
      \/ Command.segm \in Segments /\ a = [kind |-> "COUNT", pages |-> MaxPages[Command.segm]]
  BY DEF SegmentInfo
<1>3. a \in Answers
  BY <1>2, PagesType, AnswerTypes
<1>4. ASSUME Command = master.call PROVE Answering(a)
  <2>1. Command.cmd = "GET_SEGMENT_INFO"
    BY <1>1 DEF Receive
  <2>. HIDE DEF a
  <2>2. CASE a \in {Err("OUT_OF_RANGE"), Err("CMD_SYNTAX"), [kind |-> "INFO"]}
    <3>1. a.kind \in {"ERR", "INFO"}
      BY <2>2 DEF Err
    <3>. QED  BY <1>4, <2>1, <3>1 DEF Answering, Fits
  <2>3. CASE Command.segm \in Segments /\ a = [kind |-> "COUNT", pages |-> MaxPages[Command.segm]]
    BY <1>4, <2>1, <2>3 DEF Answering, Fits
  <2>. QED  BY <1>2, <2>2, <2>3
<1>. HIDE DEF a
<1>. QED  BY <1>1, <1>3, <1>4, Replied

LEMMA GetInfoStep ==
  ASSUME IInv, GetInfo
  PROVE  IInv' /\ [Registers!Next]_(Registers!vars) /\ (Knows => Knows')
<1>1. /\ Receive({"GET_PAG_PROCESSOR_INFO", "GET_COMM_MODE_INFO"}) /\ Reply(<<[kind |-> "INFO"]>>)
      /\ connected' \in BOOLEAN /\ UNCHANGED page /\ [kind |-> "INFO"] \in Answers
  BY AnswerTypes DEF GetInfo, IInv, Typed
<1>2. ASSUME Command = master.call PROVE Answering([kind |-> "INFO"])
  BY <1>1, <1>2 DEF Receive, Answering, Fits
<1>. QED  BY <1>1, <1>2, Replied

LEMMA UserStep ==
  ASSUME IInv, User
  PROVE  IInv' /\ [Registers!Next]_(Registers!vars) /\ (Knows => Knows')
<1>1. /\ Receive({"USER_CMD"}) /\ Reply(<<Err("CMD_UNKNOWN")>>)
      /\ connected' \in BOOLEAN /\ UNCHANGED page /\ Err("CMD_UNKNOWN") \in Answers
  BY AnswerTypes DEF User, IInv, Typed
<1>2. ASSUME Command = master.call PROVE Answering(Err("CMD_UNKNOWN"))
  BY <1>1, <1>2 DEF Receive, Answering, Fits, Err
<1>. QED  BY <1>1, <1>2, Replied

\* The segments that are reached have the page; all are if none lacks it, and
\* of a single segment without it none is.
LEMMA ReachedType ==
  ASSUME NEW c \in Requests, c.cmd = "SET_CAL_PAGE"
  PROVE  /\ Reached(c) \subseteq Chosen(c) /\ Chosen(c) \subseteq Segments
         /\ \A s \in Reached(c) : c.page \in 0..MaxPages[s] - 1
         /\ Lacking(c) = {} => Reached(c) = Chosen(c)
         /\ "ALL" \notin c.mode /\ (Lacking(c) # {} \/ Chosen(c) = {}) => Reached(c) = {}
<1>1. Reached(c) \subseteq Chosen(c) /\ Chosen(c) \subseteq Segments /\ c.page \in Nat
  BY ChosenType, RequestFields DEF Reached
<1>2. ASSUME NEW s \in Reached(c) PROVE c.page \in 0..MaxPages[s] - 1
  <2>1. s \in Nat /\ MaxPages[s] \in Nat
    BY <1>1, PagesType
  <2>2. s \notin Lacking(c)
    BY <2>1 DEF Reached
  <2>. QED  BY <1>1, <2>1, <2>2 DEF Lacking
<1>3. ASSUME Lacking(c) = {} PROVE Reached(c) = Chosen(c)
  BY <1>3 DEF Reached
<1>4. ASSUME "ALL" \notin c.mode, Lacking(c) # {} \/ Chosen(c) = {} PROVE Reached(c) = {}
  <2>. SUFFICES ASSUME NEW s \in Reached(c) PROVE FALSE
    OBVIOUS
  <2>1. PICK t : t \in Lacking(c)
    BY <1>1, <1>4
  <2>2. s = c.segm /\ t = c.segm /\ s \in Nat
    BY <1>1, <1>4, <2>1, PagesType DEF Lacking, Chosen
  <2>3. s < t
    BY <2>1 DEF Reached
  <2>. QED  BY <2>2, <2>3
<1>. QED  BY <1>1, <1>2, <1>3, <1>4

LEMMA SetCalPageStep ==
  ASSUME IInv, SetCalPage
  PROVE  IInv' /\ [Registers!Next]_(Registers!vars) /\ (Knows => Knows')
<1> DEFINE c == master.call
           a == IF Chosen(c) = {} THEN Err("SEGMENT_NOT_VALID")
                ELSE IF Lacking(c) # {} THEN Err("PAGE_NOT_VALID") ELSE Res
           Set(k, s) == k \in c.mode /\ s \in Reached(c)
<1>1. Typed /\ Receive({"SET_CAL_PAGE"})
  BY DEF SetCalPage, IInv
<1>2. /\ Command = c /\ c \in Requests /\ c # None /\ c.cmd = "SET_CAL_PAGE"
      /\ master.stage = "waiting" /\ outcome = None
      /\ UNCHANGED <<transport, ctrTx, air, master, belief, heard>>
  BY <1>1, Received, RequestFields
<1>3. /\ page' = [k \in Kinds |-> [s \in Segments |-> IF Set(k, s) THEN c.page ELSE page[k][s]]]
      /\ Reply(<<a>>) /\ UNCHANGED connected
  BY <1>2 DEF SetCalPage
<1>4. a \in Answers /\ a # None
  BY AnswerTypes
<1>5. /\ Calling' /\ Arriving' /\ queue' \in Seq(Answers) /\ faults' \in 0..MaxFaults /\ outcome' = a
  <2>. HIDE DEF a
  <2>. QED  BY <1>1, <1>2, <1>3, <1>4, ReplyArrives
<1>6. \A k \in Kinds, s \in Segments : page'[k][s] = IF Set(k, s) THEN c.page ELSE page[k][s]
  BY <1>3
<1>7. Typed'
  <2>1. page' = [k \in Kinds |-> [s \in Segments |-> page'[k][s]]]
    BY <1>3, <1>6
  <2>2. ASSUME NEW k \in Kinds, NEW s \in Segments PROVE page'[k][s] \in 0..MaxPages[s] - 1
    <3>1. page[k][s] \in 0..MaxPages[s] - 1
      BY <1>1 DEF Typed
    <3>2. s \in Reached(c) => c.page \in 0..MaxPages[s] - 1
      BY <1>2, ReachedType
    <3>. QED  BY <1>6, <3>1, <3>2
  <2>. HIDE DEF a
  <2>. QED  BY <1>1, <1>2, <1>3, <1>4, <1>5, <2>1, <2>2 DEF Typed
<1>8. \/ /\ a.kind = "RES" /\ a = Res
         /\ \A p \in Changing : p[1] \in Kinds /\ p[2] \in Segments /\ page'[p[1]][p[2]] = c.page
      \/ a.kind = "ERR" /\ ("ALL" \notin c.mode => page' = page)
  <2>1. CASE Chosen(c) # {} /\ Lacking(c) = {}
    <3>1. a.kind = "RES" /\ a = Res
      BY <2>1 DEF Res
    <3>2. \A p \in Changing : p[1] \in c.mode \cap Kinds /\ p[2] \in Reached(c) /\ p[2] \in Segments
      BY <1>2, <2>1, ReachedType DEF Changing
    <3>. QED  BY <1>6, <3>1, <3>2
  <2>2. CASE Chosen(c) = {} \/ Lacking(c) # {}
    <3>1. a.kind = "ERR"
      BY <2>2 DEF Err
    <3>2. ASSUME "ALL" \notin c.mode PROVE page' = page
      <4>1. \A k, s : ~Set(k, s)
        BY <1>2, <2>2, <3>2, ReachedType
      <4>. QED  BY <1>1, <1>3, <4>1 DEF Typed
    <3>. QED  BY <3>1, <3>2
  <2>. QED  BY <2>1, <2>2
<1>. HIDE DEF a
<1>9. Told'
  BY <1>2, <1>5, <1>8 DEF Told, Answering, Fits, Changing
<1>10. \A k \in Kinds, s \in Segments : page'[k][s] # page[k][s] => <<k, s>> \in Changing /\ page'[k][s] = c.page
  BY <1>2, <1>6, ReachedType DEF Changing
<1>11. [Registers!Next]_(Registers!vars)
  <2>1. Changing = Registers!Asked(c)
    BY <1>2 DEF Changing, Registers!Asked, Chosen
  <2>2. c # None /\ outcome = None /\ outcome' # None /\ UNCHANGED <<master.call, master.result>>
    BY <1>2, <1>4, <1>5
  <2>3. CASE a.kind = "RES"
    BY <1>2, <1>5, <1>8, <1>10, <2>1, <2>2, <2>3
       DEF Registers!Next, Registers!Effect, Registers!OnlyTo
  <2>4. CASE a.kind = "ERR"
    BY <1>2, <1>5, <1>8, <1>10, <2>1, <2>2, <2>4
       DEF Registers!Next, Registers!Effect, Registers!OnlyTo
  <2>. QED  BY <1>8, <2>3, <2>4
<1>12. Knows => Knows'
  <2>. SUFFICES ASSUME Knows PROVE Knows'
    OBVIOUS
  <2>1. Changing' = Changing
    BY <1>2 DEF Changing
  <2>2. ASSUME NEW s \in Segments, NEW k \in Kinds
        PROVE  \/ belief'[k][s] \in {Unknown, page'[k][s]}
               \/ /\ <<k, s>> \in Changing' /\ outcome' # None
                  /\ outcome'.kind = "RES" \/ "ALL" \in master'.call.mode
    <3>1. belief'[k][s] \in {Unknown, page[k][s]}
      BY <1>2 DEF Knows
    <3>. QED  BY <1>2, <1>4, <1>5, <1>8, <1>10, <2>1, <3>1
  <2>. QED  BY <1>2, <2>2 DEF Knows
<1>. QED  BY <1>5, <1>7, <1>9, <1>11, <1>12 DEF IInv

LEMMA TransportLayerStep ==
  ASSUME IInv, TransportLayer
  PROVE  IInv' /\ [Registers!Next]_(Registers!vars) /\ (Knows => Knows')
<1> DEFINE id == [kind |-> "ID"]
<1>1. Typed /\ Calling /\ Receive({"TRANSPORT_LAYER_CMD"}) /\ UNCHANGED <<connected, page>>
  BY DEF TransportLayer, IInv
<1>2. /\ Command = master.call /\ master.call.cmd = "TRANSPORT_LAYER_CMD" /\ toSlave' = <<>>
      /\ master.call # None /\ master.call \in Requests
      /\ master.stage = "waiting" /\ outcome = None /\ queue = <<>> /\ \A i \in DOMAIN air : Old(i)
      /\ UNCHANGED <<transport, ctrTx, air, master, belief, heard>>
  BY <1>1, Received, RequestFields
<1>3. CASE Reply(<<Err("CMD_UNKNOWN")>>)
  <2>1. Err("CMD_UNKNOWN") \in Answers /\ connected' \in BOOLEAN
    BY <1>1, AnswerTypes DEF Typed
  <2>2. Answering(Err("CMD_UNKNOWN"))
    BY <1>2 DEF Answering, Fits, Err
  <2>. QED  BY <1>1, <1>3, <2>1, <2>2, Replied
<1>4. CASE Reply(<<id, Res>>)
  <2>1. id \in Answers /\ Res \in Answers /\ id # None /\ Answer(<<id, Res>>) /\ outcome' = id
    BY <1>2, <1>4, AnswerTypes DEF Reply
  <2>2. /\ queue' \in Seq(Answers) /\ \A i \in DOMAIN queue' : queue'[i] \in {id, Res}
        /\ faults' \in 0..MaxFaults
    <3>1. faults \in 0..MaxFaults
      BY <1>1 DEF Typed
    <3>2. faults' \in faults..MaxFaults /\ queue' \in Seq(Answers)
          /\ \A i \in DOMAIN queue' : queue'[i] \in {id, Res}
      BY <1>2, <2>1, <3>1, AnsweredTwice
    <3>. QED  BY <3>1, <3>2, DialogueAssumption
  <2>3. Typed'
    BY <1>1, <1>2, <2>1, <2>2 DEF Typed
  <2>4. Calling'
    BY <1>1, <1>2 DEF Calling
  <2>5. Arriving'
    <3>1. {id, Res} \subseteq Awaited' /\ {id, Res} \cap Ending' = {}
      BY <1>2, <2>1 DEF Awaited, Ending, Res
    <3>2. \A i \in DOMAIN air' : Old(i)'
      BY <1>2 DEF Old
    <3>. QED  BY <2>2, <3>1, <3>2 DEF Arriving
  <2>6. Told'
    BY <1>2, <2>1 DEF Told, Answering, Fits
  <2>7. [Registers!Next]_(Registers!vars)
    BY <1>1, <1>2, <2>1 DEF Registers!Next, Registers!Effect
  <2>8. Knows => Knows'
    BY <1>1, <1>2 DEF Knows, Changing
  <2>. QED  BY <2>3, <2>4, <2>5, <2>6, <2>7, <2>8 DEF IInv
<1>. QED  BY <1>3, <1>4 DEF TransportLayer

-----------------------------------------------------------------------------
(* Frames and commands on their way                                        *)

LEMMA FaultCounted ==
  ASSUME Typed, NEW kind, Fault(kind) PROVE faults' \in 0..MaxFaults
BY DialogueAssumption DEF Typed, Fault

LEMMA Numbered ==
  Typed => Count(ctrTx) \in 0..CtrMod - 1 /\ Number \in 0..CtrMod - 1
BY DialogueAssumption DEF Typed, Count, Number

\* A frame that is sent has no frame behind it, and of those before it none
\* is one at which the master goes idle.
LEMMA TransmitStep ==
  ASSUME IInv, Transmit
  PROVE  IInv' /\ [Registers!Next]_(Registers!vars) /\ (Knows => Knows')
<1>1. Typed /\ Calling /\ Arriving /\ Told
  BY DEF IInv
<1>2. /\ UNCHANGED <<transport, connected, page, toSlave, master, belief, heard, outcome>>
      /\ ctrTx' = Number /\ queue # <<>> /\ faults' \in 0..MaxFaults
  <2>1. faults \in 0..MaxFaults
    BY <1>1 DEF Typed
  <2>2. faults' = faults \/ Fault("REFUSE")
    BY DEF Transmit
  <2>3. faults' \in 0..MaxFaults
    BY <1>1, <2>1, <2>2, FaultCounted
  <2>. QED  BY <2>3 DEF Transmit, mind, history
<1>3. Calling' /\ Told' /\ UNCHANGED Registers!vars /\ (Knows => Knows')
  BY <1>1, <1>2 DEF Calling, Told, Answering, Changing, Registers!vars, Knows, Flushing
<1>4. Awaited' = Awaited /\ Ending' = Ending
  BY <1>2 DEF Awaited, Ending
<1>5. CASE UNCHANGED <<queue, air>>
  <2>1. Typed'
    BY <1>1, <1>2, <1>5, Numbered DEF Typed
  <2>2. Arriving'
    BY <1>1, <1>2, <1>4, <1>5 DEF Arriving, Old, Alone
  <2>. QED  BY <1>3, <2>1, <2>2 DEF IInv
<1>6. CASE queue' = Tail(queue) /\ air' = Append(air, [ctr |-> Number, body |-> Head(queue)])
  <2> DEFINE f == [ctr |-> Number, body |-> Head(queue)]
             F == [ctr : 0..CtrMod - 1, body : Answers]
  <2>1. /\ queue' \in Seq(Answers) /\ Len(queue) \in Nat \ {0} /\ Len(queue') = Len(queue) - 1
        /\ DOMAIN queue = 1..Len(queue) /\ DOMAIN queue' = 1..Len(queue) - 1
        /\ \A i \in 1..Len(queue) - 1 : queue'[i] = queue[i + 1]
        /\ Head(queue) = queue[1]
    <3>1. queue \in Seq(Answers)
      BY <1>1 DEF Typed
    <3>. QED  BY <1>2, <1>6, <3>1, Dropped
  <2>2. queue[1] \in Awaited /\ queue[1] \in Answers /\ (queue[1] \in Ending => Len(queue) = 1 /\ toSlave = <<>>)
    BY <1>1, <2>1 DEF Arriving, Awaited
  <2>3. f \in F /\ f.body = queue[1]
    BY <1>1, <2>1, <2>2, Numbered
  <2>4. /\ air' \in Seq(F) /\ Len(air) \in Nat /\ Len(air') = Len(air) + 1
        /\ DOMAIN air = 1..Len(air) /\ DOMAIN air' = 1..Len(air) + 1
        /\ \A i \in 1..Len(air) : air'[i] = air[i]
        /\ air'[Len(air) + 1] = f
    <3>1. air \in Seq(F) /\ F \cup {f} = F
      BY <1>1, <2>3 DEF Typed
    <3>. HIDE DEF F, f
    <3>2. air' = Append(air, f)
      BY <1>6 DEF f
    <3>. QED  BY <3>1, <3>2, Appended
  <2>. HIDE DEF f
  <2>5. Typed'
    <3>1. air' \in Seq([ctr : 0..CtrMod - 1, body : Answers])
      BY <2>4
    <3>. HIDE DEF F
    <3>. QED  BY <1>1, <1>2, <2>1, <3>1, Numbered DEF Typed
  <2>6. ASSUME NEW i \in DOMAIN queue'
        PROVE  queue'[i] \in Awaited' /\ (queue'[i] \in Ending' => i = Len(queue') /\ toSlave' = <<>>)
    <3>1. i + 1 \in DOMAIN queue /\ queue'[i] = queue[i + 1]
      BY <2>1
    <3>. QED  BY <1>1, <1>2, <1>4, <2>1, <3>1 DEF Arriving
  <2>7. ASSUME NEW i \in DOMAIN air', ~Old(i)'
        PROVE  air'[i].body \in Awaited' /\ (air'[i].body \in Ending' => Alone(i)')
    <3>1. CASE i \in 1..Len(air)
      <4>1. ~Old(i) /\ i \in DOMAIN air /\ air'[i] = air[i]
        <5>1. \A j \in 1..i : j \in 1..Len(air)
          BY <2>4, <3>1
        <5>. QED  BY <1>2, <2>4, <2>7, <3>1, <5>1 DEF Old
      <4>2. ~Alone(i)
        BY <1>2 DEF Alone
      <4>. QED  BY <1>1, <1>4, <4>1, <4>2 DEF Arriving
    <3>2. CASE i = Len(air) + 1
      <4>1. air'[i].body = queue[1]
        BY <2>3, <2>4, <3>2
      <4>2. ASSUME queue[1] \in Ending PROVE Alone(i)'
        <5>1. toSlave' = <<>> /\ DOMAIN queue' = {} /\ Len(queue') = 0
          BY <1>2, <2>1, <2>2, <4>2
        <5>2. queue' = <<>>
          BY <2>1, <5>1, EmptySeq
        <5>3. \A j \in DOMAIN air' : ~(j > i)
          BY <2>4, <3>2
        <5>. QED  BY <5>1, <5>2, <5>3 DEF Alone
      <4>. QED  BY <1>4, <2>2, <4>1, <4>2
    <3>. QED  BY <2>4, <3>1, <3>2
  <2>8. Arriving'
    BY <2>6, <2>7 DEF Arriving
  <2>. QED  BY <1>3, <2>5, <2>8 DEF IInv
<1>. QED  BY <1>5, <1>6 DEF Transmit

\* The first frame is taken off the air.
LEMMA Landed ==
  ASSUME Typed, air # <<>>, air' = Tail(air)
  PROVE  /\ air' \in Seq([ctr : 0..CtrMod - 1, body : Answers])
         /\ Len(air) \in Nat \ {0} /\ DOMAIN air = 1..Len(air) /\ DOMAIN air' = 1..Len(air) - 1
         /\ 1 \in DOMAIN air /\ Head(air) = air[1]
         /\ air[1].ctr \in 0..CtrMod - 1 /\ air[1].body \in Answers
         /\ \A i \in DOMAIN air' : i \in Nat \ {0} /\ i + 1 \in DOMAIN air /\ air'[i] = air[i + 1]
<1> DEFINE F == [ctr : 0..CtrMod - 1, body : Answers]
<1>1. air \in Seq(F)
  BY DEF Typed
<1>2. /\ air' \in Seq(F) /\ Len(air) \in Nat \ {0} /\ DOMAIN air = 1..Len(air)
      /\ DOMAIN air' = 1..Len(air) - 1 /\ Head(air) = air[1]
      /\ \A i \in 1..Len(air) - 1 : air'[i] = air[i + 1]
  <2>. HIDE DEF F
  <2>. QED  BY <1>1, Dropped
<1>3. 1 \in DOMAIN air /\ \A i \in DOMAIN air' : i \in Nat \ {0} /\ i + 1 \in DOMAIN air
  BY <1>2
<1>4. air[1] \in F
  BY <1>1, <1>3, ElementOfSeq, <1>2
<1>. QED  BY <1>2, <1>3, <1>4

\* What remains in the air is as it was, if what the master waits for is.
LEMMA Remaining ==
  ASSUME Typed, Arriving, air # <<>>, air' = Tail(air), heard' \in {heard, air[1].ctr},
         UNCHANGED <<transport, queue, toSlave, master, outcome>>
  PROVE  Arriving'
<1>1. /\ DOMAIN air = 1..Len(air) /\ Len(air) \in Nat /\ 1 \in DOMAIN air
      /\ \A i \in DOMAIN air' : i \in Nat \ {0} /\ i + 1 \in DOMAIN air /\ air'[i] = air[i + 1]
  BY Landed
<1>2. Awaited' = Awaited /\ Ending' = Ending
  BY DEF Awaited, Ending
<1>3. ASSUME NEW i \in DOMAIN air'
      PROVE  Old(i + 1) => Old(i)'
  <2>. SUFFICES ASSUME Old(i + 1) PROVE Old(i)'
    OBVIOUS
  <2>1. \A j \in 1..i + 1 : air[j].ctr = heard
    BY DEF Old
  <2>2. heard' = heard
    BY <1>1, <2>1
  <2>3. \A j \in 1..i : j + 1 \in 1..i + 1 /\ air'[j] = air[j + 1]
    BY <1>1, Landed
  <2>. QED  BY <2>1, <2>2, <2>3 DEF Old
<1>4. ASSUME NEW i \in DOMAIN air', Alone(i + 1) PROVE Alone(i)'
  <2>1. \A j \in DOMAIN air' : j > i => j + 1 > i + 1
    BY <1>1
  <2>. QED  BY <1>1, <1>4, <2>1 DEF Alone
<1>5. ASSUME NEW i \in DOMAIN air', ~Old(i)'
      PROVE  air'[i].body \in Awaited' /\ (air'[i].body \in Ending' => Alone(i)')
  BY <1>1, <1>2, <1>3, <1>4, <1>5 DEF Arriving
<1>. QED  BY <1>2, <1>5 DEF Arriving

LEMMA LoseStep ==
  ASSUME IInv, Lose
  PROVE  IInv' /\ [Registers!Next]_(Registers!vars) /\ (Knows => Knows')
<1>1. Typed /\ Calling /\ Arriving /\ Told
  BY DEF IInv
<1>2. /\ UNCHANGED <<transport, connected, page, queue, ctrTx, master, belief, heard, outcome>>
      /\ faults' \in 0..MaxFaults
  <2>1. faults' \in 0..MaxFaults
    BY <1>1, FaultCounted DEF Lose
  <2>. QED  BY <2>1 DEF Lose, slave, mind
<1>3. Told' /\ UNCHANGED Registers!vars /\ (Knows => Knows')
  BY <1>1, <1>2 DEF Told, Answering, Changing, Registers!vars, Knows
<1>4. CASE toSlave # <<>> /\ toSlave' = Tail(toSlave) /\ UNCHANGED air
  <2>1. toSlave' = <<>>
    <3>1. toSlave \in {<<master.call>>, <<Flushing>>}
      BY <1>1, <1>4, MasterFields DEF Calling
    <3>. QED  BY <1>4, <3>1
  <2>2. Typed'
    BY <1>1, <1>2, <1>4 DEF Typed
  <2>3. Calling'
    BY <1>1, <1>2, <2>1 DEF Calling
  <2>4. Arriving'
    BY <1>1, <1>2, <1>4, <2>1 DEF Arriving, Awaited, Ending, Old, Alone
  <2>. QED  BY <1>3, <2>2, <2>3, <2>4 DEF IInv
<1>5. CASE air # <<>> /\ air' = Tail(air) /\ UNCHANGED toSlave
  <2>1. Typed'
    BY <1>1, <1>2, <1>5, Landed DEF Typed
  <2>2. Calling'
    BY <1>1, <1>2, <1>5 DEF Calling, Flushing
  <2>3. Arriving'
    BY <1>1, <1>2, <1>5, Remaining
  <2>. QED  BY <1>3, <2>1, <2>2, <2>3 DEF IInv
<1>. QED  BY <1>4, <1>5 DEF Lose

\* A frame that arrives twice has a copy behind it.
LEMMA RepeatStep ==
  ASSUME Careful, IInv, Repeat
  PROVE  IInv' /\ [Registers!Next]_(Registers!vars) /\ (Knows => Knows')
<1> DEFINE F == [ctr : 0..CtrMod - 1, body : Answers]
<1>1. Typed /\ Calling /\ Arriving /\ Told
  BY DEF IInv
<1>2. /\ UNCHANGED <<transport, connected, page, queue, ctrTx, master, belief, heard, outcome, toSlave>>
      /\ faults' \in 0..MaxFaults /\ transport = "ETHERNET"
      /\ air # <<>> /\ air' = <<Head(air)>> \o air
  <2>1. /\ air # <<>> /\ Fault("REPEAT_FRAME") /\ toSlave' = toSlave /\ air' = <<Head(air)>> \o air
    BY DEF Careful, Repeat, Twice, Fault
  <2>2. faults' \in 0..MaxFaults
    BY <1>1, <2>1, FaultCounted
  <2>. QED  BY <2>1, <2>2 DEF Repeat, slave, mind, history
<1>3. Told' /\ UNCHANGED Registers!vars /\ (Knows => Knows')
  BY <1>1, <1>2 DEF Told, Answering, Changing, Registers!vars, Knows
<1>4. /\ air' \in Seq(F) /\ Len(air) \in Nat \ {0} /\ DOMAIN air = 1..Len(air)
      /\ DOMAIN air' = 1..Len(air) + 1 /\ air'[1] = air[1]
      /\ \A i \in 1..Len(air) : air'[i + 1] = air[i]
  <2>1. air \in Seq(F)
    BY <1>1 DEF Typed
  <2>. HIDE DEF F
  <2>2. Len(air) \in Nat \ {0} /\ DOMAIN air = 1..Len(air) /\ Head(air) = air[1]
    BY <1>2, <2>1, Dropped
  <2>3. air[1] \in F
    BY <2>1, <2>2, ElementOfSeq
  <2>4. <<air[1]>> \in Seq(F) /\ Len(<<air[1]>>) = 1 /\ <<air[1]>>[1] = air[1]
    BY <2>3
  <2>5. /\ air' \in Seq(F) /\ Len(air') = 1 + Len(air)
        /\ \A i \in 1..1 + Len(air) : air'[i] = IF i <= 1 THEN <<air[1]>>[i] ELSE air[i - 1]
    BY <1>2, <2>1, <2>2, <2>4, ConcatProperties
  <2>6. DOMAIN air' = 1..Len(air) + 1
    BY <2>2, <2>5, LenProperties
  <2>7. air'[1] = air[1]
    BY <2>2, <2>4, <2>5
  <2>8. \A i \in 1..Len(air) : air'[i + 1] = air[i]
    BY <2>2, <2>5
  <2>. QED  BY <2>2, <2>5, <2>6, <2>7, <2>8
<1>5. Typed' /\ Calling'
  <2>1. Typed'
    BY <1>1, <1>2, <1>4 DEF Typed
  <2>. QED  BY <1>1, <1>2, <2>1 DEF Calling, Flushing
<1>6. Awaited' = Awaited /\ Ending' = Ending
  BY <1>2 DEF Awaited, Ending
<1>7. ASSUME NEW i \in DOMAIN air
      PROVE  (Old(i) => Old(i + 1)') /\ (Alone(i) => Alone(i + 1)')
  <2>1. ASSUME Old(i) PROVE Old(i + 1)'
    <3>1. ASSUME NEW j \in 1..i + 1 PROVE air'[j].ctr = heard
      <4>1. CASE j = 1
        BY <1>4, <2>1, <4>1 DEF Old
      <4>2. CASE j # 1
        <5>1. j - 1 \in 1..i /\ j - 1 \in 1..Len(air) /\ air'[j] = air[j - 1]
          <6>1. j - 1 \in 1..i /\ j - 1 \in 1..Len(air) /\ (j - 1) + 1 = j
            BY <1>4, <4>2
          <6>. QED  BY <1>4, <6>1
        <5>. QED  BY <2>1, <5>1 DEF Old
      <4>. QED  BY <4>1, <4>2
    <3>. QED  BY <1>2, <3>1 DEF Old
  <2>2. ASSUME Alone(i) PROVE Alone(i + 1)'
    <3>1. ASSUME NEW j \in DOMAIN air', j > i + 1 PROVE air'[j].ctr = air'[i + 1].ctr
      <4>1. j - 1 \in DOMAIN air /\ j - 1 > i /\ (j - 1) + 1 = j
        BY <1>4, <3>1
      <4>2. air'[j] = air[j - 1] /\ air'[i + 1] = air[i]
        BY <1>4, <4>1
      <4>3. air[j - 1].ctr = air[i].ctr
        BY <2>2, <4>1 DEF Alone
      <4>. QED  BY <4>2, <4>3
    <3>. QED  BY <1>2, <2>2, <3>1 DEF Alone
  <2>. QED  BY <2>1, <2>2
<1>8. (Old(1) => Old(1)') /\ (Alone(1) => Alone(1)')
  <2>1. Old(1) => Old(1)'
    BY <1>2, <1>4 DEF Old
  <2>2. ASSUME Alone(1) PROVE Alone(1)'
    <3>1. ASSUME NEW j \in DOMAIN air', j > 1 PROVE air'[j].ctr = air'[1].ctr
      <4>1. j - 1 \in DOMAIN air /\ (j - 1 > 1 \/ j - 1 = 1) /\ (j - 1) + 1 = j
        BY <1>4, <3>1
      <4>. QED  BY <1>4, <2>2, <4>1 DEF Alone
    <3>. QED  BY <1>2, <2>2, <3>1 DEF Alone
  <2>. QED  BY <2>1, <2>2
<1>9. ASSUME NEW i \in DOMAIN air', ~Old(i)'
      PROVE  air'[i].body \in Awaited' /\ (air'[i].body \in Ending' => Alone(i)')
  <2>1. CASE i = 1
    <3>1. 1 \in DOMAIN air
      BY <1>4
    <3>. QED  BY <1>1, <1>4, <1>6, <1>8, <1>9, <2>1, <3>1 DEF Arriving
  <2>2. CASE i # 1
    <3>1. i - 1 \in DOMAIN air /\ (i - 1) + 1 = i
      BY <1>4, <2>2
    <3>2. air'[i] = air[i - 1] /\ ~Old(i - 1) /\ (Alone(i - 1) => Alone(i)')
      BY <1>4, <1>7, <1>9, <3>1
    <3>. QED  BY <1>1, <1>6, <3>1, <3>2 DEF Arriving
  <2>. QED  BY <2>1, <2>2
<1>10. Arriving'
  BY <1>1, <1>2, <1>6, <1>9 DEF Arriving
<1>. QED  BY <1>3, <1>5, <1>10 DEF IInv

-----------------------------------------------------------------------------
(* The master                                                              *)

\* A master that is idle has heard of everything.
LEMMA AskStep ==
  ASSUME IInv, Ask
  PROVE  IInv' /\ [Registers!Next]_(Registers!vars) /\ (Knows => Knows')
<1>1. Typed /\ Calling /\ Arriving /\ Told
  BY DEF IInv
<1>2. PICK r \in Requests :
        /\ toSlave' = Append(toSlave, r)
        /\ master' = [master EXCEPT !.stage = "waiting", !.call = r, !.asked = @ + 1]
  BY DEF Ask
<1>3. /\ UNCHANGED <<transport, connected, page, queue, ctrTx, air, belief, heard, faults>>
      /\ outcome' = None /\ master.stage = "idle" /\ master.call = None /\ toSlave = <<>>
  BY <1>1 DEF Ask, slave, Calling
<1>4. /\ master'.stage = "waiting" /\ master'.call = r /\ master'.result = master.result
      /\ master' \in MasterType
      /\ r # None
  <2>1. master \in MasterType /\ master.asked + 1 \in Nat
    BY <1>1 DEF Typed, MasterType
  <2>2. master' \in MasterType
    BY <1>2, <2>1 DEF MasterType
  <2>. QED  BY <1>2, <2>1, <2>2, RequestFields DEF MasterType
<1>5. Typed'
  BY <1>1, <1>3, <1>4 DEF Typed
<1>6. Calling'
  <2>1. Append(<<>>, r) = <<r>>
    OBVIOUS
  <2>. QED  BY <1>2, <1>3, <1>4, <2>1 DEF Calling
<1>7. Arriving'
  <2>1. DOMAIN queue = {} /\ \A i \in DOMAIN air : Old(i)
    BY <1>1, <1>3 DEF Arriving, Awaited
  <2>. QED  BY <1>3, <2>1 DEF Arriving, Old
<1>8. Told'
  BY <1>3 DEF Told
<1>9. [Registers!Next]_(Registers!vars)
  BY <1>3, <1>4 DEF Registers!Next, Registers!Invoke
<1>10. Knows => Knows'
  BY <1>3 DEF Knows, Changing
<1>. QED  BY <1>5, <1>6, <1>7, <1>8, <1>9, <1>10 DEF IInv

LEMMA TimeoutStep ==
  ASSUME IInv, Timeout
  PROVE  IInv' /\ [Registers!Next]_(Registers!vars) /\ (Knows => Knows')
<1>1. Typed /\ Calling /\ Arriving /\ Told
  BY DEF IInv
<1>2. /\ UNCHANGED <<transport, connected, page, queue, ctrTx, air, belief, heard, outcome, faults>>
      /\ queue = <<>> /\ air = <<>>
      /\ toSlave' = <<Flushing>> /\ master' = [master EXCEPT !.stage = "flushing"]
  <2>1. Append(<<>>, Flushing) = <<Flushing>>
    OBVIOUS
  <2>. QED  BY <2>1 DEF Timeout, Flush, slave, history
<1>3. /\ master'.stage = "flushing" /\ master'.call = master.call /\ master'.result = master.result
      /\ master'.online = master.online
      /\ master' \in MasterType
  BY <1>1, <1>2 DEF Typed, MasterType
<1>4. Typed' /\ Calling'
  BY <1>1, <1>2, <1>3 DEF Typed, Calling, Flushing
<1>5. Arriving'
  BY <1>2 DEF Arriving
<1>6. Told' /\ UNCHANGED Registers!vars /\ (Knows => Knows')
  BY <1>1, <1>2, <1>3 DEF Told, Answering, Changing, Registers!vars, Knows
<1>. QED  BY <1>4, <1>5, <1>6 DEF IInv

\* The frames that a master hears and does not drop are those it awaits.
LEMMA Heard ==
  ASSUME Careful, Typed, Arriving, air # <<>>, ~Repeated
  PROVE  /\ \A i \in DOMAIN air : air[i].body \in Awaited
         /\ air[1].body \in Awaited /\ air[1].body \in Answers
         /\ air[1].body \in Ending => Alone(1)
<1>1. ~Old(1) /\ \A i \in DOMAIN air : i \in Nat \ {0}
  <2>1. /\ 1 \in DOMAIN air /\ Head(air) = air[1] /\ \A i \in DOMAIN air : i \in Nat \ {0}
    <3>1. air \in Seq([ctr : 0..CtrMod - 1, body : Answers])
      BY DEF Typed
    <3>. QED  BY <3>1, Dropped
  <2>. QED  BY <2>1 DEF Repeated, Old, Careful
<1>2. \A i \in DOMAIN air : ~Old(i)
  <2>1. \A i \in Nat \ {0} : 1 \in 1..i
    OBVIOUS
  <2>. QED  BY <1>1, <2>1 DEF Old
<1>3. 1 \in DOMAIN air
  BY Dropped DEF Typed
<1>. QED  BY <1>2, <1>3 DEF Arriving, Awaited

\* What is behind a frame that has only copies behind it is dropped then.
LEMMA LastHeard ==
  ASSUME Typed, Alone(1), air # <<>>, air' = Tail(air), heard' = air[1].ctr,
         UNCHANGED <<queue, transport>>
  PROVE  queue' = <<>> /\ \A i \in DOMAIN air' : Old(i)'
<1>1. ASSUME NEW i \in DOMAIN air', NEW j \in 1..i
      PROVE  transport = "ETHERNET" /\ air'[j].ctr = heard'
  <2>1. j \in DOMAIN air' /\ j + 1 \in DOMAIN air /\ air'[j] = air[j + 1] /\ j + 1 > 1
    BY Landed
  <2>. QED  BY <2>1 DEF Alone
<1>2. \A i \in DOMAIN air' : 1 \in 1..i
  BY Landed
<1>. QED  BY <1>1, <1>2 DEF Alone, Old

\* While the master flushes after the transport layer command, the rest of
\* that command's answers may come, and they do not end the flush.
LEMMA RestFlushed ==
  ASSUME Careful, Typed, Arriving, air # <<>>, ~Repeated, air' = Tail(air),
         master.stage = "waiting", master.call.cmd = "TRANSPORT_LAYER_CMD",
         outcome \in Answers => Fits(master.call, outcome),
         master'.stage = "flushing", UNCHANGED queue
  PROVE  Arriving'
<1>1. ASSUME NEW e \in Awaited PROVE e \in Awaited' /\ e \notin Ending'
  <2>1. e \in Answers /\ (e = Res \/ Fits(master.call, e))
    BY DEF Awaited
  <2>2. e.kind \notin {"ERR_SYNCH", "CONNECTED"}
    BY <2>1 DEF Fits, Res
  <2>. QED  BY <2>1, <2>2 DEF Awaited, Ending
<1>2. \A i \in DOMAIN queue' : queue'[i] \in Awaited
  BY DEF Arriving
<1>3. \A i \in DOMAIN air' : air'[i].body \in Awaited
  BY Heard, Landed
<1>. QED  BY <1>1, <1>2, <1>3 DEF Arriving

\* What the master learns from an answer that fits and is true.
LEMMA Learned ==
  ASSUME Typed, NEW c \in Requests, c = master.call, NEW e \in Answers, e = outcome, Answering(e), Learn(c, e)
  PROVE  /\ belief' = [k \in Kinds \cup {"COUNT"} |-> [s \in Segments |-> belief'[k][s]]]
         /\ \A k \in Kinds, s \in Segments : belief'[k][s] \in {belief[k][s], page[k][s], Unknown}
         /\ Knows /\ "DOUBT_PARTIAL" \in Habits =>
              \A s \in Segments : /\ belief'["COUNT"][s] \in {Unknown, MaxPages[s]}
                                  /\ \A k \in Kinds : belief'[k][s] \in {Unknown, page[k][s]}
<1>. DEFINE Learning(kinds, segments, v) ==
              \A k \in Kinds \cup {"COUNT"}, s \in Segments :
                belief'[k][s] = IF k \in kinds /\ s \in segments THEN v ELSE belief[k][s]
            Keeps == belief' = [k \in Kinds \cup {"COUNT"} |-> [s \in Segments |-> belief'[k][s]]]
<1>0. DOMAIN belief = Kinds \cup {"COUNT"} /\ "COUNT" \notin Kinds
  BY DEF Typed, Kinds
<1>1. ASSUME NEW kinds, NEW segments, NEW v, Believe(kinds, segments, v)
      PROVE  Keeps /\ Learning(kinds, segments, v)
  BY <1>0, <1>1 DEF Believe
<1>2. UNCHANGED belief => Keeps
  BY DEF Typed
<1>. HIDE DEF Keeps
<1>3. c # None /\ outcome # None
  BY RequestFields, AnswerTypes
<1>4. CASE c.cmd = "SET_CAL_PAGE" /\ e.kind = "RES"
  <2>1. Keeps /\ Learning(c.mode, Chosen(c), c.page)
    BY <1>1, <1>4 DEF Learn
  <2>2. ASSUME NEW k \in Kinds, NEW s \in Segments, k \in c.mode, s \in Chosen(c)
        PROVE  page[k][s] = c.page
    <3>1. <<k, s>> \in Changing
      BY <1>3, <1>4, <2>2 DEF Changing
    <3>2. \A p \in Changing : page[p[1]][p[2]] = c.page
      BY <1>4 DEF Answering
    <3>. QED  BY <3>1, <3>2
  <2>3. \A k \in Kinds, s \in Segments : <<k, s>> \in Changing => k \in c.mode /\ s \in Chosen(c)
    BY <1>3, <1>4 DEF Changing
  <2>4. "COUNT" \notin c.mode
    BY <1>4, RequestFields
  <2>5. ASSUME NEW k \in Kinds, NEW s \in Segments
        PROVE  \/ belief'[k][s] = page[k][s]
               \/ belief'[k][s] = belief[k][s] /\ <<k, s>> \notin Changing
    <3>1. CASE k \in c.mode /\ s \in Chosen(c)
      BY <2>1, <2>2, <3>1
    <3>2. CASE ~(k \in c.mode /\ s \in Chosen(c))
      BY <2>1, <2>3, <3>2
    <3>. QED  BY <3>1, <3>2
  <2>6. \A s \in Segments : belief'["COUNT"][s] = belief["COUNT"][s]
    BY <1>0, <2>1, <2>4
  <2>. QED  BY <2>1, <2>5, <2>6 DEF Knows, Keeps
<1>5. CASE c.cmd = "SET_CAL_PAGE" /\ e.kind = "ERR" /\ "ALL" \in c.mode /\ "DOUBT_PARTIAL" \in Habits
  <2>1. Keeps /\ Learning(c.mode, Segments, Unknown)
    BY <1>1, <1>5 DEF Learn
  <2>2. \A k \in Kinds, s \in Segments : <<k, s>> \in Changing => k \in c.mode
    BY <1>3, <1>5 DEF Changing
  <2>3. "COUNT" \notin c.mode
    BY <1>5, RequestFields
  <2>. QED  BY <1>0, <2>1, <2>2, <2>3 DEF Knows, Keeps
<1>6. CASE e.kind = "PAGE"
  <2>1. Keeps /\ Learning(c.mode, {c.segm}, e.page) /\ c.cmd # "SET_CAL_PAGE"
    BY <1>1, <1>6 DEF Learn, Answering, Fits
  <2>2. PICK j \in Kinds : c.mode = {j} /\ e.page = page[j][c.segm]
    BY <1>6 DEF Answering
  <2>3. Changing = {}
    BY <2>1 DEF Changing
  <2>. QED  BY <1>0, <2>1, <2>2, <2>3 DEF Knows, Keeps
<1>7. CASE e.kind = "COUNT"
  <2>1. Keeps /\ Learning({"COUNT"}, {c.segm}, e.pages) /\ c.cmd # "SET_CAL_PAGE"
    BY <1>1, <1>7 DEF Learn, Answering, Fits
  <2>2. e.pages = MaxPages[c.segm]
    BY <1>7 DEF Answering
  <2>3. Changing = {}
    BY <2>1 DEF Changing
  <2>. QED  BY <1>0, <2>1, <2>2, <2>3 DEF Knows, Keeps
<1>8. CASE /\ ~(c.cmd = "SET_CAL_PAGE" /\ e.kind = "RES") /\ e.kind \notin {"PAGE", "COUNT"}
           /\ ~(c.cmd = "SET_CAL_PAGE" /\ e.kind = "ERR" /\ "ALL" \in c.mode /\ "DOUBT_PARTIAL" \in Habits)
  <2>1. UNCHANGED belief
    BY <1>8 DEF Learn
  <2>2. c.cmd = "SET_CAL_PAGE" => e.kind = "ERR"
    BY <1>8 DEF Answering, Fits
  <2>3. "DOUBT_PARTIAL" \in Habits => ~(outcome.kind = "RES" \/ "ALL" \in master.call.mode) \/ Changing = {}
    BY <1>8, <2>2 DEF Changing
  <2>. QED  BY <1>2, <2>1, <2>3 DEF Knows, Keeps
<1>. QED  BY <1>4, <1>5, <1>6, <1>7, <1>8

\* What the master forgets.
LEMMA Forgotten ==
  ASSUME Typed, Forget(master.call)
  PROVE  /\ belief' = [k \in Kinds \cup {"COUNT"} |-> [s \in Segments |-> belief'[k][s]]]
         /\ \A k \in Kinds, s \in Segments : belief'[k][s] \in {belief[k][s], Unknown}
         /\ \A s \in Segments : belief'["COUNT"][s] \in {belief["COUNT"][s], Unknown}
         /\ \A k \in Kinds, s \in Segments : <<k, s>> \in Changing => belief'[k][s] = Unknown
<1> DEFINE c == master.call
<1>1. CASE c # None /\ c.cmd = "SET_CAL_PAGE"
  <2>1. belief' = [k \in DOMAIN belief |-> [s \in Segments |->
                     IF k \in c.mode /\ s \in Chosen(c) THEN Unknown ELSE belief[k][s]]]
    BY <1>1 DEF Forget, Believe
  <2>2. DOMAIN belief = Kinds \cup {"COUNT"}
    BY DEF Typed
  <2>3. \A k \in Kinds \cup {"COUNT"}, s \in Segments :
          belief'[k][s] = IF k \in c.mode /\ s \in Chosen(c) THEN Unknown ELSE belief[k][s]
    BY <2>1, <2>2
  <2>4. \A k \in Kinds, s \in Segments : <<k, s>> \in Changing => k \in c.mode /\ s \in Chosen(c)
    BY <1>1 DEF Changing
  <2>5. belief' = [k \in Kinds \cup {"COUNT"} |-> [s \in Segments |-> belief'[k][s]]]
    BY <2>1, <2>2, <2>3
  <2>. QED  BY <2>3, <2>4, <2>5
<1>2. CASE ~(c # None /\ c.cmd = "SET_CAL_PAGE")
  BY <1>2 DEF Forget, Changing, Typed
<1>. QED  BY <1>1, <1>2

LEMMA HearStep ==
  ASSUME Careful, IInv, Hear
  PROVE  /\ IInv' /\ [Registers!Next]_(Registers!vars)
         /\ "DOUBT_PARTIAL" \in Habits /\ Knows => Knows'
<1> DEFINE c == master.call
           e == air[1].body
           online == master.online \/ e.kind = "CONNECTED"
           m == [master EXCEPT !.stage = "idle", !.call = None, !.result = e, !.online = online]
<1>1. Typed /\ Calling /\ Arriving /\ Told
  BY DEF IInv
<1>2. /\ air # <<>> /\ air' = Tail(air) /\ Head(air) = air[1] /\ e \in Answers /\ heard' = air[1].ctr
      /\ air' \in Seq([ctr : 0..CtrMod - 1, body : Answers]) /\ heard' \in 0..CtrMod - 1
      /\ UNCHANGED <<transport, connected, page, queue, ctrTx, outcome, faults>>
  BY <1>1, Landed DEF Hear, slave
<1>3. CASE UNCHANGED <<master, belief, toSlave>>
  <2>1. Typed'
    BY <1>1, <1>2, <1>3 DEF Typed
  <2>2. Calling' /\ Told' /\ UNCHANGED Registers!vars /\ (Knows => Knows')
    BY <1>1, <1>2, <1>3 DEF Calling, Flushing, Told, Answering, Changing, Registers!vars, Knows
  <2>3. Arriving'
    BY <1>1, <1>2, <1>3, Remaining
  <2>. QED  BY <2>1, <2>2, <2>3 DEF IInv
<1>4. CASE /\ ~Repeated /\ master.stage = "flushing" /\ e.kind \in {"ERR_SYNCH", "CONNECTED"}
           /\ master' = [master EXCEPT !.stage = "idle", !.call = None, !.online = online,
                                       !.result = IF c = None THEN @ ELSE None]
           /\ Forget(c) /\ UNCHANGED toSlave
  <2>1. Alone(1)
    <3>1. e \in Ending
      BY <1>2, <1>4 DEF Ending
    <3>. QED  BY <1>1, <1>2, <1>4, <3>1, Heard
  <2>2. /\ master'.stage = "idle" /\ master'.call = None /\ master' \in MasterType
        /\ master'.result = IF c = None THEN master.result ELSE None
    BY <1>1, <1>4 DEF MasterType, Typed
  <2>3. Typed'
    BY <1>1, <1>2, <1>4, <2>2, Forgotten DEF Typed
  <2>4. Calling'
    BY <1>4, <2>1, <2>2 DEF Calling, Alone
  <2>5. Arriving'
    BY <1>1, <1>2, <2>1, LastHeard DEF Arriving
  <2>6. Told'
    BY <2>2 DEF Told
  <2>7. [Registers!Next]_(Registers!vars)
    BY <1>2, <2>2 DEF Registers!Next, Registers!GiveUp, Registers!vars
  <2>8. Knows => Knows'
    BY <1>1, <1>2, <1>4, <2>2, Forgotten DEF Knows
  <2>. QED  BY <2>3, <2>4, <2>5, <2>6, <2>7, <2>8 DEF IInv
<1>5. CASE /\ ~Repeated /\ master.stage = "waiting" /\ Fits(c, e) /\ Learn(c, e)
           /\ IF c.cmd = "TRANSPORT_LAYER_CMD" /\ "FLUSH_AFTER_ID" \in Habits
              THEN Flush(m) ELSE master' = m /\ UNCHANGED toSlave
  <2>1. e \in Awaited /\ (e \in Ending => Alone(1))
    BY <1>1, <1>2, <1>5, Heard
  <2>2. e = outcome /\ outcome # None
    BY <1>5, <2>1 DEF Awaited, Fits, Res
  <2>3. c # None /\ c \in Requests /\ toSlave = <<>>
    BY <1>1, <1>5, <2>2, MasterFields DEF Calling
  <2>4. Answering(e)
    BY <1>1, <2>2, <2>3 DEF Told
  <2>5. /\ belief' = [k \in Kinds \cup {"COUNT"} |-> [s \in Segments |-> belief'[k][s]]]
        /\ \A k \in Kinds, s \in Segments : belief'[k][s] \in {belief[k][s], page[k][s], Unknown}
        /\ Knows /\ "DOUBT_PARTIAL" \in Habits =>
             \A s \in Segments : /\ belief'["COUNT"][s] \in {Unknown, MaxPages[s]}
                                 /\ \A k \in Kinds : belief'[k][s] \in {Unknown, page[k][s]}
    BY <1>1, <1>2, <1>5, <2>2, <2>3, <2>4, Learned
  <2>6. m \in MasterType /\ m.stage = "idle" /\ m.call = None /\ m.result = e /\ m.online = online
    BY <1>1, <1>2 DEF MasterType, Typed
  <2>7. CASE c.cmd = "TRANSPORT_LAYER_CMD"
    <3>1. /\ toSlave' = Append(toSlave, Flushing) /\ master' = [m EXCEPT !.stage = "flushing"]
      BY <1>5, <2>7 DEF Careful, Flush
    <3>. HIDE DEF m
    <3>2. /\ master'.stage = "flushing" /\ master'.call = None /\ master'.result = e
          /\ master'.online = online /\ master' \in MasterType
      BY <2>6, <3>1 DEF MasterType
    <3>3. e.kind \in {"ERR", "ID"}
      BY <1>5, <2>7 DEF Fits
    <3>4. toSlave' = <<Flushing>> /\ Flushing' = Flushing
      <4>1. Append(<<>>, Flushing) = <<Flushing>>
        OBVIOUS
      <4>2. online = master.online
        BY <1>1, <3>3, MasterFields
      <4>. QED  BY <2>3, <3>1, <3>2, <4>1, <4>2 DEF Flushing
    <3>5. Typed' /\ Calling'
      BY <1>1, <1>2, <2>5, <3>2, <3>4 DEF Typed, Calling
    <3>6. Arriving'
      BY <1>1, <1>2, <1>5, <2>2, <2>7, <3>2, RestFlushed
    <3>7. Told' /\ Registers!Next
      BY <1>2, <2>2, <2>3, <3>2 DEF Told, Registers!Next, Registers!Return
    <3>8. "DOUBT_PARTIAL" \in Habits /\ Knows => Knows'
      BY <1>2, <2>5 DEF Knows
    <3>. QED  BY <3>5, <3>6, <3>7, <3>8 DEF IInv
  <2>8. CASE c.cmd # "TRANSPORT_LAYER_CMD"
    <3>1. master' = m /\ UNCHANGED toSlave
      BY <1>5, <2>8
    <3>. HIDE DEF m
    <3>2. /\ master'.stage = "idle" /\ master'.call = None /\ master'.result = e
          /\ master' \in MasterType
      BY <2>6, <3>1
    <3>3. Alone(1)
      BY <1>2, <1>5, <2>1, <2>8 DEF Ending
    <3>4. Typed' /\ Calling'
      BY <1>1, <1>2, <2>3, <2>5, <3>1, <3>2 DEF Typed, Calling
    <3>5. Arriving'
      BY <1>1, <1>2, <3>3, LastHeard DEF Arriving
    <3>6. Told' /\ Registers!Next
      BY <1>2, <2>2, <2>3, <3>2 DEF Told, Registers!Next, Registers!Return
    <3>7. "DOUBT_PARTIAL" \in Habits /\ Knows => Knows'
      BY <1>2, <2>5 DEF Knows
    <3>. QED  BY <3>4, <3>5, <3>6, <3>7 DEF IInv
  <2>. QED  BY <2>7, <2>8
<1>6. CASE ~Repeated /\ master.stage = "waiting" /\ ~Fits(c, e) /\ Flush(master) /\ UNCHANGED belief
  <2>1. e \in Awaited
    BY <1>1, <1>2, <1>6, Heard
  <2>2. c # None /\ outcome # None /\ toSlave = <<>> /\ Fits(c, outcome)
    BY <1>1, <1>6, <2>1 DEF Awaited, Calling, Told, Answering
  <2>3. c.cmd = "TRANSPORT_LAYER_CMD"
    BY <1>6, <2>1, <2>2 DEF Awaited
  <2>4. toSlave' = <<Flushing>> /\ master' = [master EXCEPT !.stage = "flushing"]
    <3>1. Append(<<>>, Flushing) = <<Flushing>>
      OBVIOUS
    <3>. QED  BY <1>6, <2>2, <3>1 DEF Flush
  <2>5. /\ master'.stage = "flushing" /\ master'.call = c /\ master'.result = master.result
        /\ master'.online = master.online /\ master' \in MasterType
    BY <1>1, <2>4 DEF Typed, MasterType
  <2>6. Typed' /\ Calling'
    BY <1>1, <1>2, <1>6, <2>4, <2>5 DEF Typed, Calling, Flushing
  <2>7. Arriving'
    BY <1>1, <1>2, <1>6, <2>2, <2>3, <2>5, RestFlushed
  <2>8. Told' /\ UNCHANGED Registers!vars /\ (Knows => Knows')
    BY <1>1, <1>2, <1>6, <2>5 DEF Told, Answering, Changing, Registers!vars, Knows
  <2>. QED  BY <2>6, <2>7, <2>8 DEF IInv
<1>7. \/ UNCHANGED <<master, belief, toSlave>>
      \/ /\ ~Repeated /\ master.stage = "flushing" /\ e.kind \in {"ERR_SYNCH", "CONNECTED"}
         /\ master' = [master EXCEPT !.stage = "idle", !.call = None, !.online = online,
                                     !.result = IF c = None THEN @ ELSE None]
         /\ Forget(c) /\ UNCHANGED toSlave
      \/ /\ ~Repeated /\ master.stage = "waiting" /\ Fits(c, e) /\ Learn(c, e)
         /\ IF c.cmd = "TRANSPORT_LAYER_CMD" /\ "FLUSH_AFTER_ID" \in Habits
            THEN Flush(m) ELSE master' = m /\ UNCHANGED toSlave
      \/ ~Repeated /\ master.stage = "waiting" /\ ~Fits(c, e) /\ Flush(master) /\ UNCHANGED belief
  BY <1>2 DEF Hear
<1>. QED  BY <1>3, <1>4, <1>5, <1>6, <1>7

-----------------------------------------------------------------------------
(* The theorems                                                            *)

LEMMA Initially ==
  ASSUME Init PROVE IInv /\ Knows /\ Registers!Init
<1>1. 0 \in 0..CtrMod - 1 /\ 0 \in 0..MaxFaults /\ \A s \in Segments : 0 \in 0..MaxPages[s] - 1
  BY DialogueAssumption, PagesType
<1>2. Typed
  <2>1. <<>> \in Seq(Answers) /\ <<>> \in Seq([ctr : 0..CtrMod - 1, body : Answers])
    OBVIOUS
  <2>2. master \in MasterType
    BY DEF Init, MasterType
  <2>3. page = [k \in Kinds |-> [s \in Segments |-> page[k][s]]]
    BY DEF Init
  <2>4. belief = [k \in Kinds \cup {"COUNT"} |-> [s \in Segments |-> belief[k][s]]]
    BY DEF Init
  <2>5. \A k \in Kinds, s \in Segments : page[k][s] = 0 /\ belief[k][s] = Unknown
    BY DEF Init
  <2>. QED  BY <1>1, <2>1, <2>2, <2>3, <2>4, <2>5 DEF Init, Typed
<1>3. Calling /\ Arriving /\ Told
  BY DEF Init, Calling, Arriving, Told
<1>4. Knows /\ Registers!Init
  BY DEF Init, Knows, Registers!Init
<1>. QED  BY <1>2, <1>3, <1>4 DEF IInv

LEMMA NextStep ==
  ASSUME Careful, IInv, [Next]_vars
  PROVE  /\ IInv' /\ [Registers!Next]_(Registers!vars)
         /\ "DOUBT_PARTIAL" \in Habits /\ Knows => Knows'
<1>1. CASE Slave
  BY <1>1, ConnectStep, SynchStep, SetCalPageStep, GetCalPageStep, GetSegmentInfoStep, GetInfoStep,
     UserStep, TransportLayerStep, TransmitStep DEF Slave
<1>2. CASE Lose
  BY <1>2, LoseStep
<1>3. CASE Repeat
  BY <1>3, RepeatStep
<1>4. CASE Ask
  BY <1>4, AskStep
<1>5. CASE Hear
  BY <1>5, HearStep
<1>6. CASE Timeout
  BY <1>6, TimeoutStep
<1>7. CASE UNCHANGED vars
  <2>1. UNCHANGED <<transport, connected, page, queue, ctrTx, toSlave, air, master, belief, heard,
                    outcome, lost, faults>>
    BY <1>7 DEF vars, slave, link, mind, history
  <2>2. IInv'
    <3>1. Typed' = Typed /\ Calling' = Calling /\ Told' = Told
      BY <2>1 DEF Typed, Calling, Flushing, Told, Answering, Changing
    <3>2. Awaited' = Awaited /\ Ending' = Ending /\ (\A i : Old(i)' = Old(i) /\ Alone(i)' = Alone(i))
      BY <2>1 DEF Awaited, Ending, Old, Alone
    <3>3. Arriving' = Arriving
      BY <2>1, <3>2 DEF Arriving
    <3>. QED  BY <3>1, <3>3 DEF IInv
  <2>3. UNCHANGED Registers!vars /\ (Knows => Knows')
    BY <2>1 DEF Registers!vars, Knows, Changing
  <2>. QED  BY <2>2, <2>3
<1>. QED  BY <1>1, <1>2, <1>3, <1>4, <1>5, <1>6, <1>7 DEF Next

LEMMA AlwaysInvariant ==
  ASSUME Careful PROVE Spec => []IInv
<1>1. Init => IInv
  BY Initially
<1>2. IInv /\ [Next]_vars => IInv'
  BY NextStep
<1>. QED  BY <1>1, <1>2, PTL DEF Spec

\* The pages, the numbers and the state of the dialogue are what they are
\* said to be (XcpPageEcu and XcpPageXcp, Xcp_EthCtrTx): no page is set that a
\* segment does not have, and none believed.
THEOREM TypeCorrect ==
  ASSUME Careful PROVE Spec => []TypeOK
<1>1. IInv => TypeOK
  BY MasterFields DEF IInv, Typed, TypeOK
<1>. QED  BY <1>1, AlwaysInvariant, PTL

\* What the master takes for the page of a segment is its page, however many
\* commands, answers and frames are lost, refused or come twice, if it also
\* doubts after an error for all segments (Xcp_CmdSetCalPage).
THEOREM PagesAreKnown ==
  ASSUME Careful, "DOUBT_PARTIAL" \in Habits PROVE Spec => []PagesKnown
<1>1. Init => Knows
  BY Initially
<1>2. IInv /\ Knows /\ [Next]_vars => Knows'
  BY NextStep
<1>3. Knows => PagesKnown
  BY DEF Knows, PagesKnown
<1>. QED  BY <1>1, <1>2, <1>3, AlwaysInvariant, PTL DEF Spec

\* Each command takes effect at most once while the master waits for it, and
\* the result the master gets is that of this effect: the dialogue implements
\* PageRegisters.
THEOREM ImplementsRegisters ==
  ASSUME Careful PROVE Spec => IsRegisters
<1>1. Init => Registers!Init
  BY Initially
<1>2. IInv /\ [Next]_vars => [Registers!Next]_(Registers!vars)
  BY NextStep
<1>. QED  BY <1>1, <1>2, AlwaysInvariant, PTL DEF Spec, IsRegisters, Registers!Spec

-----------------------------------------------------------------------------
(* The numbers of the frames                                               *)

\* The counter shows r when x frames have been numbered.
Shows(x, r) == x \in Nat /\ r \in 0..CtrMod - 1 /\ \E q \in Nat : x = q * CtrMod + r

\* Frames 1 to l have the numbers a[i] if nothing wraps, after a[0], and the
\* last number given is n; up to frame i there are d[i] different ones.  Each
\* of f faults leaves out a number at most; and k frames, all different, were
\* lost before these.
Climbs(a, d, l, n, f, k) ==
  /\ l \in Nat /\ n \in Nat /\ f \in Nat /\ k \in Nat /\ d[0] = 0
  /\ \A i \in 0..l : /\ a[i] \in Nat /\ d[i] \in Nat
                     /\ a[i] <= n /\ a[i] <= a[0] + d[i] + f
                     /\ i > 0 => d[i] <= d[i - 1] + 1
                     /\ i > 0 /\ k > 0 => a[i] > a[0] + k
  /\ \A i, j \in 0..l : i < j => (a[i] = a[j] /\ d[i] = d[j]) \/ (a[i] < a[j] /\ d[i] < d[j])
  /\ a[0] + k <= n /\ n <= a[0] + d[l] + f

\* So it is with the frames in the air, after the one heard last.
Numbering(a, d, n) ==
  /\ Shows(a[0], heard) /\ Shows(n, ctrTx)
  /\ \A i \in 1..Len(air) : Shows(a[i], air[i].ctr)
  /\ Climbs(a, d, Len(air), n, faults, lost)

NInv ==
  /\ IsSequence(air) /\ lost \in Nat /\ faults \in 0..MaxFaults
  /\ transport = "ETHERNET" => \E a, d, n : Numbering(a, d, n)

LEMMA NextShown ==
  ASSUME NEW x, NEW r, Shows(x, r) PROVE Shows(x + 1, Count(r))
<1>1. PICK q \in Nat : x = q * CtrMod + r
  BY DEF Shows
<1>2. CtrMod \in Nat \ {0} /\ r \in 0..CtrMod - 1 /\ x \in Nat
  BY DialogueAssumption DEF Shows
<1>3. CASE r + 1 < CtrMod
  <2>1. (r + 1) % CtrMod = r + 1
    BY <1>2, <1>3
  <2>2. x + 1 = q * CtrMod + (r + 1)
    BY <1>1, <1>2
  <2>. QED  BY <1>2, <1>3, <2>1, <2>2 DEF Shows, Count
<1>4. CASE r + 1 = CtrMod
  <2>1. CtrMod % CtrMod = 0
    BY <1>2
  <2>2. x + 1 = (q + 1) * CtrMod + 0 /\ q + 1 \in Nat
    BY <1>1, <1>2, <1>4
  <2>3. Count(r) = 0
    BY <1>4, <2>1 DEF Count
  <2>4. x + 1 \in Nat /\ 0 \in 0..CtrMod - 1
    BY <1>2
  <2>. QED  BY <2>2, <2>3, <2>4 DEF Shows
<1>. QED  BY <1>2, <1>3, <1>4

\* Two numbers that show the same are a whole round apart.
LEMMA SameShown ==
  ASSUME NEW x, NEW y, NEW r, Shows(x, r), Shows(y, r), x < y
  PROVE  y >= x + CtrMod
<1>1. PICK p \in Nat : x = p * CtrMod + r
  BY DEF Shows
<1>2. PICK q \in Nat : y = q * CtrMod + r
  BY DEF Shows
<1>3. CtrMod \in Nat \ {0} /\ r \in Nat /\ x \in Nat /\ y \in Nat
  BY DialogueAssumption DEF Shows
<1>4. p * CtrMod \in Nat /\ q * CtrMod \in Nat
  BY <1>3
<1>5. q >= p + 1
  <2>. SUFFICES ASSUME q <= p PROVE FALSE
    OBVIOUS
  <2>1. (p - q) * CtrMod >= 0
    BY <1>3
  <2>. QED  BY <1>1, <1>2, <1>3, <2>1
<1>6. (q - (p + 1)) * CtrMod >= 0
  BY <1>3, <1>5
<1>. QED  BY <1>1, <1>2, <1>3, <1>6

\* A number shows one way only.
LEMMA ShownOnce ==
  ASSUME NEW x, NEW r, NEW s, Shows(x, r), Shows(x, s)
  PROVE  r = s
<1>1. PICK p \in Nat : x = p * CtrMod + r
  BY DEF Shows
<1>2. PICK q \in Nat : x = q * CtrMod + s
  BY DEF Shows
<1>3. CtrMod \in Nat \ {0} /\ r \in 0..CtrMod - 1 /\ s \in 0..CtrMod - 1
  BY DialogueAssumption DEF Shows
<1>4. (p - q) * CtrMod = s - r
  BY <1>1, <1>2, <1>3
<1>5. p - q < 1 /\ q - p < 1
  <2>1. p - q >= 1 => (p - q) * CtrMod >= CtrMod
    BY <1>3
  <2>2. q - p >= 1 => (q - p) * CtrMod >= CtrMod
    BY <1>3
  <2>3. (q - p) * CtrMod = r - s
    BY <1>1, <1>2, <1>3
  <2>. QED  BY <1>3, <1>4, <2>1, <2>2, <2>3
<1>. QED  BY <1>1, <1>2, <1>3, <1>5

\* A fault more leaves room for a number that is left out.
LEMMA ClimbsFault ==
  ASSUME NEW a, NEW d, NEW l, NEW n, NEW f, NEW k, Climbs(a, d, l, n, f, k),
         NEW g \in Nat, NEW m \in Nat, f <= g, n <= m, m + f <= n + g
  PROVE  Climbs(a, d, l, m, g, k)
<1>1. l \in Nat /\ n \in Nat /\ f \in Nat /\ k \in Nat /\ 0 \in 0..l /\ l \in 0..l
  BY DEF Climbs
<1>2. a[0] \in Nat /\ d[l] \in Nat /\ a[0] + k <= n /\ n <= a[0] + d[l] + f
  BY <1>1 DEF Climbs
<1>3. a[0] + k <= m /\ m <= a[0] + d[l] + g
  BY <1>1, <1>2
<1>4. ASSUME NEW i \in 0..l PROVE a[i] <= m /\ a[i] <= a[0] + d[i] + g
  <2>1. a[i] \in Nat /\ d[i] \in Nat /\ a[i] <= n /\ a[i] <= a[0] + d[i] + f
    BY DEF Climbs
  <2>. QED  BY <1>1, <1>2, <2>1
<1>. QED  BY <1>1, <1>3, <1>4 DEF Climbs

\* The next frame.
LEMMA ClimbsOn ==
  ASSUME NEW a, NEW d, NEW l, NEW n, NEW f, NEW k, Climbs(a, d, l, n, f, k),
         NEW b, NEW e, \A i \in 0..l : b[i] = a[i] /\ e[i] = d[i],
         b[l + 1] = n + 1, e[l + 1] = d[l] + 1
  PROVE  Climbs(b, e, l + 1, n + 1, f, k)
<1>1. l \in Nat /\ n \in Nat /\ f \in Nat /\ k \in Nat /\ 0 \in 0..l /\ l \in 0..l
  BY DEF Climbs
<1>2. /\ a[0] \in Nat /\ d[l] \in Nat /\ a[0] + k <= n /\ n <= a[0] + d[l] + f /\ d[0] = 0
      /\ b[0] = a[0] /\ e[0] = 0 /\ e[l] = d[l] /\ l + 1 \in Nat /\ n + 1 \in Nat
  BY <1>1 DEF Climbs
<1>3. b[0] + k <= n + 1 /\ n + 1 <= b[0] + e[l + 1] + f
  BY <1>1, <1>2
<1>4. ASSUME NEW i \in 0..l + 1
      PROVE  /\ b[i] \in Nat /\ e[i] \in Nat /\ b[i] <= n + 1 /\ b[i] <= b[0] + e[i] + f
             /\ i > 0 => e[i] <= e[i - 1] + 1
             /\ i > 0 /\ k > 0 => b[i] > b[0] + k
  <2>1. CASE i = l + 1
    <3>1. i - 1 = l
      BY <1>1, <2>1
    <3>. QED  BY <1>1, <1>2, <1>3, <2>1, <3>1
  <2>2. CASE i \in 0..l
    <3>1. /\ a[i] \in Nat /\ d[i] \in Nat /\ a[i] <= n /\ a[i] <= a[0] + d[i] + f
          /\ i > 0 => d[i] <= d[i - 1] + 1
          /\ i > 0 /\ k > 0 => a[i] > a[0] + k
      BY <2>2 DEF Climbs
    <3>2. b[i] = a[i] /\ e[i] = d[i] /\ (i > 0 => e[i - 1] = d[i - 1])
      <4>1. i > 0 => i - 1 \in 0..l
        BY <1>1, <2>2
      <4>. QED  BY <2>2, <4>1
    <3>. QED  BY <1>1, <1>2, <3>1, <3>2
  <2>. QED  BY <1>1, <2>1, <2>2
<1>5. ASSUME NEW i \in 0..l + 1, NEW j \in 0..l + 1, i < j
      PROVE  (b[i] = b[j] /\ e[i] = e[j]) \/ (b[i] < b[j] /\ e[i] < e[j])
  <2>1. i \in 0..l /\ a[i] \in Nat /\ d[i] \in Nat /\ a[i] <= n /\ b[i] = a[i] /\ e[i] = d[i]
    <3>1. i \in 0..l
      BY <1>1, <1>5
    <3>. QED  BY <3>1 DEF Climbs
  <2>2. CASE j = l + 1
    <3>1. d[i] <= d[l]
      <4>1. CASE i = l
        BY <1>2, <4>1
      <4>2. CASE i < l
        BY <1>1, <1>2, <2>1, <4>2 DEF Climbs
      <4>. QED  BY <1>1, <2>1, <4>1, <4>2
    <3>. QED  BY <1>1, <1>2, <2>1, <2>2, <3>1
  <2>3. CASE j \in 0..l
    BY <1>5, <2>1, <2>3 DEF Climbs
  <2>. QED  BY <1>1, <2>2, <2>3
<1>. QED  BY <1>1, <1>2, <1>3, <1>4, <1>5 DEF Climbs

\* The first frame is heard, and counted from.
LEMMA ClimbsHeard ==
  ASSUME NEW a, NEW d, NEW l, NEW n, NEW f, NEW k, Climbs(a, d, l, n, f, k), l # 0
  PROVE  \E b, e : Climbs(b, e, l - 1, n, f, 0) /\ \A i \in 0..l - 1 : b[i] = a[i + 1]
<1> SUFFICES ASSUME NEW b, NEW e, \A i \in 0..l - 1 : b[i] = a[i + 1] /\ e[i] = d[i + 1] - d[1]
             PROVE  Climbs(b, e, l - 1, n, f, 0)
  <2>1. \E b, e : \A i \in 0..l - 1 : b[i] = a[i + 1] /\ e[i] = d[i + 1] - d[1]
    <3>1. PICK b, e : /\ b = [i \in 0..l - 1 |-> a[i + 1]]
                      /\ e = [i \in 0..l - 1 |-> d[i + 1] - d[1]]
      OBVIOUS
    <3>2. \A i \in 0..l - 1 : b[i] = a[i + 1]
      BY <3>1
    <3>3. \A i \in 0..l - 1 : e[i] = d[i + 1] - d[1]
      BY <3>1
    <3>. QED  BY <3>2, <3>3
  <2>. QED  BY <2>1, Zenon
<1>1. /\ l \in Nat /\ n \in Nat /\ f \in Nat /\ k \in Nat /\ l - 1 \in Nat
      /\ 0 \in 0..l /\ 1 \in 0..l /\ l \in 0..l /\ 0 \in 0..l - 1 /\ l - 1 \in 0..l - 1
  BY DEF Climbs
<1>2. /\ a[0] \in Nat /\ a[1] \in Nat /\ d[0] = 0 /\ d[1] \in {0, 1} /\ d[l] \in Nat
      /\ a[0] <= a[1] - d[1] /\ a[1] <= n /\ n <= a[0] + d[l] + f
  <2>1. d[1] \in Nat /\ d[1] <= d[1 - 1] + 1 /\ 1 - 1 = 0
    BY <1>1 DEF Climbs
  <2>2. (a[0] = a[1] /\ d[0] = d[1]) \/ (a[0] < a[1] /\ d[0] < d[1])
    BY <1>1 DEF Climbs
  <2>. QED  BY <1>1, <2>1, <2>2 DEF Climbs
<1>3. b[0] = a[1] /\ e[0] = 0 /\ e[l - 1] = d[l] - d[1]
  <2>1. 0 + 1 = 1 /\ (l - 1) + 1 = l /\ d[1] - d[1] = 0
    BY <1>1, <1>2
  <2>2. e[0] = d[0 + 1] - d[1] /\ b[0] = a[0 + 1] /\ e[l - 1] = d[(l - 1) + 1] - d[1]
    BY <1>1
  <2>. QED  BY <2>1, <2>2
<1>4. b[0] + 0 <= n /\ n <= b[0] + e[l - 1] + f
  BY <1>1, <1>2, <1>3
<1>5. ASSUME NEW i \in 0..l - 1
      PROVE  /\ b[i] \in Nat /\ e[i] \in Nat /\ b[i] <= n /\ b[i] <= b[0] + e[i] + f
             /\ i > 0 => e[i] <= e[i - 1] + 1
  <2>1. i + 1 \in 0..l /\ i + 1 > 0 /\ (i + 1) - 1 = i /\ (i # 0 => 1 < i + 1)
    BY <1>1
  <2>2. /\ a[i + 1] \in Nat /\ d[i + 1] \in Nat /\ a[i + 1] <= n /\ a[i + 1] <= a[0] + d[i + 1] + f
        /\ d[i + 1] <= d[(i + 1) - 1] + 1
    BY <2>1 DEF Climbs
  <2>3. d[1] <= d[i + 1]
    <3>1. CASE i = 0
      BY <1>2, <3>1
    <3>2. CASE i # 0
      BY <1>1, <1>2, <2>1, <2>2, <3>2 DEF Climbs
    <3>. QED  BY <3>1, <3>2
  <2>4. i > 0 => i - 1 \in 0..l - 1 /\ (i - 1) + 1 = i /\ d[i] \in Nat
    BY <1>1, <2>1 DEF Climbs
  <2>5. i > 0 => e[i - 1] = d[i] - d[1]
    BY <2>4
  <2>6. b[i] = a[i + 1] /\ e[i] = d[i + 1] - d[1]
    OBVIOUS
  <2>. QED  BY <1>1, <1>2, <1>3, <2>1, <2>2, <2>3, <2>4, <2>5, <2>6
<1>6. ASSUME NEW i \in 0..l - 1, NEW j \in 0..l - 1, i < j
      PROVE  (b[i] = b[j] /\ e[i] = e[j]) \/ (b[i] < b[j] /\ e[i] < e[j])
  <2>1. i + 1 \in 0..l /\ j + 1 \in 0..l /\ i + 1 < j + 1
    BY <1>1, <1>6
  <2>2. /\ d[i + 1] \in Nat /\ d[j + 1] \in Nat
        /\ (a[i + 1] = a[j + 1] /\ d[i + 1] = d[j + 1]) \/ (a[i + 1] < a[j + 1] /\ d[i + 1] < d[j + 1])
    BY <2>1 DEF Climbs
  <2>. QED  BY <1>2, <2>2
<1>. QED  BY <1>1, <1>3, <1>4, <1>5, <1>6 DEF Climbs

\* The first frame is lost.  If it is no copy, one more is.
LEMMA ClimbsLost ==
  ASSUME NEW a, NEW d, NEW l, NEW n, NEW f, NEW k, Climbs(a, d, l, n, f, k), l # 0,
         NEW m \in {k, k + 1}, a[1] = a[0] \/ (l > 1 /\ a[2] = a[1]) => m = k
  PROVE  \E b, e : Climbs(b, e, l - 1, n, f + 1, m) /\ b[0] = a[0] /\ \A i \in 1..l - 1 : b[i] = a[i + 1]
<1>. PICK skip \in {0, 1} : skip = 0 <=> (a[1] = a[0] \/ (l > 1 /\ a[2] = a[1]))
  OBVIOUS
<1>. m \in Nat /\ k <= m /\ m <= k + skip
  BY DEF Climbs
<1> SUFFICES ASSUME NEW b, NEW e, b[0] = a[0], e[0] = 0,
                    \A i \in 1..l - 1 : b[i] = a[i + 1] /\ e[i] = d[i + 1] - skip
             PROVE  Climbs(b, e, l - 1, n, f + 1, m)
  <2>1. \E b, e : /\ b[0] = a[0] /\ e[0] = 0
                  /\ \A i \in 1..l - 1 : b[i] = a[i + 1] /\ e[i] = d[i + 1] - skip
    <3>1. l \in Nat
      BY DEF Climbs
    <3>2. PICK b, e : /\ b = [i \in 0..l |-> IF i = 0 THEN a[0] ELSE a[i + 1]]
                      /\ e = [i \in 0..l |-> IF i = 0 THEN 0 ELSE d[i + 1] - skip]
      OBVIOUS
    <3>3. b[0] = a[0] /\ e[0] = 0
      BY <3>1, <3>2
    <3>4. \A i \in 1..l - 1 : b[i] = a[i + 1] /\ e[i] = d[i + 1] - skip
      BY <3>1, <3>2
    <3>. QED  BY <3>3, <3>4
  <2>. QED  BY <2>1, Zenon
<1>1. /\ l \in Nat /\ n \in Nat /\ f \in Nat /\ k \in Nat /\ l - 1 \in Nat /\ f + 1 \in Nat
      /\ 0 \in 0..l /\ 1 \in 0..l /\ l \in 0..l
  BY DEF Climbs
<1>2. /\ a[0] \in Nat /\ a[1] \in Nat /\ d[0] = 0 /\ d[1] \in {0, 1} /\ d[l] \in Nat
      /\ a[1] <= n /\ a[0] + k <= n /\ n <= a[0] + d[l] + f
      /\ (a[0] = a[1] /\ d[1] = 0) \/ (a[0] < a[1] /\ d[1] = 1)
      /\ k > 0 => a[1] > a[0] + k
  <2>1. d[1] \in Nat /\ d[1] <= d[1 - 1] + 1 /\ 1 - 1 = 0 /\ d[0] = 0
    BY <1>1 DEF Climbs
  <2>2. (a[0] = a[1] /\ d[0] = d[1]) \/ (a[0] < a[1] /\ d[0] < d[1])
    BY <1>1 DEF Climbs
  <2>. QED  BY <1>1, <2>1, <2>2 DEF Climbs
<1>3. ASSUME NEW i \in 1..l - 1
      PROVE  /\ i + 1 \in 0..l /\ b[i] = a[i + 1] /\ e[i] = d[i + 1] - skip
             /\ a[i + 1] \in Nat /\ d[i + 1] \in Nat /\ e[i] \in Nat
             /\ a[i + 1] <= n /\ a[i + 1] <= a[0] + d[i + 1] + f
             /\ a[1] <= a[i + 1]
             /\ skip = 1 => a[1] < a[i + 1] /\ d[i + 1] >= 2
             /\ d[i + 1] > 0 => a[i + 1] > a[0]
             /\ d[i + 1] = 0 => a[i + 1] = a[0]
             /\ k > 0 => a[i + 1] > a[0] + k
  <2>1. i + 1 \in 0..l /\ i + 1 > 0 /\ 1 < i + 1 /\ 0 < i + 1 /\ 2 \in 0..l /\ l > 1 /\ (i = 1 \/ 2 < i + 1)
    BY <1>1
  <2>2. /\ a[i + 1] \in Nat /\ d[i + 1] \in Nat /\ a[i + 1] <= n /\ a[i + 1] <= a[0] + d[i + 1] + f
        /\ k > 0 => a[i + 1] > a[0] + k
    BY <2>1 DEF Climbs
  <2>3. /\ (a[1] = a[i + 1] /\ d[1] = d[i + 1]) \/ (a[1] < a[i + 1] /\ d[1] < d[i + 1])
        /\ (a[0] = a[i + 1] /\ d[0] = d[i + 1]) \/ (a[0] < a[i + 1] /\ d[0] < d[i + 1])
        /\ a[2] \in Nat /\ d[2] \in Nat
        /\ (a[1] = a[2] /\ d[1] = d[2]) \/ (a[1] < a[2] /\ d[1] < d[2])
        /\ (a[2] = a[i + 1] /\ d[2] = d[i + 1]) \/ (a[2] < a[i + 1] /\ d[2] < d[i + 1])
    <3>1. CASE i = 1
      <4>1. i + 1 = 2
        BY <3>1
      <4>. QED  BY <1>1, <2>1, <4>1 DEF Climbs
    <3>2. CASE 2 < i + 1
      BY <1>1, <2>1, <3>2 DEF Climbs
    <3>. QED  BY <2>1, <3>1, <3>2
  <2>4. skip = 1 => a[1] < a[2] /\ d[1] = 1
    BY <1>2, <2>1, <2>3
  <2>. QED  BY <1>2, <2>1, <2>2, <2>3, <2>4
<1>4. a[0] + m <= n /\ n <= a[0] + e[l - 1] + (f + 1)
  <2>1. a[0] + m <= n
    BY <1>1, <1>2
  <2>2. CASE l = 1
    <3>1. l - 1 = 0 /\ d[l] = d[1]
      BY <2>2
    <3>. QED  BY <1>1, <1>2, <2>1, <3>1
  <2>3. CASE l # 1
    <3>1. l - 1 \in 1..l - 1 /\ (l - 1) + 1 = l
      BY <1>1, <2>3
    <3>2. e[l - 1] = d[l] - skip
      BY <1>3, <3>1
    <3>. QED  BY <1>1, <1>2, <2>1, <3>2
  <2>. QED  BY <2>2, <2>3
<1>5. ASSUME NEW i \in 0..l - 1
      PROVE  /\ b[i] \in Nat /\ e[i] \in Nat /\ b[i] <= n /\ b[i] <= b[0] + e[i] + (f + 1)
             /\ i > 0 => e[i] <= e[i - 1] + 1
             /\ i > 0 /\ m > 0 => b[i] > b[0] + m
  <2>1. CASE i = 0
    BY <1>1, <1>2, <2>1
  <2>2. CASE i \in 1..l - 1
    <3>1. b[i] \in Nat /\ e[i] \in Nat /\ b[i] <= n /\ b[i] <= b[0] + e[i] + (f + 1)
      BY <1>1, <1>2, <1>3, <2>2
    <3>2. m > 0 => b[i] > b[0] + m
      BY <1>1, <1>2, <1>3, <2>2
    <3>3. d[i + 1] <= d[(i + 1) - 1] + 1 /\ (i + 1) - 1 = i
      BY <1>1, <1>3, <2>2 DEF Climbs
    <3>4. CASE i = 1
      <4>1. d[2] <= d[1] + 1 /\ i - 1 = 0 /\ i + 1 = 2 /\ e[1] = d[2] - skip /\ d[2] \in Nat
        BY <1>3, <2>2, <3>3, <3>4
      <4>2. skip = 0 => a[1] = a[0] \/ a[2] = a[1]
        OBVIOUS
      <4>3. (a[1] = a[2] /\ d[1] = d[2]) \/ (a[1] < a[2] /\ d[1] < d[2])
        <5>1. 2 \in 0..l /\ 1 \in 0..l /\ 1 < 2
          BY <1>1, <2>2
        <5>. QED  BY <5>1 DEF Climbs
      <4>4. a[2] \in Nat
        BY <1>3, <2>2, <4>1
      <4>5. e[1] <= 1
        BY <1>2, <4>1, <4>2, <4>3, <4>4
      <4>. QED  BY <3>1, <3>2, <3>4, <4>1, <4>5
    <3>5. CASE i # 1
      <4>1. i - 1 \in 1..l - 1 /\ (i - 1) + 1 = i
        BY <1>1, <2>2, <3>5
      <4>2. e[i - 1] = d[i] - skip /\ d[i] \in Nat /\ d[i + 1] \in Nat /\ e[i] = d[i + 1] - skip
        BY <1>3, <2>2, <4>1
      <4>3. e[i] <= e[i - 1] + 1
        BY <3>3, <4>2
      <4>. QED  BY <3>1, <3>2, <4>3
    <3>. QED  BY <3>4, <3>5
  <2>. QED  BY <1>1, <2>1, <2>2
<1>6. ASSUME NEW i \in 0..l - 1, NEW j \in 0..l - 1, i < j
      PROVE  (b[i] = b[j] /\ e[i] = e[j]) \/ (b[i] < b[j] /\ e[i] < e[j])
  <2>1. j \in 1..l - 1
    BY <1>1, <1>6
  <2>2. CASE i = 0
    BY <1>1, <1>2, <1>3, <2>1, <2>2
  <2>3. CASE i # 0
    <3>1. i \in 1..l - 1 /\ i + 1 \in 0..l /\ j + 1 \in 0..l /\ i + 1 < j + 1
      BY <1>1, <1>6, <2>3
    <3>2. (a[i + 1] = a[j + 1] /\ d[i + 1] = d[j + 1]) \/ (a[i + 1] < a[j + 1] /\ d[i + 1] < d[j + 1])
      BY <3>1 DEF Climbs
    <3>. QED  BY <1>3, <2>1, <3>1, <3>2
  <2>. QED  BY <2>2, <2>3
<1>. QED  BY <1>1, <1>4, <1>5, <1>6 DEF Climbs

\* A step that numbers, hears and loses no frame.
LEMMA NumbersStay ==
  ASSUME NInv, faults' \in faults..MaxFaults, UNCHANGED <<transport, air, heard, ctrTx, lost>>
  PROVE  NInv'
<1>1. faults \in Nat /\ faults' \in Nat /\ faults' >= faults /\ faults' \in 0..MaxFaults
  BY DialogueAssumption DEF NInv
<1>2. ASSUME NEW a, NEW d, NEW n, Numbering(a, d, n)
      PROVE  Numbering(a, d, n)'
  <2>1. Climbs(a, d, Len(air), n, faults, lost)
    BY <1>2 DEF Numbering
  <2>2. n \in Nat
    BY <2>1 DEF Climbs
  <2>3. faults <= faults' /\ n <= n /\ n + faults <= n + faults'
    <3>1. \A f, g, m \in Nat : g >= f => f <= g /\ m <= m /\ m + f <= m + g
      OBVIOUS
    <3>2. faults \in Nat /\ faults' \in Nat /\ faults' >= faults
      BY <1>1
    <3>. QED  BY <2>2, <3>1, <3>2
  <2>4. Climbs(a, d, Len(air), n, faults', lost)
    BY <1>1, <2>1, <2>2, <2>3, ClimbsFault, Zenon
  <2>. QED  BY <1>2, <2>4 DEF Numbering
<1>. QED  BY <1>1, <1>2 DEF NInv

LEMMA AnswerCounted ==
  ASSUME NInv, NEW answers, \E a, b : answers \in {<<a>>, <<a, b>>}, Answer(answers)
  PROVE  faults' \in faults..MaxFaults
<1>1. PICK a, b : answers \in {<<a>>, <<a, b>>}
  OBVIOUS
<1>2. DOMAIN answers \subseteq {1} \cup {2}
  BY <1>1
<1>3. PICK dropped \in SUBSET DOMAIN answers :
        faults + Cardinality(dropped) <= MaxFaults /\ faults' = faults + Cardinality(dropped)
  BY DEF Answer
<1>4. IsFiniteSet({1} \cup {2})
  BY FS_Singleton, FS_AddElement
<1>5. Cardinality(dropped) \in Nat
  BY <1>2, <1>3, <1>4, FS_Subset, FS_CardinalityType
<1>. QED  BY <1>3, <1>5, DialogueAssumption DEF NInv

LEMMA NumbersReply ==
  ASSUME NInv, NEW cmds, Receive(cmds), NEW answers, \E a, b : answers \in {<<a>>, <<a, b>>}, Reply(answers)
  PROVE  NInv'
<1>1. faults' \in faults..MaxFaults
  BY AnswerCounted DEF Reply
<1>. QED  BY <1>1, NumbersStay DEF Receive, mind

LEMMA NumbersCommands ==
  ASSUME NInv, Connect \/ Synch \/ SetCalPage \/ GetCalPage \/ GetSegmentInfo \/ GetInfo \/ User \/ TransportLayer
  PROVE  NInv'
<1>1. PICK cmds, answers : Receive(cmds) /\ Reply(answers) /\ \E a, b : answers \in {<<a>>, <<a, b>>}
  <2>1. CASE Connect
    BY <2>1 DEF Connect
  <2>2. CASE Synch
    BY <2>2 DEF Synch
  <2>3. CASE SetCalPage
    BY <2>3 DEF SetCalPage
  <2>4. CASE GetCalPage
    BY <2>4 DEF GetCalPage
  <2>5. CASE GetSegmentInfo
    BY <2>5 DEF GetSegmentInfo
  <2>6. CASE GetInfo
    BY <2>6 DEF GetInfo
  <2>7. CASE User
    BY <2>7 DEF User
  <2>8. CASE TransportLayer
    BY <2>8 DEF TransportLayer
  <2>. QED  BY <2>1, <2>2, <2>3, <2>4, <2>5, <2>6, <2>7, <2>8
<1>. QED  BY <1>1, NumbersReply

\* A frame has the next number, and one that is refused leaves it out.
LEMMA NumbersTransmit ==
  ASSUME NInv, Transmit PROVE NInv'
<1>1. IsSequence(air) /\ lost \in Nat /\ faults \in 0..MaxFaults /\ faults \in Nat
  BY DialogueAssumption DEF NInv
<1>2. UNCHANGED <<transport, heard, lost>> /\ (transport = "ETHERNET" => ctrTx' = Count(ctrTx))
  BY DEF Transmit, mind, history, Number
<1> DEFINE f == [ctr |-> Number, body |-> Head(queue)]
<1>3. CASE faults' = faults /\ air' = Append(air, f) /\ ctrTx' = Number
  <2>1. f.ctr = ctrTx'
    BY <1>3
  <2>. HIDE DEF f
  <2>2. PICK l \in Nat : l = Len(air)
    BY <1>1, Nonempty
  <2>3. /\ IsSequence(air') /\ Len(air') = l + 1
        /\ \A i \in 1..l : air'[i] = air[i]
        /\ air'[l + 1] = f
    BY <1>1, <1>3, <2>2, Pushed
  <2>4. ASSUME transport = "ETHERNET", NEW a, NEW d, NEW n, Numbering(a, d, n)
        PROVE  \E b, e, m : Numbering(b, e, m)'
    <3>1. PICK b, e : /\ b = [i \in 0..l + 1 |-> IF i = l + 1 THEN n + 1 ELSE a[i]]
                      /\ e = [i \in 0..l + 1 |-> IF i = l + 1 THEN d[l] + 1 ELSE d[i]]
      OBVIOUS
    <3>2. /\ \A i \in 0..l : b[i] = a[i] /\ e[i] = d[i]
          /\ b[l + 1] = n + 1 /\ e[l + 1] = d[l] + 1
      BY <2>2, <3>1
    <3>3. Climbs(b, e, l + 1, n + 1, faults, lost)
      <4>1. Climbs(a, d, l, n, faults, lost)
        BY <2>2, <2>4 DEF Numbering
      <4>. QED  BY <3>2, <4>1, ClimbsOn
    <3>4. Shows(n + 1, ctrTx')
      BY <1>2, <2>4, NextShown DEF Numbering
    <3>5. \A i \in 1..l + 1 : Shows(b[i], air'[i].ctr)
      <4>1. \A i \in 1..l : Shows(b[i], air'[i].ctr)
        BY <2>2, <2>3, <2>4, <3>2 DEF Numbering
      <4>. QED  BY <2>1, <2>2, <2>3, <3>2, <3>4, <4>1
    <3>6. Shows(b[0], heard')
      BY <1>2, <2>2, <2>4, <3>2 DEF Numbering
    <3>7. Numbering(b, e, n + 1)'
      BY <1>2, <1>3, <2>3, <3>3, <3>4, <3>5, <3>6 DEF Numbering
    <3>. QED  BY <3>7
  <2>. QED  BY <1>1, <1>2, <1>3, <2>3, <2>4 DEF NInv
<1>4. CASE Fault("REFUSE") /\ UNCHANGED air
  <2>1. faults' = faults + 1 /\ faults' \in 0..MaxFaults /\ faults' \in Nat
    BY <1>1, <1>4, DialogueAssumption DEF Fault
  <2>2. ASSUME transport = "ETHERNET", NEW a, NEW d, NEW n, Numbering(a, d, n)
        PROVE  Numbering(a, d, n + 1)'
    <3>1. Climbs(a, d, Len(air), n, faults, lost)
      BY <2>2 DEF Numbering
    <3>2. Climbs(a, d, Len(air), n + 1, faults', lost)
      <4>1. n \in Nat
        BY <3>1 DEF Climbs
      <4>2. n + 1 \in Nat /\ n <= n + 1 /\ faults <= faults' /\ (n + 1) + faults <= n + faults'
        BY <1>1, <2>1, <4>1
      <4>. QED  BY <2>1, <3>1, <4>1, <4>2, ClimbsFault, Zenon
    <3>3. Shows(n + 1, ctrTx')
      BY <1>2, <2>2, NextShown DEF Numbering
    <3>. QED  BY <1>2, <1>4, <2>2, <3>2, <3>3 DEF Numbering
  <2>. QED  BY <1>1, <1>2, <1>4, <2>1, <2>2 DEF NInv
<1>. QED  BY <1>3, <1>4 DEF Transmit

\* The first frame comes twice.
LEMMA ClimbsTwice ==
  ASSUME NEW a, NEW d, NEW l, NEW n, NEW f, NEW k, Climbs(a, d, l, n, f, k), l # 0
  PROVE  \E b, e : /\ Climbs(b, e, l + 1, n, f, k) /\ b[0] = a[0] /\ b[1] = a[1]
                   /\ \A i \in 1..l : b[i + 1] = a[i]
<1> SUFFICES ASSUME NEW b, NEW e, b[0] = a[0], e[0] = 0, b[1] = a[1], e[1] = d[1],
                    \A i \in 1..l : b[i + 1] = a[i] /\ e[i + 1] = d[i]
             PROVE  Climbs(b, e, l + 1, n, f, k)
  <2>1. \E b, e : /\ b[0] = a[0] /\ e[0] = 0 /\ b[1] = a[1] /\ e[1] = d[1]
                  /\ \A i \in 1..l : b[i + 1] = a[i] /\ e[i + 1] = d[i]
    <3>1. l \in Nat /\ d[0] = 0
      BY DEF Climbs
    <3>2. PICK b, e : /\ b = [i \in 0..l + 1 |-> IF i <= 1 THEN a[i] ELSE a[i - 1]]
                      /\ e = [i \in 0..l + 1 |-> IF i <= 1 THEN d[i] ELSE d[i - 1]]
      OBVIOUS
    <3>3. ASSUME NEW i \in 1..l PROVE i + 1 \in 0..l + 1 /\ ~(i + 1 <= 1) /\ (i + 1) - 1 = i
      BY <3>1
    <3>4. b[0] = a[0] /\ e[0] = 0 /\ b[1] = a[1] /\ e[1] = d[1]
      BY <3>1, <3>2
    <3>5. \A i \in 1..l : b[i + 1] = a[i] /\ e[i + 1] = d[i]
      BY <3>2, <3>3
    <3>. QED  BY <3>4, <3>5
  <2>. QED  BY <2>1, Zenon
<1>1. /\ l \in Nat /\ n \in Nat /\ f \in Nat /\ k \in Nat /\ l + 1 \in Nat /\ d[0] = 0
      /\ 0 \in 0..l /\ 1 \in 0..l /\ l \in 1..l /\ l \in 0..l
  BY DEF Climbs
<1>2. a[0] + k <= n /\ n <= a[0] + d[l] + f /\ e[l + 1] = d[l] /\ b[0] = a[0]
  BY <1>1 DEF Climbs
<1>3. ASSUME NEW i \in 0..l + 1
      PROVE  \E p \in 0..l : /\ b[i] = a[p] /\ e[i] = d[p]
                             /\ i = 0 <=> p = 0
                             /\ i > 0 => e[i - 1] \in {d[p], d[p - 1]}
                             /\ \A j \in 0..l + 1 : i < j => (b[j] = a[p] /\ e[j] = d[p])
                                  \/ (\E q \in 0..l : p < q /\ b[j] = a[q] /\ e[j] = d[q])
  <2>1. ASSUME NEW j \in 2..l + 1
        PROVE  j - 1 \in 1..l /\ j - 1 \in 0..l /\ b[j] = a[j - 1] /\ e[j] = d[j - 1]
    <3>1. j - 1 \in 1..l /\ (j - 1) + 1 = j
      BY <1>1
    <3>. QED  BY <1>1, <3>1
  <2>2. CASE i = 0
    <3>1. ASSUME NEW j \in 0..l + 1, 0 < j
          PROVE  \E q \in 0..l : 0 < q /\ b[j] = a[q] /\ e[j] = d[q]
      <4>1. CASE j = 1
        BY <1>1, <4>1
      <4>2. CASE j \in 2..l + 1
        <5>1. 0 < j - 1
          BY <4>2
        <5>. QED  BY <2>1, <4>2, <5>1
      <4>. QED  BY <1>1, <3>1, <4>1, <4>2
    <3>. QED  BY <1>1, <2>2, <3>1
  <2>3. CASE i = 1
    <3>1. ASSUME NEW j \in 0..l + 1, 1 < j
          PROVE  \/ b[j] = a[1] /\ e[j] = d[1]
                 \/ \E q \in 0..l : 1 < q /\ b[j] = a[q] /\ e[j] = d[q]
      <4>1. j \in 2..l + 1 /\ (j = 2 \/ 1 < j - 1)
        BY <1>1, <3>1
      <4>2. 2 - 1 = 1
        OBVIOUS
      <4>. QED  BY <2>1, <4>1, <4>2
    <3>2. i - 1 = 0 /\ e[0] = d[0] /\ 1 - 1 = 0
      BY <1>1, <2>3
    <3>. QED  BY <1>1, <2>3, <3>1, <3>2
  <2>4. CASE i \in 2..l + 1
    <3>1. i - 1 \in 0..l /\ b[i] = a[i - 1] /\ e[i] = d[i - 1] /\ i # 0 /\ i - 1 # 0
      BY <2>1, <2>4
    <3>2. e[i - 1] \in {d[i - 1], d[(i - 1) - 1]}
      <4>1. CASE i = 2
        BY <4>1
      <4>2. CASE i # 2
        <5>1. i - 1 \in 2..l + 1
          BY <1>1, <2>4, <4>2
        <5>. QED  BY <2>1, <5>1
      <4>. QED  BY <4>1, <4>2
    <3>3. ASSUME NEW j \in 0..l + 1, i < j
          PROVE  \E q \in 0..l : i - 1 < q /\ b[j] = a[q] /\ e[j] = d[q]
      <4>1. j \in 2..l + 1 /\ i - 1 < j - 1
        BY <1>1, <2>4, <3>3
      <4>. QED  BY <2>1, <4>1
    <3>. QED  BY <3>1, <3>2, <3>3
  <2>. QED  BY <1>1, <2>2, <2>3, <2>4
<1>4. ASSUME NEW i \in 0..l + 1
      PROVE  /\ b[i] \in Nat /\ e[i] \in Nat /\ b[i] <= n /\ b[i] <= b[0] + e[i] + f
             /\ i > 0 => e[i] <= e[i - 1] + 1
             /\ i > 0 /\ k > 0 => b[i] > b[0] + k
  <2>1. PICK p \in 0..l : /\ b[i] = a[p] /\ e[i] = d[p] /\ (i = 0 <=> p = 0)
                          /\ i > 0 => e[i - 1] \in {d[p], d[p - 1]}
    BY <1>3
  <2>2. /\ a[p] \in Nat /\ d[p] \in Nat /\ a[p] <= n /\ a[p] <= a[0] + d[p] + f
        /\ p > 0 => d[p] <= d[p - 1] + 1
        /\ p > 0 /\ k > 0 => a[p] > a[0] + k
    BY DEF Climbs
  <2>. QED  BY <1>1, <1>2, <2>1, <2>2
<1>5. ASSUME NEW i \in 0..l + 1, NEW j \in 0..l + 1, i < j
      PROVE  (b[i] = b[j] /\ e[i] = e[j]) \/ (b[i] < b[j] /\ e[i] < e[j])
  <2>1. PICK p \in 0..l : /\ b[i] = a[p] /\ e[i] = d[p]
                          /\ (b[j] = a[p] /\ e[j] = d[p])
                               \/ (\E q \in 0..l : p < q /\ b[j] = a[q] /\ e[j] = d[q])
    BY <1>3, <1>5
  <2>2. CASE \E q \in 0..l : p < q /\ b[j] = a[q] /\ e[j] = d[q]
    BY <2>1, <2>2 DEF Climbs
  <2>. QED  BY <2>1, <2>2
<1>. QED  BY <1>1, <1>2, <1>4, <1>5 DEF Climbs

\* A command that is lost has no number; a frame that is lost leaves it out.
LEMMA NumbersLose ==
  ASSUME NInv, Lose PROVE NInv'
<1>1. IsSequence(air) /\ lost \in Nat /\ faults \in 0..MaxFaults /\ faults \in Nat
  BY DialogueAssumption DEF NInv
<1>2. /\ UNCHANGED <<transport, heard, ctrTx>>
      /\ faults' = faults + 1 /\ faults' \in 0..MaxFaults /\ faults' \in faults..MaxFaults
  BY <1>1, DialogueAssumption DEF Lose, Fault, slave, mind
<1>3. CASE UNCHANGED <<air, lost>>
  BY <1>2, <1>3, NumbersStay
<1>4. CASE air # <<>> /\ air' = Tail(air) /\ lost' = IF Copied THEN lost ELSE lost + 1
  <2>1. PICK l \in Nat : l = Len(air) /\ l # 0
    BY <1>1, <1>4, Nonempty
  <2>2. /\ IsSequence(air') /\ Len(air') = l - 1 /\ Head(air) = air[1]
        /\ \A i \in 1..l - 1 : air'[i] = air[i + 1]
    BY <1>1, <1>4, <2>1, Popped
  <2>3. lost' \in Nat /\ lost <= lost' /\ lost' <= lost + 1
    BY <1>1, <1>4
  <2>4. ASSUME transport = "ETHERNET", NEW a, NEW d, NEW n, Numbering(a, d, n)
        PROVE  \E b, e, m : Numbering(b, e, m)'
    <3>1. Climbs(a, d, l, n, faults, lost)
      BY <2>1, <2>4 DEF Numbering
    <3>2. \A i \in 1..l : Shows(a[i], air[i].ctr)
      BY <2>1, <2>4 DEF Numbering
    <3>3. a[1] = a[0] \/ (l > 1 /\ a[2] = a[1]) => lost' = lost
      <4>1. ASSUME a[1] = a[0] PROVE air[1].ctr = heard
        <5>1. Shows(a[1], air[1].ctr) /\ Shows(a[1], heard)
          BY <2>1, <2>4, <3>2, <4>1 DEF Numbering
        <5>. QED  BY <5>1, ShownOnce
      <4>2. ASSUME l > 1, a[2] = a[1] PROVE air[1].ctr = air[2].ctr
        <5>1. Shows(a[1], air[1].ctr) /\ Shows(a[1], air[2].ctr)
          BY <2>1, <3>2, <4>2
        <5>. QED  BY <5>1, ShownOnce
      <4>. QED  BY <1>4, <2>1, <2>2, <4>1, <4>2 DEF Copied
    <3>4. PICK b, e : /\ Climbs(b, e, l - 1, n, faults + 1, lost') /\ b[0] = a[0]
                      /\ \A i \in 1..l - 1 : b[i] = a[i + 1]
      <4>1. l # 0
        BY <2>1
      <4>2. lost' \in {lost, lost + 1}
        BY <1>4
      <4>3. \A m \in {lost, lost + 1} : (a[1] = a[0] \/ (l > 1 /\ a[2] = a[1]) => m = lost)
              => \E b, e : Climbs(b, e, l - 1, n, faults + 1, m) /\ b[0] = a[0] /\ \A i \in 1..l - 1 : b[i] = a[i + 1]
        BY <3>1, <4>1, ClimbsLost
      <4>. QED  BY <3>3, <4>2, <4>3
    <3>5. \A i \in 1..l - 1 : Shows(b[i], air'[i].ctr)
      <4>1. ASSUME NEW i \in 1..l - 1 PROVE i + 1 \in 1..l
        BY <2>1
      <4>. QED  BY <2>2, <3>2, <3>4, <4>1
    <3>6. Shows(b[0], heard') /\ Shows(n, ctrTx')
      BY <1>2, <2>4, <3>4 DEF Numbering
    <3>7. Numbering(b, e, n)'
      BY <1>2, <2>2, <3>4, <3>5, <3>6 DEF Numbering
    <3>. QED  BY <3>7
  <2>. QED  BY <1>1, <1>2, <2>2, <2>3, <2>4 DEF NInv
<1>. QED  BY <1>3, <1>4 DEF Lose

\* A frame that comes twice has one number.
LEMMA NumbersRepeat ==
  ASSUME NInv, Repeat PROVE NInv'
<1>1. IsSequence(air) /\ lost \in Nat /\ faults \in 0..MaxFaults /\ faults \in Nat
  BY DialogueAssumption DEF NInv
<1>2. /\ UNCHANGED <<transport, heard, ctrTx, lost>>
      /\ faults' = faults + 1 /\ faults' \in 0..MaxFaults /\ faults' \in faults..MaxFaults /\ faults' \in Nat
  BY <1>1, DialogueAssumption DEF Repeat, Fault, slave, mind, history
<1>3. CASE UNCHANGED air
  BY <1>2, <1>3, NumbersStay
<1>4. CASE air # <<>> /\ air' = <<Head(air)>> \o air
  <2>1. PICK l \in Nat : l = Len(air) /\ l # 0
    BY <1>1, <1>4, Nonempty
  <2>2. /\ IsSequence(air') /\ Len(air') = l + 1 /\ air'[1] = air[1]
        /\ \A i \in 1..l : air'[i + 1] = air[i]
    <3>1. PICK S : air \in Seq(S)
      BY <1>1 DEF IsSequence
    <3>2. Head(air) = air[1] /\ air[1] \in S
      BY <1>4, <2>1, <3>1, Dropped, ElementOfSeq
    <3>3. <<air[1]>> \in Seq(S) /\ Len(<<air[1]>>) = 1 /\ <<air[1]>>[1] = air[1]
      BY <3>2
    <3>4. /\ air' \in Seq(S) /\ Len(air') = 1 + l
          /\ \A i \in 1..1 + l : air'[i] = IF i <= 1 THEN <<air[1]>>[i] ELSE air[i - 1]
      BY <1>4, <2>1, <3>1, <3>2, <3>3, ConcatProperties
    <3>. QED  BY <2>1, <3>3, <3>4 DEF IsSequence
  <2>3. ASSUME transport = "ETHERNET", NEW a, NEW d, NEW n, Numbering(a, d, n)
        PROVE  \E b, e, m : Numbering(b, e, m)'
    <3>1. Climbs(a, d, l, n, faults, lost)
      BY <2>1, <2>3 DEF Numbering
    <3>2. PICK b, e : /\ Climbs(b, e, l + 1, n, faults, lost) /\ b[0] = a[0] /\ b[1] = a[1]
                      /\ \A i \in 1..l : b[i + 1] = a[i]
      BY <2>1, <3>1, ClimbsTwice
    <3>3. Climbs(b, e, l + 1, n, faults', lost')
      <4>1. n \in Nat
        BY <3>1 DEF Climbs
      <4>2. faults <= faults' /\ n <= n /\ n + faults <= n + faults'
        BY <1>1, <1>2, <4>1
      <4>3. Climbs(b, e, l + 1, n, faults', lost)
        BY <1>2, <3>2, <4>1, <4>2, ClimbsFault, Zenon
      <4>. QED  BY <1>2, <4>3
    <3>4. \A i \in 1..l + 1 : Shows(b[i], air'[i].ctr)
      <4>1. \A i \in 1..l : Shows(a[i], air[i].ctr)
        BY <2>1, <2>3 DEF Numbering
      <4>2. ASSUME NEW i \in 1..l + 1, i # 1 PROVE Shows(b[i], air'[i].ctr)
        <5>1. i - 1 \in 1..l /\ (i - 1) + 1 = i
          BY <2>1, <4>2
        <5>. QED  BY <2>2, <3>2, <4>1, <5>1
      <4>3. Shows(b[1], air'[1].ctr)
        BY <2>1, <2>2, <3>2, <4>1
      <4>. QED  BY <4>2, <4>3
    <3>5. Numbering(b, e, n)'
      BY <1>2, <2>2, <2>3, <3>2, <3>3, <3>4 DEF Numbering
    <3>. QED  BY <3>5
  <2>. QED  BY <1>1, <1>2, <2>2, <2>3 DEF NInv
<1>. QED  BY <1>3, <1>4 DEF Repeat, Twice

\* A frame that is heard is what the next ones are counted from.
LEMMA NumbersHear ==
  ASSUME NInv, Hear PROVE NInv'
<1>1. /\ IsSequence(air) /\ faults \in 0..MaxFaults /\ faults \in Nat
      /\ UNCHANGED <<transport, ctrTx, faults>> /\ lost' = 0
      /\ air # <<>> /\ air' = Tail(air) /\ heard' = Head(air).ctr
  BY DialogueAssumption DEF NInv, Hear, slave
<1>2. PICK l \in Nat : l = Len(air) /\ l # 0
  BY <1>1, Nonempty
<1>3. /\ IsSequence(air') /\ Len(air') = l - 1 /\ Head(air) = air[1]
      /\ \A i \in 1..l - 1 : air'[i] = air[i + 1]
  BY <1>1, <1>2, Popped
<1>4. ASSUME transport = "ETHERNET", NEW a, NEW d, NEW n, Numbering(a, d, n)
      PROVE  \E b, e, m : Numbering(b, e, m)'
  <2>1. Climbs(a, d, l, n, faults, lost) /\ \A i \in 1..l : Shows(a[i], air[i].ctr)
    BY <1>2, <1>4 DEF Numbering
  <2>2. PICK b, e : Climbs(b, e, l - 1, n, faults, 0) /\ \A i \in 0..l - 1 : b[i] = a[i + 1]
    BY <1>2, <2>1, ClimbsHeard
  <2>3. ASSUME NEW i \in 0..l - 1 PROVE Shows(b[i], air[i + 1].ctr)
    <3>1. i + 1 \in 1..l
      BY <1>2
    <3>. QED  BY <2>1, <2>2, <3>1
  <2>4. \A i \in 1..l - 1 : Shows(b[i], air'[i].ctr)
    BY <1>2, <1>3, <2>3
  <2>5. Shows(b[0], heard')
    <3>1. 0 \in 0..l - 1 /\ 0 + 1 = 1
      BY <1>2
    <3>. QED  BY <1>1, <1>3, <2>3, <3>1
  <2>6. Shows(n, ctrTx')
    BY <1>1, <1>4 DEF Numbering
  <2>7. Numbering(b, e, n)'
    BY <1>1, <1>3, <2>2, <2>4, <2>5, <2>6 DEF Numbering
  <2>. QED  BY <2>7
<1>5. lost' \in Nat
  BY <1>1
<1>. QED  BY <1>1, <1>3, <1>4, <1>5 DEF NInv

LEMMA NumbersInitially ==
  Init => NInv
<1> SUFFICES ASSUME Init PROVE NInv
  OBVIOUS
<1>1. air = <<>> /\ Len(air) = 0 /\ IsSequence(air) /\ ctrTx = 0 /\ heard = 0 /\ lost = 0 /\ faults = 0
  <2>1. air = <<>> /\ air \in Seq({}) /\ Len(air) = 0
    BY DEF Init
  <2>. QED  BY <2>1 DEF Init, IsSequence
<1>2. PICK z : z = [i \in {0} |-> 0]
  OBVIOUS
<1>3. Shows(0, 0)
  <2>1. 0 = 0 * CtrMod + 0 /\ 0 \in 0..CtrMod - 1
    BY DialogueAssumption
  <2>. QED  BY <2>1 DEF Shows
<1>4. z[0] = 0
  BY <1>2
<1>5. Climbs(z, z, 0, 0, 0, 0)
  BY <1>4 DEF Climbs
<1>6. Numbering(z, z, 0)
  BY <1>1, <1>3, <1>4, <1>5 DEF Numbering
<1>. QED  BY <1>1, <1>6, DialogueAssumption DEF NInv

LEMMA NumbersNext ==
  ASSUME NInv, [Next]_vars PROVE NInv'
<1>1. faults \in faults..MaxFaults
  BY DialogueAssumption DEF NInv
<1>2. CASE Slave
  BY <1>2, NumbersCommands, NumbersTransmit DEF Slave
<1>3. CASE Lose
  BY <1>3, NumbersLose
<1>4. CASE Repeat
  BY <1>4, NumbersRepeat
<1>5. CASE Ask
  BY <1>1, <1>5, NumbersStay DEF Ask, slave
<1>6. CASE Hear
  BY <1>6, NumbersHear
<1>7. CASE Timeout
  BY <1>1, <1>7, NumbersStay DEF Timeout, slave, history
<1>8. CASE UNCHANGED vars
  BY <1>1, <1>8, NumbersStay DEF vars, slave, link, mind, history
<1>. QED  BY <1>2, <1>3, <1>4, <1>5, <1>6, <1>7, <1>8 DEF Next

\* If frames were lost, the one heard next is not the successor of the one
\* heard last: its number is too great by one at least and, with fewer faults
\* than the counter has values, by less than a round.
LEMMA GapShows ==
  ASSUME NInv, Hear, transport = "ETHERNET", lost > 0, MaxFaults < CtrMod
  PROVE  Head(air).ctr # Count(heard)
<1>1. /\ IsSequence(air) /\ lost \in Nat /\ faults \in 0..MaxFaults /\ MaxFaults \in Nat /\ CtrMod \in Nat
      /\ air # <<>>
  BY DialogueAssumption DEF NInv, Hear
<1>2. PICK a, d, n : Numbering(a, d, n)
  BY DEF NInv
<1>3. PICK l \in Nat : l = Len(air) /\ l # 0 /\ Head(air) = air[1]
  BY <1>1, Popped
<1>4. Climbs(a, d, l, n, faults, lost) /\ Shows(a[0], heard) /\ Shows(a[1], air[1].ctr)
  BY <1>2, <1>3 DEF Numbering
<1>5. a[0] \in Nat /\ a[1] \in Nat /\ a[1] > a[0] + 1 /\ a[1] < (a[0] + 1) + CtrMod
  <2>1. 0 \in 0..l /\ 1 \in 0..l /\ 1 - 1 = 0
    BY <1>3
  <2>2. d[0] = 0 /\ d[1] \in Nat /\ d[1] <= d[1 - 1] + 1
    BY <1>4, <2>1 DEF Climbs
  <2>3. a[0] \in Nat /\ a[1] \in Nat /\ a[1] <= a[0] + d[1] + faults /\ a[1] > a[0] + lost
    BY <1>1, <1>4, <2>1 DEF Climbs
  <2>4. d[1] <= 1
    BY <2>1, <2>2
  <2>. QED  BY <1>1, <2>2, <2>3, <2>4
<1>6. Shows(a[0] + 1, Count(heard))
  BY <1>4, NextShown
<1>7. SUFFICES ASSUME air[1].ctr = Count(heard) PROVE FALSE
  BY <1>3
<1>8. Shows(a[1], Count(heard)) /\ a[0] + 1 < a[1]
  BY <1>4, <1>5, <1>7
<1>9. a[1] >= (a[0] + 1) + CtrMod
  BY <1>6, <1>8, SameShown
<1>. QED  BY <1>1, <1>5, <1>9

\* On Ethernet a lost frame shows in the numbers that Xcp_EthTransmit gives
\* the frames, whatever the master does and whatever else goes wrong, as long
\* as less goes wrong than the counter Xcp_EthCtrTx has values.
THEOREM LossesShow ==
  ASSUME MaxFaults < CtrMod PROVE Spec => LossShows
<1> DEFINE Shown == transport = "ETHERNET" /\ lost > 0 /\ lost' = 0 => Head(air).ctr # Count(heard)
<1>1. NInv /\ [Next]_vars => NInv'
  BY NumbersNext
<1>2. NInv /\ [Next]_vars => [Shown]_vars
  <2> SUFFICES ASSUME NInv, Next, transport = "ETHERNET", lost > 0, lost' = 0
               PROVE  Head(air).ctr # Count(heard)
    OBVIOUS
  <2>1. lost' # lost /\ lost' # lost + 1
    BY DEF NInv
  <2>2. ASSUME NEW cmds PROVE ~Receive(cmds)
    BY <2>1 DEF Receive
  <2>3. ~Slave
    BY <2>1, <2>2 DEF Slave, Connect, Synch, SetCalPage, GetCalPage, GetSegmentInfo, GetInfo, User,
                      TransportLayer, Transmit, history
  <2>4. Hear
    BY <2>1, <2>3 DEF Next, Lose, Repeat, Ask, Timeout, history
  <2>. QED  BY <2>4, GapShows
<1>. QED  BY <1>1, <1>2, NumbersInitially, PTL DEF Spec, LossShows
==============================================================================
