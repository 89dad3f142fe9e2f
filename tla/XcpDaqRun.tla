------------------------------ MODULE XcpDaqRun ------------------------------
(***************************************************************************)
(* DAQ lists at work (Xcp.c): events sample the lists of direction DAQ     *)
(* into frames and write what was received for those of direction STIM to  *)
(* memory, while a master starts, stops, turns, frees and rebuilds them,   *)
(* all from one pool of buffers.  The contexts are scheduled               *)
(* cooperatively, as in XcpDaqConfig; their races are in XcpCore.          *)
(*                                                                         *)
(* How lists are configured is in XcpDaqConfig, which event triggers which *)
(* list in XcpEventChannels: here the lists have one layout, and each list *)
(* an event.                                                               *)
(***************************************************************************)
EXTENDS XcpMta, FiniteSets, SequencesExt

CONSTANTS Layout,      \* the lists: each a sequence of ODTs, these of entries
          CanStim,     \* the lists with the STIM property; all have DAQ
          Headers,     \* bytes of the identification field, for the values of
                       \* XCP_IDENTIFICATION to look at
          Stamp,       \* XCP_TIMESTAMP_SIZE, 0 for lists without timestamp
          MaxDto,      \* XCP_MAX_DTO
          Buffers,     \* XCP_MAX_RXTX_QUEUE
          Stores,      \* the store at first, and what the application makes of it
          Junk,        \* what is found on the stack
          Lengths,     \* bytes of a STIM packet behind the identification field
          TooShort,    \* TRUE: the master sends packets of one byte, too
          NoPacket, NoCall,
          MaxCalls, MaxPackets, MaxEvents, MaxRefused  \* bounds

Lists == 1..Len(Layout)
Odts(l) == 1..Len(Layout[l])

\* What the master calls for.
Calls == [cmd : {"START", "STOP"}, list : Lists]
         \cup [cmd : {"SET_DAQ_LIST_MODE"}, list : Lists, stim : BOOLEAN]
         \cup [cmd : {"FREE_DAQ", "BUILD"}]

\* What an entry of an ODT refers to.
Entries == [ext : {"MEMORY", "DEBUG", "DIO_PORT", "DIO_CHAN"}, addr : Nat, len : Nat]

ASSUME RunAssumption ==
  /\ Layout \in Seq(Seq(Seq(Entries)))
  /\ \A l \in Lists : Len(Layout[l]) > 0 /\ \A o \in Odts(l) : Layout[l][o] # <<>>
  /\ CanStim \subseteq Lists /\ Headers \subseteq 1..4
  /\ Stamp \in Nat /\ MaxDto \in Nat /\ Buffers \in Nat
  /\ Junk \subseteq Nat /\ TooShort \in BOOLEAN
  /\ NoPacket \notin [len : Int, data : Seq(Nat)] /\ NoCall \notin Calls
  /\ Lengths \subseteq Nat
  /\ {MaxCalls, MaxPackets, MaxEvents, MaxRefused} \subseteq Nat

VARIABLES
  header,   \* the identification field of this build
  built,    \* the lists are allocated and filled in
  mode,     \* XcpParams.Mode: RUNNING and STIM; CHANNEL: it has an event channel
  pending,  \* XcpStim of each ODT
  free,     \* the number of buffers in Xcp_FifoFree
  rx,       \* Xcp_FifoRx
  tx,       \* Xcp_FifoTx
  store,    \* memory and DIO
  master,   \* the call it waits for; the lists it knows to be stopped
  heard,    \* the frame of each list that it heard last
  due,      \* history: the packet to be applied to each ODT
  leaked,   \* history: buffers that FREE_DAQ left in ODTs
  events,   \* the events of each list
  bounds    \* how many calls, packets and refused frames there were

daq == <<header, built, mode, pending>>
pool == <<free, rx, tx>>
mind == <<master, heard>>
history == <<due, leaked>>
vars == <<daq, pool, store, mind, history, events, bounds>>

Nothing == [l \in Lists |-> [o \in Odts(l) |-> NoPacket]]
Unheard == [event |-> 0, odt |-> 0]

Init == /\ header \in Headers
        /\ built = TRUE
        /\ mode = [l \in Lists |-> {}]
        /\ pending = Nothing /\ due = Nothing
        /\ free = Buffers /\ rx = <<>> /\ tx = <<>>
        /\ store \in Stores
        /\ master = [call |-> NoCall, quiet |-> Lists]
        /\ heard = [l \in Lists |-> Unheard]
        /\ leaked = 0
        /\ events = [l \in Lists |-> 0]
        /\ bounds = [calls |-> 0, packets |-> 0, refused |-> 0]

Within(what, max) == /\ bounds[what] < max /\ bounds' = [bounds EXCEPT ![what] = @ + 1]
                     /\ UNCHANGED events

-----------------------------------------------------------------------------
(* The master and what is in front of the slave                            *)

\* Xcp_RxIndication: without a buffer the packet is dropped.
Indicate(packet) == IF free > 0
                    THEN rx' = Append(rx, packet) /\ free' = free - 1
                    ELSE UNCHANGED <<rx, free>>

\* The slave answers STIM packets like commands: the master waits for these
\* answers before it gives a command.
Answered == /\ \A i \in DOMAIN rx : rx[i].cmd # "STIM"
            /\ \A i \in DOMAIN tx : tx[i].kind = "DTO"

Call == /\ master.call = NoCall /\ Answered
        /\ Within("calls", MaxCalls)
        /\ \E c \in Calls :
             /\ Indicate(c)
             /\ master' = [call |-> c,
                           quiet |-> IF c.cmd = "START" THEN master.quiet \ {c.list} ELSE master.quiet]
        /\ UNCHANGED <<daq, tx, store, heard, history>>

\* The number an ODT has in a STIM packet, with
\* XCP_IDENTIFICATION_ABSOLUTE counted over all lists.
Absolute == header = 1
Before(l) == Cardinality(UNION {{k} \X Odts(k) : k \in 1..l - 1})
Pid(l, o) == IF Absolute THEN Before(l) + o - 1 ELSE o - 1

\* The bytes of a packet tell the packets and the places apart.
Stimulate == /\ master.call = NoCall
             /\ Within("packets", MaxPackets)
             /\ \E l \in CanStim, n \in Lengths \cup (IF TooShort THEN {1 - header} ELSE {}) :
                  \E o \in Odts(l) :
                    Indicate([cmd |-> "STIM", pid |-> Pid(l, o), list |-> l, odt |-> o, len |-> n,
                              data |-> [i \in 1..n |-> (bounds.packets + i) % 3]])
             /\ UNCHANGED <<daq, tx, store, mind, history>>

-----------------------------------------------------------------------------
(* Xcp_Recieve_Main                                                        *)

Packet == Head(rx)

\* FIFO_GET_WRITE takes a buffer if there is one, of those free before the
\* received one is freed; after returns others.
Answer(kind, before, after) ==
  IF before > 0 THEN /\ tx' = Append(tx, [kind |-> kind])
                     /\ free' = before - 1 + after
  ELSE UNCHANGED tx /\ free' = after

Receive(cmd) == /\ rx # <<>> /\ Packet.cmd = cmd
                /\ rx' = Tail(rx)
                /\ UNCHANGED <<store, mind, events, bounds>>

\* Xcp_GetOdt: the ODT n steps behind the first one of a list, on into the
\* lists that follow.
NoOdt == <<0, 0>>

\* Fault: at the end of a list it starts again.
NextOdtSameList(at) == IF at[2] < Len(Layout[at[1]]) THEN <<at[1], at[2] + 1>>
                       ELSE IF at[1] < Len(Layout) THEN <<at[1], 1>> ELSE NoOdt

NextOdt(at) == IF at[2] < Len(Layout[at[1]]) THEN <<at[1], at[2] + 1>>
               ELSE IF at[1] < Len(Layout) THEN <<at[1] + 1, 1>> ELSE NoOdt

GetOdt(list, n) ==
  LET walk[j \in 0..n] == IF j = 0 THEN <<list, 1>>
                          ELSE IF walk[j - 1] = NoOdt THEN NoOdt ELSE NextOdt(walk[j - 1])
  IN IF built THEN walk[n] ELSE NoOdt

\* Fault: the packet that waits is not freed.
StimKeepsOld(at) ==
  /\ pending' = [pending EXCEPT ![at[1]][at[2]] = [len |-> Packet.len, data |-> Packet.data]]
  /\ Answer("RES", free, 0)

\* A packet that still waits is freed, the new one kept in its place.
Stim(at) ==
  /\ pending' = [pending EXCEPT ![at[1]][at[2]] = [len |-> Packet.len, data |-> Packet.data]]
  /\ Answer("RES", free + (IF pending[at[1]][at[2]] = NoPacket THEN 0 ELSE 1), 0)

\* Xcp_Recieve_Stim.
ReceiveStim ==
  /\ Receive("STIM")
  /\ LET at == GetOdt(IF Absolute THEN 1 ELSE Packet.list, Packet.pid)
     IN IF at # NoOdt /\ "STIM" \in mode[at[1]] THEN Stim(at)
        ELSE Answer("ERR", free, 1) /\ UNCHANGED pending
  /\ due' = IF built /\ "STIM" \in mode[Packet.list]
            THEN [due EXCEPT ![Packet.list][Packet.odt] = [len |-> Packet.len, data |-> Packet.data]]
            ELSE due
  /\ UNCHANGED <<header, built, mode, leaked>>

\* Xcp_CmdStartStopDaqList, modes 1 and 0.
Start == /\ Receive("START")
         /\ mode' = IF built THEN [mode EXCEPT ![Packet.list] = @ \cup {"RUNNING"}] ELSE mode
         /\ Answer(IF built THEN "RES" ELSE "ERR", free, 1)
         /\ UNCHANGED <<header, built, pending, history>>

Stop == /\ Receive("STOP")
        /\ mode' = IF built THEN [mode EXCEPT ![Packet.list] = @ \ {"RUNNING"}] ELSE mode
        /\ Answer(IF built THEN "RES" ELSE "ERR", free, 1)
        /\ UNCHANGED <<header, built, pending, history>>

\* Xcp_CmdSetDaqListMode, see XcpEventChannels.
SetDaqListMode ==
  /\ Receive("SET_DAQ_LIST_MODE")
  /\ LET l == Packet.list
         allowed == built /\ "RUNNING" \notin mode[l] /\ (Packet.stim => l \in CanStim)
     IN /\ mode' = IF allowed THEN [mode EXCEPT ![l] = {"CHANNEL"} \cup IF Packet.stim THEN {"STIM"} ELSE {}]
                   ELSE mode
        /\ Answer(IF allowed THEN "RES" ELSE "ERR", free, 1)
  /\ UNCHANGED <<header, built, pending, history>>

\* Xcp_CmdFreeDaq: the ODTs go with the packets they hold.
Waiting == {at \in UNION {{l} \X Odts(l) : l \in Lists} : pending[at[1]][at[2]] # NoPacket}

\* Fault: the lists of the past keep their mode.
FreeDaqKeepsMode == /\ Receive("FREE_DAQ")
                    /\ built' = FALSE
                    /\ pending' = Nothing /\ due' = Nothing
                    /\ leaked' = leaked + Cardinality(Waiting)
                    /\ Answer("RES", free, 1)
                    /\ UNCHANGED <<header, mode>>

FreeDaq == /\ Receive("FREE_DAQ")
           /\ built' = FALSE
           /\ mode' = [l \in Lists |-> {}]
           /\ pending' = Nothing /\ due' = Nothing
           /\ leaked' = leaked + Cardinality(Waiting)
           /\ Answer("RES", free, 1)
           /\ UNCHANGED header

\* ALLOC_DAQ, ALLOC_ODT, ALLOC_ODT_ENTRY and WRITE_DAQ in their order, after
\* FREE_DAQ; the model takes them for one command.
Build == /\ Receive("BUILD")
         /\ built' = TRUE
         /\ Answer(IF built THEN "ERR" ELSE "RES", free, 1)
         /\ UNCHANGED <<header, mode, pending, history>>

-----------------------------------------------------------------------------
(* Xcp_ProcessDaq                                                          *)

\* Fault: an entry may be the last byte longer than what is left.
FitsLonger(s, e) == e.len <= s.left + 1

\* STIM: entry after entry takes its bytes from the packet, as long as there
\* are enough; behind the packet is what the buffer held before.  The length
\* is a uint8.
Fits(s, e) == e.len <= s.left

Entry(s, e, packet, junk) ==
  IF ~Fits(s, e) THEN [s EXCEPT !.left = 0]
  ELSE [store |-> Write(s.store, MtaInit(s.store, e.addr, e.ext, junk),
                        [i \in 1..e.len |-> IF s.pos + i \in 1..packet.len THEN packet.data[s.pos + i] ELSE junk % 256]),
        left |-> s.left - e.len, pos |-> s.pos + e.len]

Applied(st, entries, packet, junk) ==
  LET steps[i \in 0..Len(entries)] ==
        IF i = 0 THEN [store |-> st, left |-> packet.len % 256, pos |-> 0]
        ELSE Entry(steps[i - 1], entries[i], packet, junk)
  IN steps[Len(entries)].store

StimEvent(l) ==
  \E junk \in Junk :
    LET steps[o \in 0..Len(Layout[l])] ==
          IF o = 0 THEN store
          ELSE IF pending[l][o] = NoPacket THEN steps[o - 1]
          ELSE Applied(steps[o - 1], Layout[l][o], pending[l][o], junk)
    IN /\ store' = steps[Len(Layout[l])]
       /\ free' = free + Cardinality({o \in Odts(l) : pending[l][o] # NoPacket})
       /\ pending' = [pending EXCEPT ![l] = Nothing[l]]
       /\ due' = [due EXCEPT ![l] = Nothing[l]]
       /\ UNCHANGED <<header, built, mode, rx, tx, leaked>>

\* DAQ: what entry e brings to a frame that has used bytes; what does not fit
\* is left out, and all behind it.
Sampled(entries, used, junk) ==
  LET steps[i \in 0..Len(entries)] ==
        IF i = 0 THEN [data |-> <<>>, full |-> FALSE]
        ELSE LET s == steps[i - 1]
                 e == entries[i]
             IN IF s.full \/ used + Len(s.data) + e.len > MaxDto THEN [s EXCEPT !.full = TRUE]
                ELSE [s EXCEPT !.data = @ \o Read(store, MtaInit(store, e.addr, e.ext, junk), e.len)]
  IN steps[Len(entries)].data

\* The byte that is at an address of an extension.
Cell(st, ext, a) == CASE ext = "DIO_PORT" -> Byte(st.port[a \div PortSize], a % PortSize)
                      [] ext = "DIO_CHAN" -> st.chan[a]
                      [] ext = "DEBUG" -> st.mem[DebugBase + a]
                      [] OTHER -> st.mem[a]
BytesOf(e) == [i \in 1..e.len |-> Cell(store, e.ext, e.addr + i - 1)]

\* What an ODT should bring: the entries that fit.
Expected(entries, used) ==
  LET Upto(n) == FlattenSeq([i \in 1..n |-> BytesOf(entries[i])])
      n == CHOOSE n \in 0..Len(entries) :
             /\ used + Len(Upto(n)) <= MaxDto
             /\ n < Len(entries) => used + Len(Upto(n + 1)) > MaxDto
  IN Upto(n)

Used(o) == header + (IF o = 1 THEN Stamp ELSE 0)

Frame(l, o, junk) ==
  [kind |-> "DTO", list |-> l, odt |-> o, event |-> events[l] + 1,
   data |-> Sampled(Layout[l][o], Used(o), junk), want |-> Expected(Layout[l][o], Used(o))]

\* ODT after ODT takes a buffer; once there is none left, those behind are
\* left out too.
DaqEvent(l) ==
  \E junk \in Junk :
    LET n == IF free < Len(Layout[l]) THEN free ELSE Len(Layout[l])
    IN /\ tx' = tx \o [o \in 1..n |-> Frame(l, o, junk)]
       /\ free' = free - n
       /\ UNCHANGED <<daq, rx, store, history>>

\* Xcp_ProcessChannel for the event of list l.
Event(l) == /\ {"RUNNING", "CHANNEL"} \subseteq mode[l]
            /\ events[l] < MaxEvents /\ events' = [events EXCEPT ![l] = @ + 1]
            /\ IF "STIM" \in mode[l] THEN StimEvent(l) ELSE DaqEvent(l)
            /\ UNCHANGED <<mind, bounds>>

-----------------------------------------------------------------------------
(* Xcp_Transmit_Main                                                       *)

\* Fault: a frame that is refused goes behind the others.
RefuseBehind == /\ tx # <<>> /\ Within("refused", MaxRefused)
                /\ tx' = Append(Tail(tx), Head(tx))
                /\ UNCHANGED <<daq, free, rx, store, mind, history>>

\* A frame that is refused stays in front.
Refuse == /\ tx # <<>> /\ Within("refused", MaxRefused)
          /\ UNCHANGED <<daq, pool, store, mind, history>>

\* A frame goes out and is heard: it is an answer or a sample.
Transmit ==
  /\ tx # <<>>
  /\ tx' = Tail(tx) /\ free' = free + 1
  /\ LET f == Head(tx)
         c == master.call
     IN IF f.kind = "DTO"
        THEN heard' = [heard EXCEPT ![f.list] = [event |-> f.event, odt |-> f.odt]] /\ UNCHANGED master
        ELSE /\ master' = [call |-> NoCall,
                           quiet |-> IF c # NoCall /\ c.cmd = "STOP" /\ f.kind = "RES"
                                     THEN master.quiet \cup {c.list} ELSE master.quiet]
             /\ UNCHANGED heard
  /\ UNCHANGED <<daq, rx, store, history, events, bounds>>

\* The call, or its answer, found no buffer.
Timeout == /\ master.call # NoCall
           /\ rx = <<>> /\ \A i \in DOMAIN tx : tx[i].kind = "DTO"
           /\ master' = [master EXCEPT !.call = NoCall]
           /\ UNCHANGED <<daq, pool, store, heard, history, events, bounds>>

\* The application changes what is sampled.
Application == /\ store' \in Stores \ {store}
               /\ UNCHANGED <<daq, pool, mind, history, events, bounds>>

Slave == \/ ReceiveStim \/ Start \/ Stop \/ SetDaqListMode \/ FreeDaq \/ Build
         \/ Transmit \/ Refuse \/ \E l \in Lists : Event(l)

Next == Slave \/ Call \/ Stimulate \/ Timeout \/ Application

Spec == Init /\ [][Next]_vars

-----------------------------------------------------------------------------
(* Properties                                                              *)

TypeOK ==
  /\ header \in Headers /\ built \in BOOLEAN
  /\ mode \in [Lists -> SUBSET {"RUNNING", "STIM", "CHANNEL"}]
  /\ \A l \in Lists : ~built => mode[l] = {}
  /\ \A l \in Lists : DOMAIN pending[l] = Odts(l) /\ DOMAIN due[l] = Odts(l)
  /\ free \in 0..Buffers
  /\ master.call \in Calls \cup {NoCall} /\ master.quiet \subseteq Lists

\* Every buffer is free, in a queue or held by an ODT, except for those that
\* FREE_DAQ left in the ODTs it freed.
BuffersAccounted == free + Len(rx) + Len(tx) + Cardinality(Waiting) + leaked = Buffers

\* A STIM packet waits at the ODT that the master meant it for, whatever the
\* identification field counts the ODTs over, and the last one is the one that
\* waits (Xcp_Recieve_Stim, Xcp_GetOdt).
PacketsInPlace == pending = due

\* No buffer is ever lost.
NoneLost == leaked = 0

\* The bytes that the packets for list l have for its entries, those that
\* came as a whole.
StartOf(entries, k) == FoldFunction(+, 0, [j \in 1..k - 1 |-> entries[j].len])
Brought(l) ==
  UNION {LET e == Layout[l][at[1]][at[2]]
             packet == due[l][at[1]]
             start == StartOf(Layout[l][at[1]], at[2])
         IN IF packet # NoPacket /\ start + e.len <= packet.len
            THEN {[ext |-> e.ext, addr |-> e.addr + i - 1, val |-> packet.data[start + i]] : i \in 1..e.len}
            ELSE {} :
         at \in UNION {{o} \X DOMAIN Layout[l][o] : o \in Odts(l)}}

Addresses(ext) == IF ext = "DIO_PORT" THEN 0..(Cardinality(DOMAIN store.port) * PortSize) - 1
                  ELSE IF ext = "DIO_CHAN" THEN DOMAIN store.chan ELSE DOMAIN store.mem

\* An event of a STIM list brings to each place the byte that the last packet
\* for the ODT has for it (Xcp_Recieve_Stim, Xcp_GetOdt, Xcp_ProcessDaq), once
\* only, and touches nothing else: nothing of a packet that was replaced, or
\* of one for another list, and no entry that came in part.
StimTrue ==
  [][\A l \in Lists :
       events'[l] # events[l] /\ "STIM" \in mode[l] =>
         LET brought == Brought(l)
         IN \A ext \in {"MEMORY", "DIO_PORT", "DIO_CHAN"} : \A a \in Addresses(ext) :
              LET vals == {b.val : b \in {b \in brought : b.ext = ext /\ b.addr = a}}
              IN Cell(store', ext, a) \in IF vals = {} THEN {Cell(store, ext, a)}
                                         ELSE IF ext # "DIO_CHAN" THEN vals
                                         ELSE {IF v = 1 THEN 1 ELSE 0 : v \in vals}]_vars

\* What the master hears of a list is sound: its bytes are those that were in
\* memory at the event, up to the first entry that does not fit.
SamplesTrue ==
  [][Len(tx') < Len(tx) /\ Head(tx).kind = "DTO" => Head(tx).data = Head(tx).want]_vars

\* It comes from a list that has not been stopped, and each ODT follows the
\* one before it of the same event, whatever was left out for want of a buffer
\* (Xcp_ProcessDaq, Xcp_Transmit_Main).
SamplesInOrder ==
  [][Len(tx') < Len(tx) /\ Head(tx).kind = "DTO" =>
       LET f == Head(tx)
       IN /\ f.list \notin master.quiet
          /\ f.odt = 1 \/ heard[f.list] = [event |-> f.event, odt |-> f.odt - 1]]_vars
==============================================================================
