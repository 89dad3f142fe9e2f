# Verification of the AUTOSAR XCP slave

TLA+ models of the XCP slave in `src/source`, the TLC configurations that
check them on small instances, and proofs, for every instance, of the main
properties of the packet engine, the sessions, the transfers, the event channels,
the sampling and the configuration of DAQ lists, and the calibration pages and
their transport. `PROJECT.json` lists the runs with
what each shows, maps each definition to the lines it models, and lists the
hazards of the code with the properties that watch them.

## 1. The system

The slave sits between a master (a measurement and calibration tool) and the
memory of an ECU. Four kinds of contexts run its code:

| context | enters at | does |
|---|---|---|
| receive callback, usually an interrupt | `Xcp_CanIfRxIndication`, `Xcp_SoAdIfRxIndication` → `Xcp_RxIndication` | copies a packet into a buffer, queues it |
| cyclic task | `Xcp_MainFunction` | runs the upload worker *or* handles all queued packets, then sends a frame |
| event channel tasks | `Xcp_MainFunction_Channel` | sample the DAQ lists of a channel, apply STIM packets |
| application | `Xcp_Disconnect` | ends the session with an event, through `Xcp_MainFunction` |

They share one pool of buffers and all configuration. Only the queue
operations of `Xcp_ByteStream.h` are critical sections; everything else relies
on the caller's scheduling. README.txt:23-24 promises that a global mutex or
interrupt lock is all that multi-threaded use needs.

### Components

| component | state | operations | what makes it correct |
|---|---|---|---|
| Buffer queues (`Xcp_ByteStream.h`) | `front`, `back` of three queues, `next` of each buffer | Get, Put, Put_Front, Free, Init | each list is a sequence and stays one |
| Packet engine (`Xcp.c`) | free, rx and tx queue, buffers in local variables and in `odt->XcpStim`, `Xcp_Connected`, `Xcp_Worker` | `Xcp_RxIndication`, `Xcp_Recieve_Main`, `Xcp_Transmit_Main`, `Xcp_Disconnect`, `Xcp_ProcessDaq`, `Xcp_Recieve_Stim` | no buffer lost, none used twice, frames go out once, in order, unmixed; everything queued is handled |
| Sessions, Seed & Key | `Xcp_Connected`, `XcpProtect`, `Xcp_Unlock` | CONNECT, DISCONNECT, SYNCH, GET_STATUS, GET_SEED, UNLOCK | a right key opens its resource whatever is lost; nothing else does; a session ends with what it opened |
| Transfer commands | `Xcp_Mta`, `Xcp_Download`, `Xcp_Upload`, `Xcp_Worker` | SET_MTA, DOWNLOAD(_NEXT), UPLOAD, SHORT_UPLOAD, BUILD_CHECKSUM, GET_ID, GET_DAQ_EVENT_INFO | what the master is told was written, read or summed is what happened, and at the right place |
| Event channels | per channel an array of list references, its count, an event counter; per list mode, channel, prescaler | `Xcp_ProcessChannel`, SET_DAQ_LIST_MODE, START_STOP_DAQ_LIST, START_STOP_SYNCH, FREE_DAQ | arrays and lists agree; each event samples each due list once |
| DAQ sampling and STIM (`Xcp.c`) | lists that run, their direction, the STIM packet each ODT holds, the frames in the queue | `Xcp_ProcessDaq`, `Xcp_Recieve_Stim`, `Xcp_GetOdt`; start, stop, turn, free, build | each packet is applied once, to its own entries; each sample is that of its event; every buffer has one place |
| DAQ list configuration | chains of lists, ODTs and entries, counters next to them, `Xcp_DaqState`, the heap | CLEAR_DAQ_LIST, SET_DAQ_PTR, WRITE_DAQ, READ_DAQ, FREE_DAQ, ALLOC_DAQ, ALLOC_ODT, ALLOC_ODT_ENTRY | counters and chains agree, no walk leaves a chain, what is written is sampled, nothing leaks |
| Memory access (`Xcp_Memory.c`) | address, extension, one buffer for DIO | get, put, read, write, flush | each byte goes to its place |
| Calibration pages | ECU and XCP page of each segment | SET_CAL_PAGE, GET_CAL_PAGE, GET_SEGMENT_INFO, GET_PAG_PROCESSOR_INFO | each command has one effect at most, its answer tells which; the master is not misled |
| Flash programming (`Xcp_Program.c`) | started flag, bytes that remain | PROGRAM_START, PROGRAM(_NEXT), … | as for downloads |
| CAN, Ethernet transport | none; two message counters | callbacks, `Xcp_Transmit`, `Xcp_CmdTransportLayer` | one answer per command; a loss shows in the counter |
| Seed & Key DLL (`src/tools`) | none | copies the seed to the key | part of the master's tool |

What is hard here: contexts that interleave between critical sections; a pool
that runs empty and then drops packets, answers and samples silently; packets
lost in either direction in the middle of exchanges of several frames, with
counters on both sides; a transport layer that refuses frames; a background
worker that displaces the command loop; pointers kept across commands into
structures that other commands take apart; `malloc` failing halfway.

## 2. The modules

    FifoLink <-implements- XcpCore <--- MCXcpCore (symmetry of buffers)
                                   <--- XcpCoreProofs

    BufferQueues <-implements- XcpFifo    (the sequences of XcpCore)

    PageRegisters <-implements- XcpDialogue <--- MCXcpDialogue
                                            <--- XcpDialogueProofs (with QueueLemmas)

    XcpMta <--- XcpDaqRun <--- MCXcpDaqRun
                          <--- XcpDaqRunProofs (with QueueLemmas)

    XcpSession <--- XcpSessionProofs (with QueueLemmas)

    XcpEventChannels <--- XcpEventChannelsProofs

    XcpDaqConfig <--- MCXcpDaqConfig
                 <--- XcpDaqConfigProofs

    XcpTransfer <--- XcpTransferProofs (with QueueLemmas)

(`<---` is EXTENDS. The MC modules hold the lists, segments and requests of the
runs. The modules named Proofs hold theorems, QueueLemmas what several of them
share about queues, tuples and numbers.)

Operators named like an action with a suffix and commented `Fault:` are
deliberately broken forms of that action; no specification uses them. They
serve to confirm that a property fails when the code is changed that way.

**XcpFifo** has `front`, `back`, `next` as the code does; an action is one
operation under the lock. `QueuesAreSequences` shows that it implements
**BufferQueues**, three sequences and what each context has in hand. That
justifies the sequences in XcpCore.

**XcpCore** is the packet engine. A step is one critical section with the
thread-local code next to it: taking a buffer from the free list and filling it
is one step (`GetFree`), queueing it the next (`PutRx`, `PutTx`). `mpc` and
`tpc` are the program points of the main context and of each channel task;
`held` is the buffer of each local variable and of each `odt->XcpStim`. A
handler leaves the frames of its answer in `reply`; `Respond`, `DropReply`,
`QueueReply` are `FIFO_GET_WRITE` for each of them. A buffer's content is a
sequence of tokens: one token per writer, so that a frame of two tokens is one
that was appended to stale bytes. Commands are classes by what they do to pool
and session. `Preemptive` chooses between cooperative contexts and free
interleaving; receive callbacks interrupt in both. **FifoLink** is the abstract
transmit side: frames accepted leave once each, in order.

**XcpSession** has the slave's side of Seed & Key from the code and an
external master: it asks for a resource, collects the seed in parts, returns it
as the key (README.txt's example) in parts, possibly in padded frames,
resynchronises with SYNCH after a timeout, and believes what it is told. Both
channels lose frames; answers may come after the timeout; the slave may lack
the buffer for an answer; the application may end the session; commands out of
sequence come in.

**XcpTransfer** has the memory as bytes, `Xcp_Mta`, the two counters and the
worker, and a master with one job at a time. `receiving` marks one run of the
loop of `Xcp_Recieve_Main`: commands that arrive while it runs are handled in
it, *before* the upload worker runs again. `Resume` chooses how the master
recovers: going on where ERR_SEQUENCE says the slave is, or from SET_MTA again.
A name that GET_ID or GET_DAQ_EVENT_INFO puts the MTA on is a piece of the
memory, fetched by UPLOAD. Programming keeps a count of its own
(`Xcp_Program.rem`); as the code does not write to the flash yet, `counted`
records the bytes it takes as written.

**XcpEventChannels** splits SET_DAQ_LIST_MODE into its accesses to the arrays
(`Find`, `Shift`, `Shrink`, `AppendRef`, `Grow`), and `Xcp_ProcessChannel` into
the check of an entry and its use, which reads the entry again. `sampled`,
`due`, `since` and `first` are history variables. FREE_DAQ (`FreeDaq`, `FreeNext`, `FreeDone`) takes one list after the other out
of its channel with the same steps before it frees them; `present` is what is
allocated. The order of the lists in their chain is left open. START_STOP_SYNCH's loop over
the lists is one step: it touches the mode of each list once and the channel
tasks read each list's mode once.

**XcpDaqConfig** has the lists as a sequence of records: ODTs and entries that
are linked, next to the counters. An entry is `"empty"`, `"data"` or `"garbage"`
(what malloc returned). `ptr` is `Xcp_DaqState` with what has become of the
object behind it: live, freed, or leaked (unlinked but not freed). A bad access
sets `fault` and stops the model. A command that only answers with an error is a
stuttering step. `Habits` names what a well-behaved master takes care of:
RANGES (numbers within what it was told), POINTER (WRITE_DAQ only behind a
valid SET_DAQ_PTR), ONCE (no ALLOC twice), STOPPED (lists are stopped before
they are rebuilt), FILLED (lists are filled in before they are started). A run
with all of them shows that the code is right for such a master; runs that
drop one show what the code does not check for itself.

**XcpMta** is `Xcp_Memory.c` as operators: `Get` and `Put` for memory, debug
memory, DIO channels and DIO ports, the last with the buffer of the MTA, what
`Xcp_MtaInit` reads ahead and what it leaves of the stack.

**XcpDaqRun** has lists of one layout at work. `Event` is one event of a list:
for direction DAQ it takes buffers for the ODTs as long as there are any
(`DaqEvent`) and fills them entry by entry as far as XCP_MAX_DTO goes
(`Sampled`); for STIM it writes each packet that an ODT holds, entry by entry as
far as its bytes go (`StimEvent`, `Applied`), and frees it. `GetOdt` is the walk
of `Xcp_GetOdt`, on into the lists behind. FREE_DAQ and the commands that build
the lists anew come at any time, running lists included. `header` is the size of
the identification field, by which the run looks at several builds. The frames
carry what they should hold (`want`), computed from the memory at the event
without the MTA, for `SamplesTrue`; `SamplesInOrder` is about their order. `due`
remembers which packet is to be applied to each ODT: `PacketsInPlace` compares it
with the packets that the walk has left at the ODTs, `StimTrue` with what is written. The contexts are cooperative; their races are those of XcpCore.

**XcpDialogue** is a master and the slave over CAN or Ethernet. The slave has
the pages, the commands that read or switch them, the transport layer command
and `Xcp_Transmit` with the counter of the Ethernet header; between them commands
and frames are lost, refused and delivered twice. `Habits` are again what the
master takes care of: FLUSH_AFTER_ID (SYNCH after GET_SLAVE_ID, whose second
answer would pass for the next command's), DOUBT_PARTIAL (no belief in pages
after an error of SET_CAL_PAGE for all segments), DROP_REPEATED (a frame with the
counter seen last is not a new one). **PageRegisters** is what the master can
rely on: a command takes effect at most once between its call and its return,
and the result is that of the effect. `IsRegisters` is the refinement; of the
call in hand, `outcome` is what the slave did.

## 3. The runs

All action and state properties are in the modules next to the model, each with
a comment that states it.

| run | question | result |
|---|---|---|
| fifo | do the linked lists behave as sequences, for one buffer and for several? | holds |
| core_coop | cooperative scheduling, interrupts, STIM and DAQ, double answers, TRANSMIT_FAST, disconnects from either side: is the inductive invariant of the proofs right, is no buffer lost? | holds |
| core_preempt | a DAQ task and the main function preempt each other, block upload, a pool that short commands drain: one owner per buffer, no stale bytes, FIFO link; everything queued is handled, and sent under an assumption (below) | holds |
| core_sizing | is the pool size of README.txt:146-151 enough for a master that waits? | holds |
| core_stim_race | STIM with preemption | **double free** of `odt->XcpStim` |
| session | are keys assembled right, is the master's belief true, does a persistent master open what it needs? | holds |
| session_relock | does a session end with what it opened? | **no**, the reset is dead code |
| transfer | all transfers in turn, programming and texts too, worker and commands mixed, blocks resumed where the slave lost them; each job ends | holds |
| events | cooperative channel tasks, and commands in any order, lists freed while they run | holds |
| daq | static and predefined lists with absolute identification, dynamic lists with relative identification: built, filled in, used, freed, rebuilt | holds for a master with all habits |
| daq_run | sampling and stimulation at work, with STOP, FREE_DAQ and a new list at any time, a pool that runs out and frames that are refused | holds |
| dialogue | pages and transport over CAN and Ethernet with lost and repeated frames, lost commands, missing buffers; is each command one effect, does a lost frame show, does every call end? | holds for a master with all habits |

The rows in bold disagree with a sentence of the documentation or of a comment;
`findings` in `PROJECT.json` quote it and give the lines. Section 6 lists
further divergences, with configurations that reproduce them.

### Bounds, and why they are enough

* *Buffers* 2 or 3 in the runs of XcpCore: fewer than the contexts could hold at once except in
  core_sizing, so the pool runs full, partly used and empty. Buffers are
  symmetric in core_coop, which has no liveness property.
* *Contexts*: one receive interrupt, one DAQ and one STIM task, the main
  context. The code relates contexts through the queues only, in pairs; the
  proofs cover any number.
* *ODTs* 2 in core_coop, *upload frames* 2 in core_preempt: one more than the
  first, so that loops go round.
* *MaxFaults* 3 or 4 counts losses, missing buffers, early timeouts and changes
  of mind together: enough for a loss, a loss of the recovery, and one more.
  *SeedLens* 1 and 3 with *Chunk* 2 give exchanges of one frame and of two, the
  last one partial. *MaxJobs* 2 lets a job meet the remains of another.
* *Size* 9, *DownChunk*, *UpChunk*, *JobSizes* 2 and 5: blocks of one and of
  several frames with a partial last one, next to bytes that must not change,
  the last four of them FLASH. *Texts* has a name that fits into the response of
  GET_ID and one that needs an UPLOAD of two frames. The element size (address granularity) is 1.
* *Lists* 2, *Channels* 2 suffice for a list to move past another one and from
  channel to channel. *CounterMod* 5 with prescalers 1 and 3 has one that
  divides it and one that does not; in the code it is 256. *Fixings* looks at a
  configuration with a predefined list and at one with dynamic lists only.
* *MaxDaqs*, *MaxOdts*, *MaxEntries* 2: a neighbour for each list, ODT and entry.
  *HeapSize* is never exhausted in daq; daq_memory (section 6) has one that is.
* *Layouts* of daq_run: a list whose first ODT has an entry that does not fit
  and whose second crosses two ports and ends in a channel; a list that can be
  turned to STIM with an ODT of two entries and one of one. *Lengths* 1 and 3
  bring the first of two entries in part or all. *Buffers* 3 for two lists of
  two ODTs, calls and packets: it runs out. Two *Stores* let the application
  change everything between two events, *Junk* 0 and 255 is what the stack
  holds. *MaxCalls* 4 is enough to turn, start, stop and free a list, or to free,
  build, turn and start it.
* *Pages* of dialogue: two segments, the second with one page, so that a page
  can exist in the first and not in the second, and a segment number can be too
  large. *MaxRequests* 4 and *MaxFaults* 2: a call whose recovery fails as well,
  and the calls it could be mixed up with. *CtrMod* 3: two lost frames are one
  less than the counter has values; in the code it has 65536.

### Fairness

`Xcp_MainFunction` is scheduled cyclically by the OS, so it starts again and
again, strongly fair since with cooperative scheduling the tasks may disable it
in between, and a context that has started runs on (weak fairness). Receive
callbacks that have taken a buffer finish. The transport layer does not refuse
a frame for ever (strong fairness of `SendOk`). Nothing is assumed of when
packets arrive or which. `QueuedIsSent` has a premise, that the transmit part of
`Xcp_MainFunction` is reached again and again: the receive loop only ends when
the queue is empty, and the code does nothing to bound it. `ReceivedIsHandled`
needs no such premise. In XcpSession, XcpTransfer and XcpDialogue the slave's steps are
weakly fair for the same reason, and the master does not give up and notices its
timeouts. Faults are finitely many by their bound, and never fair.

Deadlock checking is off except for `fifo`: the slave rests when nothing is sent
to it, the masters stop when they have what they want, and XcpDaqConfig stops at
a bad access.

## 4. What is proved

A theorem holds for every value of the constants that meets the assumption of
its module (`EventAssumption`, `SessionAssumption`, ... say of what sort they are: sets
are finite, numbers positive, special values outside of the sets). Where a
theorem has a premise of its own, its section says which configuration shows that
it is needed, or that it is only the argument that needs it.

### Packet engine (XcpCoreProofs)

For every pool size, every set of receive contexts and lists, every mix of packets:

* `TypeCorrect`: `Spec => []TypeOK`. By itself `TypeOK` is not inductive: that
  `Head(reply)` exists, that `worker - 1` is not negative and that `pass` stays
  within the ODTs depends on the program points. The invariant is `TypeOK`
  with `Control`, which says what each program point holds.
* `Invariant`: `Spec => []IInv` under `Separate`, i.e. the contexts are
  cooperative or there are no STIM lists (core_stim_race shows that this is
  needed). `IInv` adds to it `Scheduled` (cooperative contexts do not overlap),
  `Exclusive`, `Contents` (what buffers carry in each queue) and `StimPacket`.
  `Exclusive` needs `Control`, to know that a local variable is empty when a
  buffer is taken into it, and `Scheduled`, to know that the pointer of an ODT
  does not dangle when another context reads it.
* `OnePlace`: `Spec => []Exclusive`, from `Invariant`.
* `NothingLost`: `Spec => []NoLeak`, if no truncated command is sent
  (core_lost_buffer shows that this is needed).
* `CleanBuffers`: `Spec => []NoStaleBytes`.
* `ImplementsLink`: `Spec => TxInOrder`, i.e. XcpCore implements FifoLink, with
  the frame that `Xcp_Transmit_Main` has in its hands in front of those of the
  transmit queue. `Exclusive` is what makes it true: a buffer that another
  context fills, frees or puts back is never one on its way. Queueing maps to
  `Accept`, an accepted `Xcp_Transmit` to `Deliver`, everything else, a refused
  transmission included, to no step.

The argument runs over an algebra of partitions (`Apart`, `Covered`): taking a
buffer from a queue into an empty slot and putting one from a slot into a queue
keep free, rx, tx and slots disjoint and complete (`TakeApart`, `PutApart`,
`HandApart`). Each action is then one of these operations (`IntactGetFree`, …)
with its own changes to the program points (`KeptRx`, `KeptDaq`, …).

### Event channels (XcpEventChannelsProofs)

For every set of lists and channels, prescalers, counter width and array size:

* `TypeCorrect`, `ReferencesMatch`: `Spec => []TypeOK` and `Spec => []RefsMatch`,
  preemption included. `RefsMatch` speaks of the moments between two commands only;
  the invariant `ArraysInv` says for every step of a command which entries are
  `Filled` and which lists are `Listed`: the list on its way is in no array, the
  array it leaves has one entry that counts for nothing, which moves to the end as
  the others are shifted, and what is appended is there before the count says so.
  `Holds` states it for an array without repetition; from it follows that an
  array has room for one more list (`RoomForOne`), so that the entry exists.
* `EveryEventComplete`, `PrescalersKept`, `CheckedIsSampled`: `EventComplete`,
  `PrescalerKept` and `[]SamplesRunning` for cooperative contexts; events_race
  and events_null show what preemption does to them. `CoopInv` adds `RunInv`
  (a run has sampled what it has passed and what was due, each list once, and no
  command moves the arrays meanwhile) and `AgesInv`: the age of a list and the
  counter of its channel are congruent modulo the prescaler, unless the counter
  has just wrapped to 0.

### DAQ sampling and STIM (XcpDaqRunProofs, QueueLemmas)

For every layout of the lists, every pool, header size and store:

* `TypeCorrect`, `BuffersInPlace`: `[]TypeOK` and `[]BuffersAccounted`. A count
  over the ODTs that hold a packet (`Waiting`) changes by one with a packet, by
  all those of a list with an event, by all with FREE_DAQ.
* `SamplesOrdered`: `Spec => SamplesInOrder`. Inductive with `InFlight`, `Stopped`,
  `Stopping` (which frames can still follow a STOP) and `InOrder`: each frame in
  the queue follows the one in front of it, the first the last one heard.
* `PacketsFound`: `Spec => []PacketsInPlace`, that each ODT holds the last packet
  that named it. `Xcp_GetOdt` numbers the ODTs of all lists one after the other;
  the walk is shown to arrive at the one named by induction over the numbers,
  which the lemmas take from the least counterexample (`LeastNumber`,
  `AllNumbers`).

### Sessions (XcpSessionProofs, QueueLemmas)

For every set of resources, all lengths of seeds and frames, any number of faults:

* `TypeCorrect`, `BeliefsTrue`: `[]TypeOK` and `[]BeliefTrue`, what the master
  believes to be open is open.
* `KeysWhole`: `Spec => KeysArriveWhole`, an action property: the parts of a
  key that are taken add up to the key of the last seed, and with the last one
  the resource is unlocked.

`BeliefTrue` is not inductive: an answer that is late may be taken for that of
a later command. What keeps it true is which frames can be under way together, so
the invariant speaks of the channels. While the master waits, its command or
the answer is on the way and nothing older; while it resynchronises, everything
older is in front of the one answer to SYNCH, and is thrown away (`Waiting`,
`Pipe`). Hence each answer belongs to the exchange the master is in, and the
bytes both sides count agree (`Seeds`, `Keys`), and a status that is late still
says too little rather than too much is open (`Statuses`).

### Transfers (XcpTransferProofs, QueueLemmas)

For every size of memory, read-only area, size of frames, texts and jobs, and
any number of faults:

* `TypeCorrect`: `[]TypeOK`, with it that the worker of UPLOAD is installed exactly
  while bytes remain.
* `BlocksIntact`: `Spec => BlockIntact`, an action property: a DOWNLOAD that was
  answered is in memory, and the bytes that PROGRAM has counted are those of the
  block, each once and in order.
* `WritesInside`: `Spec => WritesStayInside`, nothing but the area of the block in
  hand is written.
* `UploadsIntact`: `Spec => UploadIntact`, what the master has got by UPLOAD,
  SHORT_UPLOAD, GET_ID or GET_DAQ_EVENT_INFO is what is in memory.

The premise is `Resume`, a master that takes a block up where ERR_SEQUENCE says that
the slave is. `BlockIntact` is wrong without it (transfer_restart). The others
have it because they share the invariant; TLC finds them to hold on the instance
of run transfer without it as well, which is not proved.

None of the four is inductive: a wrong byte would be on its way, and a counter
wrong, long before the memory or the master had it. The invariant `IInv` is `Typed`, `Staged` (what each stage of the
master implies for the counters of the slave, so that those of an earlier job are 0
when the next begins), and what is under way:

* `Going`: a job that is not a block has one command or its answer on the way,
  never both. The frames of a block come in the order of their bytes, each with
  the count of bytes that it leaves to come (`Frame`); the one that opens the block is
  there only while the slave expects nothing.
* `Has(Total - Left)` in `Staged`: the slave takes only the frame that continues
  what it has, so that as long as it expects more it has the start of the block at
  its place; hence all of it with the last frame, whatever was repeated.
* `Coming`: each answer on its way is right about where the slave is. A RES is
  that of a finished block, an ERR_SEQUENCE one from which the block can be taken
  up (`Retried`), and a refusal means that the slave takes nothing of this job (`Stuck`).
* `Arriving`: the frames of an upload, counted from the bytes that the master has,
  never bring more than was asked for, and are the memory in its order as long as
  none of them is missing. Once one is, the count never reaches the total, and
  the master does not take them for the whole. The offsets are a witness `o`
  that each step changes with the queue, which stands in for a recursive sum.

### Calibration pages and transport (XcpDialogueProofs, QueueLemmas)

For all segments, pages, requests and ranges of the counter, and any number of faults:

* `TypeCorrect`: `[]TypeOK`.
* `PagesAreKnown`: `[]PagesKnown`, what the master takes for the page of a segment is
  its page.
* `ImplementsRegisters`: `Spec => IsRegisters`, i.e. XcpDialogue implements
  PageRegisters: handling a command maps to its effect, the master's going idle to the
  return, a command that is lost or an answer that is dropped to no step.
* `LossesShow`: `Spec => LossShows`, for *every* master, if less goes wrong than the
  counter has values (`MaxFaults < CtrMod`; a loss of as many frames as that cannot show).

The first three have the premise `Careful`: the master sends SYNCH after GET_SLAVE_ID
(dialogue_id) and drops a frame whose number it has seen last, and commands
do not arrive twice (dialogue_udp). `PagesAreKnown` asks for DOUBT_PARTIAL as well
(dialogue_partial).

As in a session, what is under way together decides: `Calling` (a command on its
way has no outcome yet), `Arriving` (each frame that the master can still hear is a copy
of the one it heard last, or an answer to the call in hand, and one that makes the
master go idle has nothing but its own copies behind it), `Told` (the outcome of the
call in hand is true of the pages) and `Knows` (what is believed is so, but for what
the call in hand changes). `LossesShow` has an invariant of its own (`NInv`): the
numbers of the frames in the air, counted on past the end of the counter, climb from
the one heard last; copies share one, and what the numbers leave out is no more than
the faults. So the first frame behind a loss is more than one ahead of the frame heard
last, and less than the counter's whole range.

### DAQ list configuration (XcpDaqConfigProofs)

For every number of lists, ODTs and entries, and every master with all habits:
`AccessesGood` (`NoBadAccess`), `CountersMatch` (`CountsMatch`), `ListsSampled`
(`AllSampled`) and `IdentifiedApart` (`OdtsIdentified`), with the premises

* `SoundSetups`: the configuration counts its ODTs right (daq_uncounted shows what
  happens otherwise), and no dynamic lists behind predefined ones (daq_predefined);
* `[]Room`: the heap has room for what one command asks for (daq_memory). In run
  daq it always has;
* `Habits = AllHabits`: daq_write_end, daq_ptr_range and daq_skipped show what a
  master without POINTER, RANGES or FILLED meets;
* for `IdentifiedApart`, static lists have absolute and dynamic ones relative
  identifications (daq_pid_relative, daq_pid_absolute).

The invariant is `Chains` (the counters of each list and ODT are those of its
chain, a list that runs is filled in, and the valid count of an ODT is no less than
its entries with something in them; it is not exact, as daq_valid shows, but that
is all `Xcp_ProcessDaq` needs to reach them), `Pointer` (`Xcp_DaqState` leads to an entry
that is there, with as many behind it as it says, or is not used), `Block` (what
FREE_DAQ frees is what ALLOC_DAQ linked in) and `Numbered` (an identification is the
one given at the start or by ALLOC_ODT).

### Model-checked only

* Liveness: `ReceivedIsHandled`, `QueuedIsSent`, `GoalReached`, `JobsEnd`, `CallEnds`.
  Fairness and ENABLED are beyond the prover.
* What a fold or a recursive function computes from data, which needs induction
  over the data (an induction over numbers, as for `Xcp_GetOdt`, does not):
  `QueuesAreSequences` (along the list), `SamplesTrue` and `StimTrue` (bytes of
  entries joined to a frame), `ChecksumTrue`, `NothingLeaks` (objects of all lists).
* `PoolSuffices` is about one size of the pool for one mix of contexts.

## 5. Abstractions

* Bytes of frames are abstract in XcpCore. Layout, formatting and debug output
  are not modelled; nor is the DET's reporting.
* In XcpCore the content of a STIM packet, and which ODT it goes to, is its
  packet class; XcpDaqRun has both.
* In XcpDaqRun the answers to STIM packets are awaited before the next call, a
  list's layout does not change when it is rebuilt, and the value of a timestamp
  is left out (its bytes in the frame are not). XCP_IDENTIFICATION is 1 or 2
  bytes; the other two values differ in the size of the field only.
* In XcpDialogue what GET_SEGMENT_INFO and the other information commands read is
  configuration: only the number of pages has a value.
* The counter of received datagrams is compared and logged, nothing else: it is
  left out.
* The transport either accepts or refuses a frame at `Xcp_Transmit`; loss
  behind it is in the channels of XcpSession and XcpTransfer.
* Lost frames are those at the head of a channel, so losses do not reorder.
* A master's answer timeout in XcpTransfer is longer than a transfer: an early
  SYNCH during an upload is answered ahead of the remaining frames of the
  upload, which a master then has no means to tell from those of a new one. In
  XcpSession timeouts may be early.
* Memory locations are bytes; reads past the model's memory yield 0.
* Configuration that the code never changes at run time is constants.

## 6. Further divergences

The models show more places where the code does something else than a comment
or document says. Each has a configuration next to the runs that makes TLC
print the steps (`tlc -config events_null.cfg XcpEventChannels`, and so on):

| configuration | module | what TLC shows |
|---|---|---|
| core_lost_buffer | MCXcpCore | a command shorter than its entry in `Xcp_CmdList` leaves the receive loop by `return` (Xcp.c:1813): its buffer is lost |
| core_disconnect | MCXcpCore | `Xcp_Disconnect` ends the session while its event is still queued, although "make sure event is transmitted directly" (Xcp.c:324) |
| transfer_restart | XcpTransfer | SET_MTA does not reset `Xcp_Download.rem` (Xcp.c:612): a block restarted from SET_MTA whose first frame is lost is accepted from a later frame, at the wrong place, and answered as complete |
| events_race | XcpEventChannels | with preemption a list that runs is missed while another one is moved (Xcp.c:984) |
| events_null | XcpEventChannels | with preemption the second read of the entry (Xcp.c:268) gives NULL |
| events_limits, with `-continue` | XcpEventChannels | a list is appended behind the end of the channel's array (`WithinCapacity`, Xcp.c:993); SET_DAQ_LIST_MODE takes a prescaler of 0 (Xcp.c:1051), by which `Xcp_ProcessChannel` divides (`NoTrap`, Xcp.c:266) |
| daq_write_end | MCXcpDaqConfig | WRITE_DAQ without a pointer follows NULL before it checks for it (Xcp.c:912) |
| daq_ptr_range | MCXcpDaqConfig | SET_DAQ_PTR walks before it checks the range (Xcp.c:876, 894) |
| daq_memory | MCXcpDaqConfig | after a failed malloc in ALLOC_ODT_ENTRY the counter says more than the chain (Xcp.c:1487); FREE_DAQ follows the counter |
| daq_predefined | MCXcpDaqConfig | ALLOC_DAQ behind predefined lists writes in front of its block (Xcp.c:1396) |
| daq_valid | MCXcpDaqConfig | ALLOC_ODT_ENTRY counts empty entries as valid (Xcp.c:1510) |
| daq_skipped, daq_uncounted | MCXcpDaqConfig | a list whose first ODT is empty, and a static list filled in by the master, are never sent (Xcp.c:209-211) |
| daq_pid_relative, daq_pid_absolute | MCXcpDaqConfig | ODTs that share an identification (Xcp.c:97, 1451) |
| stim_leak | MCXcpDaqRun | FREE_DAQ frees an ODT with the STIM packet it holds (Xcp.c:1306): the buffer is lost |
| stim_short | MCXcpDaqRun | for a STIM packet shorter than its identification field the uint8 length wraps (Xcp.c:183): bytes from behind the packet are written |
| stim_port | MCXcpDaqRun | what is written to a DIO port of two bytes is not what arrives: `Xcp_MtaPutDioPort` shifts by the offset in bytes, not in bits, and flushes after the first byte, and the last flush is of the port behind (Xcp_Memory.c:103-111, 92-97); README.txt says "port 5 is at memory address 5 * sizeof(Dio_PortLevelType)" |
| dialogue_id | MCXcpDialogue | the second answer of GET_SLAVE_ID (XcpOnCan.c:184) is taken for that of the next command |
| dialogue_partial | MCXcpDialogue | SET_CAL_PAGE for all segments reports an error after it has switched some (Xcp.c:698-709) |
| dialogue_gap | MCXcpDialogue | a frame that was refused and sent again leaves a gap in the counter, as a lost one does (XcpOnEth.c:97) |
| dialogue_udp | MCXcpDialogue | a command that UDP delivers twice is executed and answered twice, since the counter of received datagrams has no effect (XcpOnEth.c:58-62) |

With `XcpEventChannelCounter` at its wrap to 0 a prescaler that does not divide
256 sees one short interval (Xcp.c:266). `PrescalerKept` in run events states
the interval with this exception.

STIM packets that an ODT holds stay there when the list is stopped or turned, and
are applied by the first event after it runs again in direction STIM; `StimTrue`
allows that, the last packet for an ODT being the one that counts.

ALLOC_DAQ a second time without FREE_DAQ unlinks the lists it made before
without taking them out of the event channels; XcpEventChannels has a master
that frees its lists first.

## 7. Not modelled, and the plan

Every component of the slave has a module. What is left out of them:

* GET_DAQ_CLOCK and the commands that describe lists, resolution and processor
  (`Xcp_CmdGetDaqProcessorInfo` and so on) read state and format it: one answer
  each in XcpCore, without its content.
* The limits on element size and bit offset of an entry in WRITE_DAQ.
* The counter of received datagrams and the length field of the Ethernet
  header.
* The AUTOSAR interfaces below (CanIf, SoAdIf, Dio, Det, the critical sections of
  McuE), which appear as what the code assumes of them; the Windows DLL; the
  build description; types and feature switches, which are the models'
  constants.
* A channel task that preempts FREE_DAQ and samples what is being freed: XcpCore's
  lists are static, XcpEventChannels stops at the reference to the list.

Worth doing next: an abstract specification of a transfer, in which a block
appears as a whole, that XcpTransfer implements; today `BlockIntact` says as
much of the moment at which a block is answered.
