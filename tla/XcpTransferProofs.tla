------------------------- MODULE XcpTransferProofs -------------------------
(***************************************************************************)
(* Proofs about XcpTransfer, for every size of memory, frames and jobs and *)
(* any number of faults, with a master that takes a block up where the     *)
(* slave lost it (transfer_restart shows why).                             *)
(*                                                                         *)
(* The argument is about what is under way.  A job that is not a block has *)
(* one command or its answers on the way, never both.  The frames of a     *)
(* block come in the order of its bytes, and the slave takes those only    *)
(* that continue what it has; so all of the block is there when the last   *)
(* one is taken.  The frames of an upload bring fewer bytes than asked for *)
(* as soon as one is missing, and then the master does not take them.      *)
(***************************************************************************)
EXTENDS XcpTransfer, QueueLemmas

-----------------------------------------------------------------------------
(* The invariant                                                           *)

\* The kinds of job that go block by block, and those that an UPLOAD ends.
Blockwise == {"DOWNLOAD", "PROGRAM"}
Bytewise == {"UPLOAD"} \cup TextJobs

Kind == master.job.kind
Block == master.job.addr..master.job.addr + Total - 1

\* The bytes that the slave still expects of a block.
Left == IF Kind = "DOWNLOAD" THEN downRem ELSE program.rem

\* The slave has p bytes of the block and waits for the next at their end.
Has(p) ==
  IF Kind = "DOWNLOAD"
  THEN /\ mta = [addr |-> master.job.addr + p, ext |-> "MEMORY"] /\ master.job.addr \notin ReadOnly
       /\ \A i \in 1..p : memory[master.job.addr + i - 1] = master.job.data[i]
  ELSE Len(program.counted) = p /\ \A i \in 1..p : program.counted[i] = master.job.data[i]

\* The slave takes nothing of the job.
Stuck == /\ Left = 0
         /\ Kind = "DOWNLOAD" => mta.ext # "MEMORY"
         /\ Kind = "PROGRAM" => ~program.started

\* The MTA is where the job wants it.
OnJob == mta = [addr |-> master.job.addr, ext |-> IF Kind \in TextJobs THEN "MEMORY" ELSE Extension(master.job.addr)]

InBlock == Kind \in Blockwise /\ master.stage \in {"run", "answer", "refused"}
Uploading == Kind \in Bytewise /\ master.stage = "answer" /\ ~master.sync

\* A frame of the block.
Frame(c) ==
  /\ c.rem \in 1..Total /\ c.data \in Seq(0..255)
  /\ c.cmd = IF c.rem = Total THEN Kind ELSE NextOf[Kind]
  /\ Len(c.data) >= Least(DownChunk, c.rem) /\ (c.rem > DownChunk => Len(c.data) = DownChunk)
  /\ \A i \in 1..Least(DownChunk, c.rem) : c.data[i] = master.job.data[Total - c.rem + i]

\* The command that is not part of a block.
Call ==
  CASE master.stage = "answer" /\ Kind \in Bytewise -> [cmd |-> "UPLOAD", size |-> Total]
    [] master.stage = "answer" /\ Kind = "CHECKSUM" -> [cmd |-> "BUILD_CHECKSUM", size |-> Total]
    [] OTHER -> Opening(master.job, Total)

\* An answer to it.
Result(e) ==
  \/ e.kind = "RES" /\ master.stage = "open" /\ Kind \notin TextJobs /\ (Kind # "PROGRAM" => OnJob)
  \/ e.kind = "LENGTH" /\ master.stage = "open" /\ Kind \in TextJobs /\ OnJob
  \/ /\ e.kind = "DATA" /\ (master.stage = "open" \/ (master.stage = "answer" /\ Kind = "SHORT_UPLOAD"))
     /\ e.data = Slice(master.job.addr, Total) /\ Kind \in TextJobs \cup {"SHORT_UPLOAD"}
  \/ e.kind = "SUM" /\ master.stage = "answer" /\ Kind = "CHECKSUM"
  \/ e.kind \in Refusals /\ master.stage = "answer"

\* What the slave holds, what the master remembers, and its job.
Held ==
  /\ memory \in [Addrs -> 0..255]
  /\ mta = [addr |-> mta.addr, ext |-> mta.ext] /\ mta.addr \in 0..Size + 1 /\ mta.ext \in {"NULL", "MEMORY", "FLASH"}
  /\ downRem \in 0..Size /\ upRem \in 0..Size
  /\ program \in [started : BOOLEAN, rem : 0..Size, counted : Seq(0..255)]
  /\ worker = (upRem > 0) /\ faults \in 0..MaxFaults

Minded ==
  /\ master = [job |-> master.job, stage |-> master.stage, pos |-> master.pos, got |-> master.got,
               sync |-> master.sync, rem |-> master.rem, done |-> master.done]
  /\ master.stage \in {"idle", "start", "open", "run", "answer", "refused"}
  /\ master.pos \in Nat /\ master.sync \in BOOLEAN /\ master.rem \in Nat /\ master.done \in Nat
  /\ ~master.sync => master.rem = 0

JobGood ==
  master.stage # "idle" =>
    /\ master.job \in [kind : JobKinds, addr : Addrs, data : Seq(0..255)]
    /\ Total \in 1..Size /\ master.job.addr + Total - 1 <= Size
    /\ Kind \notin TextJobs => Block \subseteq ReadOnly \/ Block \cap ReadOnly = {}

Typed == Held /\ Minded /\ JobGood /\ IsSequence(toSlave) /\ IsSequence(toMaster)

\* The stages and what they allow.
Staged ==
  /\ master.stage \in {"idle", "start"} \/ (master.stage = "run" /\ (Kind \notin Blockwise \/ master.pos = 0))
       => ~master.sync /\ toSlave = <<>> /\ toMaster = <<>>
  /\ master.stage = "run" /\ Kind \notin Blockwise => OnJob /\ Kind \in Bytewise \cup {"CHECKSUM"}
  /\ master.stage = "run" /\ Kind \in Blockwise /\ master.pos = 0 => Left = 0 /\ (Kind = "DOWNLOAD" => OnJob)
  /\ master.stage = "open" => Kind \notin {"SHORT_UPLOAD", "PROGRAM_CLEAR", "PROGRAM_RESET"}
  /\ master.stage \in {"start", "open"} => master.pos = 0
  /\ master.stage = "refused" => master.sync /\ master.rem = 0
  /\ Kind \notin Blockwise /\ (master.stage \in {"open", "run"} \/ (master.stage = "answer" /\ Kind \notin Bytewise))
       => master.got = <<>>
  /\ upRem > 0 => Uploading /\ toSlave = <<>>
  /\ downRem > 0 => Kind = "DOWNLOAD" /\ master.stage \in {"run", "answer"}
  /\ program.rem > 0 => Kind = "PROGRAM" /\ master.stage \in {"run", "answer"} /\ program.started
  /\ Kind \in Blockwise /\ Left > 0 => Left + DownChunk <= Total /\ Has(Total - Left)

\* No first frame of a block is on its way.
NoFirst == \A i \in DOMAIN toSlave : toSlave[i].cmd # Kind

\* The block can be taken up where the slave lost it, or else from the start.
Retried(r) == r \in 1..Total - 1 \/ (Left = 0 /\ NoFirst)

\* What is on the way to the slave.
Going ==
  /\ \A i \in DOMAIN toSlave :
       \/ toSlave[i] = [cmd |-> "SYNCH"] /\ master.sync /\ i = Len(toSlave)
       \/ InBlock /\ Frame(toSlave[i]) /\ (master.sync => i < Len(toSlave))
       \/ /\ ~InBlock /\ ~master.sync /\ master.stage \in {"open", "answer"}
          /\ Len(toSlave) = 1 /\ toMaster = <<>> /\ toSlave[i] = Call
          /\ master.stage = "answer" /\ Kind \in Bytewise \cup {"CHECKSUM"} => OnJob
  /\ InBlock => \A i \in DOMAIN toSlave : toSlave[i].cmd # "SYNCH" =>
       /\ \A j \in DOMAIN toSlave : i < j /\ toSlave[j].cmd # "SYNCH" => toSlave[i].rem >= toSlave[j].rem + DownChunk
       /\ toSlave[i].rem = Total => Left = 0 /\ (Kind = "DOWNLOAD" => OnJob)
       /\ master.stage = "run" /\ ~master.sync => toSlave[i].rem >= (Total - master.pos) + DownChunk
  /\ InBlock /\ master.stage = "run" /\ ~master.sync => master.pos < Total

\* An answer to a frame of a block, number i on its way.
OfBlock(i) ==
  LET e == toMaster[i]
  IN \/ e.kind = "RES" /\ i = Len(toMaster) /\ toSlave = <<>> /\ master.stage = "answer" /\ Left = 0 /\ Has(Total)
     \/ e.kind = "ERR_SEQUENCE" /\ e.rem \in Nat /\ Retried(e.rem)
     \/ e.kind \in Refusals /\ Stuck

\* What is on the way to the master.
Coming ==
  /\ ~master.sync /\ InBlock => \A i \in DOMAIN toMaster : OfBlock(i)
  /\ ~master.sync /\ ~InBlock /\ ~Uploading => \A i \in DOMAIN toMaster :
       i = Len(toMaster) /\ i = 1 /\ toSlave = <<>> /\ Result(toMaster[i])
  /\ master.sync =>
       /\ master.stage = "refused" => Stuck
       /\ Kind \in Blockwise /\ master.stage # "refused" => Retried(master.rem)
       /\ Kind \notin Blockwise => master.rem = 0
       /\ \A i \in DOMAIN toMaster : toMaster[i].kind = "ERR_SYNCH" => i = Len(toMaster) /\ toSlave = <<>>

\* The bytes the slave still has to read.
Unread == IF toSlave = <<>> THEN upRem ELSE Total

\* Up to frame i on its way, o[i] bytes have been read since the job was asked
\* for; and if none is missing, they are those of the block in their order.
Arriving(o) ==
  /\ master.got \in Seq(0..255) /\ o[0] = Len(master.got)
  /\ \A i \in 0..Len(toMaster) : o[i] \in Nat
  /\ \A i \in 1..Len(toMaster) : /\ toMaster[i].kind = "DATA" /\ toMaster[i].data \in Seq(0..255)
                                 /\ o[i] = o[i - 1] + Len(toMaster[i].data)
  /\ \A i, j \in 0..Len(toMaster) : i < j => o[i] < o[j]
  /\ o[Len(toMaster)] + Unread <= Total /\ mta.addr + Unread <= master.job.addr + Total
  /\ o[Len(toMaster)] + Unread = Total =>
       /\ mta.addr = master.job.addr + o[Len(toMaster)]
       /\ \A j \in 1..o[0] : master.got[j] = memory[master.job.addr + j - 1]
       /\ \A i \in 1..Len(toMaster) : \A j \in 1..Len(toMaster[i].data) :
            toMaster[i].data[j] = memory[master.job.addr + o[i - 1] + j - 1]

IInv == Typed /\ Staged /\ Going /\ Coming /\ (Uploading => \E o : Arriving(o))


-----------------------------------------------------------------------------
(* Values                                                                  *)

LEMMA Constants ==
  /\ Size \in Nat \ {0} /\ DownChunk \in Nat \ {0} /\ UpChunk \in Nat \ {0} /\ Inline \in Nat
  /\ MaxJobs \in Nat /\ MaxFaults \in Nat /\ JobSizes \subseteq Addrs /\ ReadOnly \subseteq Addrs
  /\ JobKinds \subseteq MemoryJobs \cup TextJobs \cup ProgramJobs
BY TransferAssumption

LEMMA LeastOf ==
  \A i, j \in Nat : /\ Least(i, j) \in Nat /\ Least(i, j) <= i /\ Least(i, j) <= j
                    /\ Least(i, j) = i \/ Least(i, j) = j
BY DEF Least

LEMMA JobFacts ==
  ASSUME Typed, master.stage # "idle"
  PROVE  /\ Kind \in MemoryJobs \cup TextJobs \cup ProgramJobs
         /\ Kind \in {"DOWNLOAD", "UPLOAD", "CHECKSUM", "SHORT_UPLOAD", "GET_ID", "GET_DAQ_EVENT_INFO",
                      "PROGRAM", "PROGRAM_CLEAR", "PROGRAM_RESET"}
         /\ master.job.addr \in 1..Size /\ master.job.data \in Seq(0..255)
         /\ Total \in 1..Size /\ master.job.addr + Total - 1 <= Size /\ Len(master.job.data) = Total
BY Constants DEF Typed, JobGood, Kind, Total, Addrs, MemoryJobs, TextJobs, ProgramJobs

LEMMA MasterFields ==
  ASSUME Typed
  PROVE  /\ master.stage \in {"idle", "start", "open", "run", "answer", "refused"}
         /\ master.pos \in Nat /\ master.sync \in BOOLEAN /\ master.rem \in Nat /\ master.done \in Nat
         /\ ~master.sync => master.rem = 0
BY DEF Typed, Minded

LEMMA SliceType ==
  ASSUME memory \in [Addrs -> 0..255], NEW a \in Nat, NEW n \in Nat
  PROVE  /\ Slice(a, n) \in Seq(0..255) /\ Len(Slice(a, n)) = n
         /\ \A i \in 1..n : a + i - 1 \in Addrs => Slice(a, n)[i] = memory[a + i - 1]
<1>1. \A i \in 1..n : (IF a + i - 1 \in Addrs THEN memory[a + i - 1] ELSE 0) \in 0..255
  OBVIOUS
<1>2. Slice(a, n) \in [1..n -> 0..255]
  BY <1>1 DEF Slice
<1>3. Slice(a, n) \in Seq(0..255)
  BY <1>2
<1>4. Len(Slice(a, n)) = n
  BY <1>2, <1>3, LenProperties
<1>. QED  BY <1>3, <1>4 DEF Slice

\* What becomes of an answer.
LEMMA AnswerIs ==
  ASSUME Typed, NEW e, Answer(e)
  PROVE  /\ faults' \in 0..MaxFaults /\ toMaster' \in {toMaster, Append(toMaster, e)}
         /\ IsSequence(toMaster')
<1>1. faults \in 0..MaxFaults /\ IsSequence(toMaster)
  BY DEF Typed, Held
<1>2. faults' \in 0..MaxFaults /\ toMaster' \in {toMaster, Append(toMaster, e)}
  BY <1>1, Constants DEF Answer, Queued, Unqueued, Fault
<1>3. IsSequence(Append(toMaster, e))
  BY <1>1, Pushed
<1>. QED  BY <1>1, <1>2, <1>3

LEMMA CallCmd ==
  ASSUME Typed, master.stage \in {"open", "answer"}
  PROVE  /\ Call.cmd \notin {"DOWNLOAD", "DOWNLOAD_NEXT", "PROGRAM", "PROGRAM_NEXT", "SYNCH"}
         /\ Call.cmd = "UPLOAD" => master.stage = "answer" /\ Kind \in Bytewise /\ Call = [cmd |-> "UPLOAD", size |-> Total]
         /\ Call.cmd = "BUILD_CHECKSUM" =>
              master.stage = "answer" /\ Kind = "CHECKSUM" /\ Call = [cmd |-> "BUILD_CHECKSUM", size |-> Total]
         /\ Call.cmd = "SET_MTA" => /\ Kind \in {"DOWNLOAD", "UPLOAD", "CHECKSUM"}
                                    /\ Call = [cmd |-> "SET_MTA", addr |-> master.job.addr, ext |-> Extension(master.job.addr)]
         /\ Call.cmd = "PROGRAM_START" => Kind = "PROGRAM"
         /\ Call.cmd \in {"PROGRAM_CLEAR", "PROGRAM_RESET"} => Kind = Call.cmd
         /\ Call.cmd \in {"SHORT_UPLOAD", "GET_ID", "GET_DAQ_EVENT_INFO"} =>
              /\ Kind = Call.cmd
              /\ Call = [cmd |-> Kind, addr |-> master.job.addr, size |-> Total, ext |-> Extension(master.job.addr)]
BY JobFacts DEF Call, Opening, Bytewise, TextJobs, Kind, Total

LEMMA FrameCmd ==
  ASSUME NEW c, Kind \in Blockwise, Frame(c)
  PROVE  /\ c.cmd \in {"DOWNLOAD", "DOWNLOAD_NEXT", "PROGRAM", "PROGRAM_NEXT"}
         /\ c.cmd \in {"DOWNLOAD", "DOWNLOAD_NEXT"} <=> Kind = "DOWNLOAD"
         /\ c.cmd = Kind <=> c.rem = Total
         /\ c.cmd \in {"DOWNLOAD", "PROGRAM"} <=> c.rem = Total
BY DEF Frame, Blockwise, NextOf

-----------------------------------------------------------------------------
(* What the slave finds                                                    *)

\* The command taken from the queue, and those behind it.
LEMMA Taken ==
  ASSUME IsSequence(toSlave), toSlave # <<>>, toSlave' = Tail(toSlave)
  PROVE  /\ IsSequence(toSlave') /\ Command = toSlave[1] /\ 1 \in DOMAIN toSlave
         /\ Len(toSlave) \in Nat \ {0} /\ Len(toSlave') = Len(toSlave) - 1
         /\ DOMAIN toSlave = 1..Len(toSlave) /\ DOMAIN toSlave' = 1..Len(toSlave) - 1
         /\ \A i \in DOMAIN toSlave' : i + 1 \in DOMAIN toSlave /\ toSlave'[i] = toSlave[i + 1]
         /\ toSlave' = <<>> <=> Len(toSlave) = 1
<1>1. IsSequence(toSlave')
  BY Popped
<1>2. toSlave' = <<>> <=> Len(toSlave') = 0
  BY <1>1, Nonempty
<1>. QED  BY <1>1, <1>2, Popped DEF Command

\* A call is alone on the way.
LEMMA Called ==
  ASSUME IInv, NEW cmd, Handle(cmd), cmd \notin {"DOWNLOAD", "DOWNLOAD_NEXT", "PROGRAM", "PROGRAM_NEXT", "SYNCH"}
  PROVE  /\ Command = Call /\ Call.cmd = cmd /\ toSlave' = <<>> /\ toMaster = <<>> /\ ~InBlock /\ ~master.sync
         /\ master.stage \in {"open", "answer"} /\ Len(toSlave) = 1 /\ toSlave # <<>>
         /\ master.stage = "answer" /\ Kind \in Bytewise \cup {"CHECKSUM"} => OnJob
         /\ upRem = 0 /\ downRem = 0 /\ program.rem = 0
<1>1. /\ Command = toSlave[1] /\ 1 \in DOMAIN toSlave /\ Command.cmd = cmd /\ toSlave # <<>>
      /\ toSlave' = <<>> <=> Len(toSlave) = 1
  BY Taken DEF IInv, Typed, Handle
<1>2. ~(InBlock /\ Frame(toSlave[1]))
  BY <1>1, FrameCmd DEF InBlock
<1>3. toSlave[1] # [cmd |-> "SYNCH"]
  BY <1>1
<1>4. /\ ~InBlock /\ ~master.sync /\ master.stage \in {"open", "answer"}
      /\ Len(toSlave) = 1 /\ toMaster = <<>> /\ toSlave[1] = Call
      /\ master.stage = "answer" /\ Kind \in Bytewise \cup {"CHECKSUM"} => OnJob
  BY <1>1, <1>2, <1>3 DEF IInv, Going
<1>5. upRem = 0 /\ downRem = 0 /\ program.rem = 0
  BY <1>1, <1>4 DEF IInv, Staged, InBlock, Blockwise, Typed, Held
<1>. QED  BY <1>1, <1>4, <1>5

\* A frame is part of the block.
LEMMA Framed ==
  ASSUME IInv, NEW cmd, Handle(cmd), cmd \in {"DOWNLOAD", "DOWNLOAD_NEXT", "PROGRAM", "PROGRAM_NEXT"}
  PROVE  /\ InBlock /\ Frame(Command) /\ Command = toSlave[1] /\ Command.cmd = cmd /\ 1 \in DOMAIN toSlave
         /\ toSlave # <<>> /\ toSlave' = Tail(toSlave)
         /\ Command.rem = Total => Left = 0 /\ (Kind = "DOWNLOAD" => OnJob)
<1>1. Command = toSlave[1] /\ 1 \in DOMAIN toSlave /\ Command.cmd = cmd /\ toSlave # <<>> /\ toSlave' = Tail(toSlave)
  BY Taken DEF IInv, Typed, Handle
<1>2. toSlave[1] # [cmd |-> "SYNCH"]
  BY <1>1
<1>3. ~(master.stage \in {"open", "answer"} /\ toSlave[1] = Call)
  BY <1>1, CallCmd DEF IInv
<1>4. InBlock /\ Frame(Command)
  BY <1>1, <1>2, <1>3 DEF IInv, Going
<1>. QED  BY <1>1, <1>4 DEF IInv, Going

-----------------------------------------------------------------------------
(* Single commands                                                         *)

\* A command that is answered once and alone on the way leaves its answer
\* alone on the way.
LEMMA SingleStep ==
  ASSUME IInv, toSlave' = <<>>, toMaster = <<>>, ~InBlock, ~master.sync, ~Uploading,
         master.stage \in {"open", "answer"}, upRem = 0, downRem = 0, program.rem = 0,
         NEW e, Answer(e), Result(e)',
         UNCHANGED <<memory, downRem, upRem, worker, master>>,
         mta' \in [addr : 0..Size + 1, ext : {"NULL", "MEMORY", "FLASH"}],
         program' = program \/ program' = [program EXCEPT !.started = TRUE]
  PROVE  IInv'
<1>1. Typed'
  <2>1. program' \in [started : BOOLEAN, rem : 0..Size, counted : Seq(0..255)]
    <3>1. program \in [started : BOOLEAN, rem : 0..Size, counted : Seq(0..255)]
      BY DEF IInv, Typed, Held
    <3>2. CASE program' = program
      BY <3>1, <3>2
    <3>3. CASE program' = [program EXCEPT !.started = TRUE]
      BY ONLY <3>1, <3>3
    <3>. QED  BY <3>2, <3>3
  <2>2. Held'
    BY <2>1, AnswerIs DEF IInv, Typed, Held
  <2>3. IsSequence(toSlave') /\ IsSequence(toMaster')
    BY AnswerIs, EmptySeq DEF IInv, IsSequence
  <2>. QED  BY <2>2, <2>3 DEF IInv, Typed, Minded, JobGood, Kind, Total, Block
<1>2. program'.rem = 0
  BY DEF IInv, Typed, Held
<1>3. Staged'
  BY <1>2 DEF IInv, Staged, Kind, Left, Uploading, InBlock
<1>4. Going'
  BY DEF Going, InBlock, Kind
<1>5. Coming'
  <2>1. \A i \in DOMAIN toMaster' : i = Len(toMaster') /\ i = 1 /\ toMaster'[i] = e
    <3>1. toMaster' \in {toMaster, Append(toMaster, e)} /\ IsSequence(toMaster) /\ Len(toMaster) = 0
      BY AnswerIs DEF IInv, Typed
    <3>2. DOMAIN toMaster = {}
      BY <3>1, Nonempty
    <3>3. /\ DOMAIN Append(toMaster, e) = {1} /\ Append(toMaster, e)[1] = e
          /\ Len(Append(toMaster, e)) = 1
      BY <3>1, PushedFirst, Pushed
    <3>. QED  BY <3>1, <3>2, <3>3
  <2>. QED  BY <2>1 DEF Coming, InBlock, Kind
<1>6. ~Uploading'
  BY DEF Uploading, Kind
<1>. QED  BY <1>1, <1>3, <1>4, <1>5, <1>6 DEF IInv

\* What a call is, and what it leads to, is known before the slave takes it.
LEMMA CallStep ==
  ASSUME IInv, NEW cmd, Handle(cmd), cmd \notin {"DOWNLOAD", "DOWNLOAD_NEXT", "PROGRAM", "PROGRAM_NEXT", "SYNCH", "UPLOAD"},
         NEW e, Answer(e), Result(e)', UNCHANGED <<memory, downRem, upRem, worker>>,
         mta' \in [addr : 0..Size + 1, ext : {"NULL", "MEMORY", "FLASH"}],
         program' = program \/ program' = [program EXCEPT !.started = TRUE]
  PROVE  IInv'
<1>1. /\ Command = Call /\ Call.cmd = cmd /\ toSlave' = <<>> /\ toMaster = <<>> /\ ~InBlock /\ ~master.sync
      /\ master.stage \in {"open", "answer"} /\ upRem = 0 /\ downRem = 0 /\ program.rem = 0
  BY Called
<1>2. ~Uploading
  <2>1. SUFFICES ASSUME Uploading PROVE FALSE
    OBVIOUS
  <2>2. Call = [cmd |-> "UPLOAD", size |-> Total]
    BY <2>1 DEF Uploading, Call, Bytewise, TextJobs
  <2>. QED  BY <1>1, <2>2
<1>3. UNCHANGED master
  BY DEF Handle
<1>. QED  BY <1>1, <1>2, <1>3, SingleStep

LEMMA SetMTAStep ==
  ASSUME IInv, SetMTA
  PROVE  IInv'
<1>1. /\ Command = Call /\ Call.cmd = "SET_MTA" /\ ~InBlock /\ ~master.sync
      /\ master.stage \in {"open", "answer"}
  BY Called DEF SetMTA
<1>2. /\ Kind \in {"DOWNLOAD", "UPLOAD", "CHECKSUM"}
      /\ Call = [cmd |-> "SET_MTA", addr |-> master.job.addr, ext |-> Extension(master.job.addr)]
  BY <1>1, CallCmd DEF IInv
<1>3. master.stage = "open"
  BY <1>1, <1>2 DEF Call, Kind, InBlock, Blockwise, Bytewise
<1>4. master.job.addr \in 1..Size
  BY <1>1, JobFacts DEF IInv
<1>5. mta' = [addr |-> master.job.addr, ext |-> Extension(master.job.addr)] /\ UNCHANGED master
  BY <1>1, <1>2 DEF SetMTA, MtaInit, Handle
<1>6. mta' \in [addr : 0..Size + 1, ext : {"NULL", "MEMORY", "FLASH"}]
  BY <1>4, <1>5, Constants DEF Extension
<1>7. PICK e : e = [kind |-> "RES"] /\ Answer(e)
  BY DEF SetMTA
<1>8. Result(e)'
  BY <1>2, <1>3, <1>5, <1>7 DEF Result, OnJob, Kind, TextJobs
<1>. QED  BY <1>6, <1>7, <1>8, CallStep DEF SetMTA

LEMMA ShortUploadStep ==
  ASSUME IInv, ShortUpload
  PROVE  IInv'
<1>1. /\ Command = Call /\ Call.cmd = "SHORT_UPLOAD" /\ ~InBlock /\ ~master.sync
      /\ master.stage \in {"open", "answer"}
  BY Called DEF ShortUpload
<1>2. /\ Kind = "SHORT_UPLOAD"
      /\ Call = [cmd |-> Kind, addr |-> master.job.addr, size |-> Total, ext |-> Extension(master.job.addr)]
  BY <1>1, CallCmd DEF IInv
<1>3. master.stage = "answer"
  BY <1>1, <1>2 DEF IInv, Staged
<1>4. master.job.addr \in 1..Size /\ Total \in 1..Size /\ master.job.addr + Total - 1 <= Size
  BY <1>1, JobFacts DEF IInv
<1>5. UNCHANGED <<master, memory>>
  BY DEF ShortUpload, Handle
<1>6. PICK e : /\ Answer(e)
               /\ \/ e = [kind |-> "ERR_CMD_SYNTAX"] /\ UNCHANGED mta
                  \/ /\ e = [kind |-> "DATA", data |-> Slice(master.job.addr, Total)]
                     /\ \/ mta' = [addr |-> master.job.addr + Total, ext |-> Extension(master.job.addr)]
                        \/ mta' = [addr |-> master.job.addr, ext |-> Extension(master.job.addr)]
  <2>1. Command.addr = master.job.addr /\ Command.size = Total /\ Command.ext = Extension(master.job.addr)
    BY <1>1, <1>2
  <2>. QED  BY <2>1 DEF ShortUpload, Answer, MtaInit
<1>7. mta' \in [addr : 0..Size + 1, ext : {"NULL", "MEMORY", "FLASH"}]
  <2>1. mta \in [addr : 0..Size + 1, ext : {"NULL", "MEMORY", "FLASH"}]
    BY DEF IInv, Typed, Held
  <2>2. master.job.addr + Total \in 0..Size + 1 /\ master.job.addr \in 0..Size + 1
    BY <1>4, Constants
  <2>3. Extension(master.job.addr) \in {"NULL", "MEMORY", "FLASH"}
    BY DEF Extension
  <2>. QED  BY <1>6, <2>1, <2>2, <2>3
<1>8. Result(e)'
  <2>1. Slice(master.job.addr, Total)' = Slice(master.job.addr, Total)
    BY <1>5 DEF Slice, Total
  <2>. QED  BY <1>2, <1>3, <1>5, <1>6, <2>1 DEF Result, Kind, Refusals
<1>. QED  BY <1>6, <1>7, <1>8, CallStep DEF ShortUpload

LEMMA BuildChecksumStep ==
  ASSUME IInv, BuildChecksum
  PROVE  IInv'
<1>1. /\ Command = Call /\ Call.cmd = "BUILD_CHECKSUM" /\ ~InBlock /\ ~master.sync
      /\ master.stage \in {"open", "answer"}
      /\ master.stage = "answer" /\ Kind \in Bytewise \cup {"CHECKSUM"} => OnJob
  BY Called DEF BuildChecksum
<1>2. master.stage = "answer" /\ Kind = "CHECKSUM" /\ Call = [cmd |-> "BUILD_CHECKSUM", size |-> Total]
  BY <1>1, CallCmd DEF IInv
<1>4. master.job.addr \in 1..Size /\ Total \in 1..Size /\ master.job.addr + Total - 1 <= Size
  BY <1>1, JobFacts DEF IInv
<1>5. UNCHANGED master
  BY DEF BuildChecksum, Handle
<1>6. PICK e : /\ Answer(e)
               /\ \/ e.kind = "ERR_OUT_OF_RANGE" /\ UNCHANGED mta
                  \/ e.kind = "SUM" /\ Advance(Command.size)
  <2>1. CASE Readable
    <3>1. PICK e : e = [kind |-> "SUM", sum |-> Checksum(mta.addr, Command.size)] /\ Answer(e)
      BY <2>1 DEF BuildChecksum
    <3>. QED  BY <2>1, <3>1 DEF BuildChecksum
  <2>2. CASE ~Readable
    BY <2>2 DEF BuildChecksum
  <2>. QED  BY <2>1, <2>2
<1>7. mta' \in [addr : 0..Size + 1, ext : {"NULL", "MEMORY", "FLASH"}]
  <2>1. mta \in [addr : 0..Size + 1, ext : {"NULL", "MEMORY", "FLASH"}]
    BY DEF IInv, Typed, Held
  <2>2. mta.addr + Total \in 0..Size + 1
    BY <1>1, <1>2, <1>4, Constants DEF OnJob
  <2>3. Command.size = Total
    BY <1>1, <1>2
  <2>4. CASE Advance(Command.size)
    BY <2>1, <2>2, <2>3, <2>4 DEF Advance
  <2>. QED  BY <1>6, <2>1, <2>4
<1>8. Result(e)'
  BY <1>2, <1>5, <1>6 DEF Result, Kind, Refusals
<1>. QED  BY <1>6, <1>7, <1>8, CallStep DEF BuildChecksum

LEMMA GetIdStep ==
  ASSUME IInv, GetId
  PROVE  IInv'
<1>1. /\ Command = Call /\ Call.cmd = "GET_ID" /\ ~InBlock /\ ~master.sync
      /\ master.stage \in {"open", "answer"}
  BY Called DEF GetId
<1>2. /\ Kind = "GET_ID"
      /\ Call = [cmd |-> Kind, addr |-> master.job.addr, size |-> Total, ext |-> Extension(master.job.addr)]
  BY <1>1, CallCmd DEF IInv
<1>3. master.stage = "open"
  BY <1>1, <1>2 DEF Call, Bytewise, TextJobs
<1>4. master.job.addr \in 1..Size
  BY <1>1, JobFacts DEF IInv
<1>5. UNCHANGED <<master, memory>>
  BY DEF GetId, Handle
<1>6. PICK e : /\ Answer(e)
               /\ \/ e = [kind |-> "DATA", data |-> Slice(master.job.addr, Total)] /\ UNCHANGED mta
                  \/ e = [kind |-> "LENGTH"] /\ mta' = [addr |-> master.job.addr, ext |-> "MEMORY"]
  <2>1. Command.addr = master.job.addr /\ Command.size = Total
    BY <1>1, <1>2
  <2>. QED  BY <2>1 DEF GetId, MtaInit
<1>7. mta' \in [addr : 0..Size + 1, ext : {"NULL", "MEMORY", "FLASH"}]
  <2>1. mta \in [addr : 0..Size + 1, ext : {"NULL", "MEMORY", "FLASH"}]
    BY DEF IInv, Typed, Held
  <2>. QED  BY <1>4, <1>6, <2>1, Constants
<1>8. Result(e)'
  <2>1. Slice(master.job.addr, Total)' = Slice(master.job.addr, Total)
    BY <1>5 DEF Slice, Total
  <2>. QED  BY <1>2, <1>3, <1>5, <1>6, <2>1 DEF Result, Kind, OnJob, TextJobs
<1>. QED  BY <1>6, <1>7, <1>8, CallStep DEF GetId

LEMMA GetDaqEventInfoStep ==
  ASSUME IInv, GetDaqEventInfo
  PROVE  IInv'
<1>1. /\ Command = Call /\ Call.cmd = "GET_DAQ_EVENT_INFO" /\ ~InBlock /\ ~master.sync
      /\ master.stage \in {"open", "answer"}
  BY Called DEF GetDaqEventInfo
<1>2. /\ Kind = "GET_DAQ_EVENT_INFO"
      /\ Call = [cmd |-> Kind, addr |-> master.job.addr, size |-> Total, ext |-> Extension(master.job.addr)]
  BY <1>1, CallCmd DEF IInv
<1>3. master.stage = "open"
  BY <1>1, <1>2 DEF Call, Bytewise, TextJobs
<1>4. master.job.addr \in 1..Size
  BY <1>1, JobFacts DEF IInv
<1>5. UNCHANGED master /\ mta' = [addr |-> master.job.addr, ext |-> "MEMORY"]
  BY <1>1, <1>2 DEF GetDaqEventInfo, Handle, MtaInit
<1>6. PICK e : e = [kind |-> "LENGTH"] /\ Answer(e)
  BY DEF GetDaqEventInfo
<1>7. mta' \in [addr : 0..Size + 1, ext : {"NULL", "MEMORY", "FLASH"}]
  BY <1>4, <1>5, Constants
<1>8. Result(e)'
  BY <1>2, <1>3, <1>5, <1>6 DEF Result, Kind, OnJob, TextJobs
<1>. QED  BY <1>6, <1>7, <1>8, CallStep DEF GetDaqEventInfo

LEMMA ProgramStartStep ==
  ASSUME IInv, ProgramStart
  PROVE  IInv'
<1>1. /\ Command = Call /\ Call.cmd = "PROGRAM_START" /\ ~InBlock /\ ~master.sync
      /\ master.stage \in {"open", "answer"}
  BY Called DEF ProgramStart
<1>2. Kind = "PROGRAM"
  BY <1>1, CallCmd DEF IInv
<1>3. master.stage = "open"
  BY <1>1, <1>2 DEF InBlock, Blockwise
<1>5. UNCHANGED master /\ UNCHANGED mta
  BY DEF ProgramStart, Handle
<1>6. PICK e : e = [kind |-> "RES"] /\ Answer(e)
  BY DEF ProgramStart
<1>7. mta' \in [addr : 0..Size + 1, ext : {"NULL", "MEMORY", "FLASH"}]
  BY <1>5 DEF IInv, Typed, Held
<1>8. Result(e)'
  BY <1>2, <1>3, <1>5, <1>6 DEF Result, Kind, TextJobs
<1>. QED  BY <1>6, <1>7, <1>8, CallStep DEF ProgramStart

LEMMA ProgramRefusedStep ==
  ASSUME IInv, NEW cmd \in {"PROGRAM_CLEAR", "PROGRAM_RESET"}, ProgramRefused(cmd)
  PROVE  IInv'
<1>1. /\ Command = Call /\ Call.cmd = cmd /\ ~InBlock /\ ~master.sync
      /\ master.stage \in {"open", "answer"}
  BY Called DEF ProgramRefused
<1>2. Kind = cmd
  BY <1>1, CallCmd DEF IInv
<1>3. master.stage = "answer"
  BY <1>1, <1>2 DEF IInv, Staged
<1>5. UNCHANGED <<master, mta, program>>
  BY DEF ProgramRefused, Handle, NotStarted
<1>6. PICK e : e.kind \in {"ERR_GENERIC", "ERR_CMD_UNKNOWN"} /\ Answer(e)
  BY DEF ProgramRefused, NotStarted
<1>7. mta' \in [addr : 0..Size + 1, ext : {"NULL", "MEMORY", "FLASH"}]
  BY <1>5 DEF IInv, Typed, Held
<1>8. Result(e)'
  BY <1>3, <1>5, <1>6 DEF Result, Refusals
<1>. QED  BY <1>5, <1>6, <1>7, <1>8, CallStep DEF ProgramRefused

-----------------------------------------------------------------------------
(* The frames of an upload                                                 *)

\* The numbers of the frames on their way, and that of one more.
LEMMA Counted ==
  ASSUME NEW s, IsSequence(s), NEW e
  PROVE  /\ Len(s) \in Nat /\ Len(Append(s, e)) = Len(s) + 1 /\ IsSequence(Append(s, e))
         /\ Append(s, e)[Len(s) + 1] = e
         /\ \A i \in 1..Len(s) : Append(s, e)[i] = s[i]
         /\ \A i \in 1..Len(s) + 1 : i \in 1..Len(s) \/ i = Len(s) + 1
         /\ \A i \in 0..Len(s) + 1 : i \in 0..Len(s) \/ i = Len(s) + 1
<1>1. Len(s) \in Nat
  BY Pushed
<1>2. \A i \in 1..Len(s) + 1 : i \in 1..Len(s) \/ i = Len(s) + 1
  BY <1>1
<1>3. \A i \in 0..Len(s) + 1 : i \in 0..Len(s) \/ i = Len(s) + 1
  BY <1>1
<1>. QED  BY <1>1, <1>2, <1>3, Pushed

\* q bytes of t at address a have been read and u are still to be read, from
\* address m on; now n of them are.
LEMMA Bytes ==
  ASSUME NEW q \in Nat, NEW u \in Nat, NEW n \in Nat, NEW t \in Nat, NEW m \in Nat, NEW a \in Nat, NEW s \in Nat,
         1 <= n, n <= u, q + u <= t, m + u <= a + t, 1 <= a, a + t - 1 <= s
  PROVE  /\ q + (u - n) <= t /\ q + (u - n) # t /\ m + (u - n) <= a + t
         /\ (q + n) + (u - n) = q + u /\ (m + n) + (u - n) = m + u /\ m + n \in 0..s + 1
         /\ q + u = t => \A j \in 1..n : (a + q) + j - 1 \in 1..s
OBVIOUS

\* One more frame, or one that has been dropped.
LEMMA ArrivingStep ==
  ASSUME IInv, Uploading, NEW o, Arriving(o), Unread > 0, Sent(Unread), toSlave' = <<>>,
         UNCHANGED <<memory, master>>
  PROVE  /\ \E p : Arriving(p)'
         /\ upRem' \in 0..Size /\ worker' = (upRem' > 0) /\ IsSequence(toMaster') /\ faults' \in 0..MaxFaults
         /\ mta' = [addr |-> mta'.addr, ext |-> mta.ext] /\ mta'.addr \in 0..Size + 1
<1> DEFINE L == Len(toMaster)
           n == Least(Unread, UpChunk)
<1>1. /\ memory \in [Addrs -> 0..255] /\ mta = [addr |-> mta.addr, ext |-> mta.ext] /\ mta.addr \in 0..Size + 1
      /\ upRem \in 0..Size /\ faults \in 0..MaxFaults /\ IsSequence(toMaster)
  BY DEF IInv, Typed, Held
<1>2. master.job.addr \in 1..Size /\ Total \in 1..Size /\ master.job.addr + Total - 1 <= Size
  BY JobFacts DEF IInv, Uploading
<1>3. Unread \in 1..Total
  <2>1. Unread \in Nat /\ L \in Nat
    BY <1>1, <1>2, Nonempty DEF Unread
  <2>2. o[L] \in Nat /\ o[L] + Unread <= Total
    BY <2>1 DEF Arriving
  <2>. QED  BY <1>2, <2>1, <2>2
<1>4. n \in 1..Unread /\ Size \in Nat /\ n \in Nat
  BY <1>3, Constants DEF Least
<1>5. Unread' = Unread - n /\ upRem' = Unread - n /\ worker' = (Unread # n)
  BY DEF Sent, Unread
<1>6. upRem' \in 0..Size /\ worker' = (upRem' > 0) /\ Total' = Total
  BY <1>2, <1>3, <1>4, <1>5 DEF Total
<1>7. /\ master.got \in Seq(0..255) /\ o[0] = Len(master.got)
      /\ \A i \in 0..L : o[i] \in Nat
      /\ \A i \in 1..L : /\ toMaster[i].kind = "DATA" /\ toMaster[i].data \in Seq(0..255)
                         /\ o[i] = o[i - 1] + Len(toMaster[i].data)
      /\ \A i, j \in 0..L : i < j => o[i] < o[j]
      /\ o[L] + Unread <= Total /\ mta.addr + Unread <= master.job.addr + Total
      /\ o[L] + Unread = Total =>
           /\ mta.addr = master.job.addr + o[L]
           /\ \A j \in 1..o[0] : master.got[j] = memory[master.job.addr + j - 1]
           /\ \A i \in 1..L : \A j \in 1..Len(toMaster[i].data) :
                toMaster[i].data[j] = memory[master.job.addr + o[i - 1] + j - 1]
  BY DEF Arriving
<1>8. L \in Nat
  BY <1>1, Nonempty
<1>12. o[L] \in Nat
  BY <1>7, <1>8
<1>13. /\ o[L] + (Unread - n) <= Total /\ o[L] + (Unread - n) # Total /\ mta.addr + (Unread - n) <= master.job.addr + Total
       /\ (o[L] + n) + (Unread - n) = o[L] + Unread /\ (mta.addr + n) + (Unread - n) = mta.addr + Unread
       /\ mta.addr + n \in 0..Size + 1
       /\ o[L] + Unread = Total => \A j \in 1..n : (master.job.addr + o[L]) + j - 1 \in 1..Size
  <2>1. Unread \in Nat /\ Total \in Nat /\ mta.addr \in Nat /\ master.job.addr \in Nat /\ Size \in Nat
    BY <1>1, <1>2, <1>3, <1>4
  <2>2. 1 <= n /\ n <= Unread /\ n \in Nat
    BY <1>4, <2>1
  <2>3. o[L] + Unread <= Total /\ mta.addr + Unread <= master.job.addr + Total
    BY <1>7
  <2>4. 1 <= master.job.addr /\ master.job.addr + Total - 1 <= Size
    BY <1>2
  <2>5. PICK q \in Nat, u \in Nat, k \in Nat, t \in Nat, m \in Nat, a \in Nat, s \in Nat :
          q = o[L] /\ u = Unread /\ k = n /\ t = Total /\ m = mta.addr /\ a = master.job.addr /\ s = Size
    BY <1>12, <2>1, <2>2
  <2>6. 1 <= k /\ k <= u /\ q + u <= t /\ m + u <= a + t /\ 1 <= a /\ a + t - 1 <= s
    BY <2>2, <2>3, <2>4, <2>5
  <2>7. /\ q + (u - k) <= t /\ q + (u - k) # t /\ m + (u - k) <= a + t
        /\ (q + k) + (u - k) = q + u /\ (m + k) + (u - k) = m + u /\ m + k \in 0..s + 1
        /\ q + u = t => \A j \in 1..k : (a + q) + j - 1 \in 1..s
    BY <2>6, Bytes
  <2>. QED  BY <2>5, <2>7
<1>9. CASE Unqueued /\ UNCHANGED mta
  <2>1. faults' \in 0..MaxFaults /\ toMaster' = toMaster /\ UNCHANGED mta
    BY <1>1, <1>9, Constants DEF Unqueued, Fault
  <2>2. /\ o[L] \in Nat /\ o[L] + (Unread - n) <= Total /\ o[L] + (Unread - n) # Total
        /\ mta.addr + (Unread - n) <= master.job.addr + Total
    BY <1>12, <1>13
  <2>3. Arriving(o)'
    BY <1>5, <1>6, <1>7, <2>1, <2>2 DEF Arriving
  <2>. QED  BY <1>1, <1>6, <2>1, <2>3
<1>10. CASE Queued([kind |-> "DATA", data |-> Slice(mta.addr, n)]) /\ Advance(n)
  <2>1. PICK e : e = [kind |-> "DATA", data |-> Slice(mta.addr, n)]
    OBVIOUS
  <2>2. toMaster' = Append(toMaster, e) /\ mta' = [addr |-> mta.addr + n, ext |-> mta.ext] /\ faults' = faults
    BY <1>1, <1>10, <2>1 DEF Queued, Advance
  <2>3. /\ e.data \in Seq(0..255) /\ Len(e.data) = n /\ e.kind = "DATA"
        /\ o[L] + Unread = Total => \A j \in 1..n : e.data[j] = memory[mta.addr + j - 1]
    <3>1. mta.addr \in Nat
      BY <1>1, <1>4
    <3>2. /\ Slice(mta.addr, n) \in Seq(0..255) /\ Len(Slice(mta.addr, n)) = n
          /\ \A i \in 1..n : mta.addr + i - 1 \in Addrs => Slice(mta.addr, n)[i] = memory[mta.addr + i - 1]
      BY <1>1, <1>4, <3>1, SliceType
    <3>3. ASSUME o[L] + Unread = Total
          PROVE  \A j \in 1..n : mta.addr + j - 1 \in Addrs
      <4>1. mta.addr = master.job.addr + o[L] /\ o[L] \in Nat
        BY <1>7, <1>8, <3>3
      <4>. QED  BY <1>13, <3>3, <4>1 DEF Addrs
    <3>. QED  BY <2>1, <3>2, <3>3
  <2>4. PICK p : p = [i \in 0..L + 1 |-> IF i = L + 1 THEN o[L] + n ELSE o[i]]
    OBVIOUS
  <2>5. /\ Len(toMaster') = L + 1 /\ IsSequence(toMaster') /\ toMaster'[L + 1] = e
        /\ \A i \in 1..L : toMaster'[i] = toMaster[i]
        /\ \A i \in 1..L + 1 : i \in 1..L \/ i = L + 1
        /\ \A i \in 0..L + 1 : i \in 0..L \/ i = L + 1
    BY <1>1, <2>2, Counted
  <2>6. p[0] = o[0] /\ p[L + 1] = o[L] + n /\ \A i \in 0..L : p[i] = o[i]
    BY <1>8, <2>4
  <2>7. o[L] \in Nat /\ o[L] + n \in Nat
    BY <1>4, <1>7, <1>8
  <2>8. \A i \in 0..Len(toMaster') : p[i] \in Nat
    BY <1>7, <2>5, <2>6, <2>7
  <2>9. ASSUME NEW i \in 1..Len(toMaster')
        PROVE  /\ toMaster'[i].kind = "DATA" /\ toMaster'[i].data \in Seq(0..255)
               /\ p[i] = p[i - 1] + Len(toMaster'[i].data)
    <3>1. CASE i \in 1..L
      BY <1>7, <1>8, <2>5, <2>6, <3>1
    <3>2. CASE i = L + 1
      <4>1. i - 1 = L /\ L \in 0..L
        BY <1>8, <3>2
      <4>. QED  BY <2>3, <2>5, <2>6, <3>2, <4>1
    <3>. QED  BY <2>5, <3>1, <3>2
  <2>10. ASSUME NEW i \in 0..Len(toMaster'), NEW j \in 0..Len(toMaster'), i < j
         PROVE  p[i] < p[j]
    <3>1. i \in 0..L
      BY <1>8, <2>5, <2>10
    <3>2. CASE j \in 0..L
      BY <1>7, <2>6, <2>10, <3>1, <3>2
    <3>3. CASE j = L + 1
      <4>1. o[i] <= o[L] /\ o[i] \in Nat
        BY <1>7, <1>8, <3>1
      <4>. QED  BY <1>4, <2>6, <2>7, <3>1, <3>3, <4>1
    <3>. QED  BY <2>5, <3>2, <3>3
  <2>11. /\ p[Len(toMaster')] + Unread' = o[L] + Unread /\ mta'.addr + Unread' = mta.addr + Unread
         /\ mta'.addr \in 0..Size + 1
    <3>1. mta'.addr = mta.addr + n
      BY <2>2
    <3>2. Unread' = Unread - n /\ p[Len(toMaster')] = o[L] + n
      BY <1>5, <2>5, <2>6
    <3>. QED  BY <1>13, <3>1, <3>2
  <2>12. ASSUME o[L] + Unread = Total
         PROVE  /\ mta'.addr = master.job.addr + p[Len(toMaster')]
                /\ \A j \in 1..p[0] : master.got[j] = memory[master.job.addr + j - 1]
                /\ \A i \in 1..Len(toMaster') : \A j \in 1..Len(toMaster'[i].data) :
                     toMaster'[i].data[j] = memory[master.job.addr + p[i - 1] + j - 1]
    <3>1. mta'.addr = mta.addr + n /\ mta.addr = master.job.addr + o[L]
      BY <1>7, <2>2, <2>12
    <3>2. mta'.addr = master.job.addr + p[Len(toMaster')]
      BY <1>2, <1>4, <2>5, <2>6, <2>7, <3>1
    <3>3. ASSUME NEW i \in 1..Len(toMaster'), NEW j \in 1..Len(toMaster'[i].data)
          PROVE  toMaster'[i].data[j] = memory[master.job.addr + p[i - 1] + j - 1]
      <4>1. CASE i \in 1..L
        <5>1. i - 1 \in 0..L /\ toMaster'[i] = toMaster[i]
          BY <1>8, <2>5, <4>1
        <5>2. \A k \in 1..Len(toMaster[i].data) : toMaster[i].data[k] = memory[master.job.addr + o[i - 1] + k - 1]
          BY <1>7, <2>12, <4>1
        <5>. QED  BY <2>6, <3>3, <5>1, <5>2
      <4>2. CASE i = L + 1
        <5>1. i - 1 = L /\ L \in 0..L
          BY <1>8, <4>2
        <5>2. toMaster'[i] = e /\ j \in 1..n
          BY <2>3, <2>5, <4>2
        <5>. QED  BY <2>3, <2>6, <2>12, <3>1, <5>1, <5>2
      <4>. QED  BY <2>5, <4>1, <4>2
    <3>. QED  BY <1>7, <2>6, <2>12, <3>2, <3>3
  <2>13. Arriving(p)'
    BY <1>6, <1>7, <2>6, <2>8, <2>9, <2>10, <2>11, <2>12 DEF Arriving
  <2>14. faults' \in 0..MaxFaults /\ mta' = [addr |-> mta'.addr, ext |-> mta.ext]
    BY <1>1, <2>2
  <2>. QED  BY <1>6, <2>5, <2>11, <2>13, <2>14
<1>11. Sent(Unread) => \/ Queued([kind |-> "DATA", data |-> Slice(mta.addr, n)]) /\ Advance(n)
                       \/ Unqueued /\ UNCHANGED mta
  BY DEF Sent
<1>. QED  BY <1>9, <1>10, <1>11

LEMMA SentStep ==
  ASSUME IInv, Uploading, Unread > 0, Sent(Unread), toSlave' = <<>>, UNCHANGED <<memory, downRem, program, master>>
  PROVE  IInv'
<1>1. PICK o : Arriving(o)
  BY DEF IInv
<1>2. /\ \E p : Arriving(p)'
      /\ upRem' \in 0..Size /\ worker' = (upRem' > 0) /\ IsSequence(toMaster') /\ faults' \in 0..MaxFaults
      /\ mta' = [addr |-> mta'.addr, ext |-> mta.ext] /\ mta'.addr \in 0..Size + 1
  BY <1>1, ArrivingStep
<1>3. Typed'
  <2>1. IsSequence(toSlave')
    BY EmptySeq DEF IsSequence
  <2>2. Held'
    <3>1. mta'.ext = mta.ext
      BY <1>2
    <3>. QED  BY <1>2, <3>1 DEF IInv, Typed, Held
  <2>. QED  BY <1>2, <2>1, <2>2 DEF IInv, Typed, Minded, JobGood, Kind, Total, Block
<1>4. master.stage = "answer" /\ ~master.sync /\ Kind \in Bytewise /\ Kind \notin Blockwise /\ Uploading'
  BY DEF Uploading, Kind, Bytewise, Blockwise, TextJobs
<1>5. Staged'
  BY <1>4 DEF IInv, Staged, Kind
<1>6. ~InBlock /\ ~InBlock'
  BY <1>4 DEF InBlock, Kind
<1>7. Going'
  BY <1>6 DEF Going
<1>8. Coming'
  BY <1>4, <1>6 DEF Coming
<1>. QED  BY <1>2, <1>3, <1>5, <1>7, <1>8 DEF IInv

LEMMA UploadStep ==
  ASSUME IInv, Upload
  PROVE  IInv'
<1>1. /\ Command = Call /\ Call.cmd = "UPLOAD" /\ toSlave' = <<>> /\ ~master.sync /\ toSlave # <<>>
      /\ master.stage \in {"open", "answer"}
  BY Called DEF Upload
<1>2. master.stage = "answer" /\ Kind \in Bytewise /\ Call = [cmd |-> "UPLOAD", size |-> Total]
  BY <1>1, CallCmd DEF IInv
<1>3. Command.size = Unread
  BY <1>1, <1>2 DEF Unread
<1>4. Uploading /\ Unread > 0
  BY <1>1, <1>2, JobFacts DEF IInv, Uploading, Unread
<1>. QED  BY <1>1, <1>3, <1>4, SentStep DEF Upload, Handle

LEMMA WorkStep ==
  ASSUME IInv, Work
  PROVE  IInv'
<1>1. upRem > 0 /\ Uploading /\ toSlave = <<>>
  BY DEF IInv, Typed, Held, Staged, Work
<1>. QED  BY <1>1, SentStep DEF Work, Unread

-----------------------------------------------------------------------------
(* The frames of a block                                                   *)

\* Behind a frame there are frames of what follows it, and SYNCH at the end.
LEMMA Behind ==
  ASSUME IInv, InBlock, toSlave # <<>>, toSlave' = Tail(toSlave), Frame(toSlave[1]), UNCHANGED master
  PROVE  /\ Going' /\ NoFirst' /\ IsSequence(toSlave') /\ InBlock'
         /\ toSlave[1].rem <= DownChunk /\ ~master.sync => toSlave' = <<>> /\ master.stage = "answer"
<1>1. /\ IsSequence(toSlave') /\ 1 \in DOMAIN toSlave
      /\ Len(toSlave) \in Nat \ {0} /\ Len(toSlave') = Len(toSlave) - 1
      /\ DOMAIN toSlave = 1..Len(toSlave) /\ DOMAIN toSlave' = 1..Len(toSlave) - 1
      /\ \A i \in DOMAIN toSlave' : i + 1 \in DOMAIN toSlave /\ toSlave'[i] = toSlave[i + 1]
      /\ toSlave' = <<>> <=> Len(toSlave) = 1
  BY Taken DEF IInv, Typed
<1>2. Kind \in Blockwise /\ Kind' = Kind /\ InBlock' /\ Total' = Total /\ \A c : Frame(c)' <=> Frame(c)
  BY DEF InBlock, Kind, Total, Frame
<1>3. DownChunk \in Nat \ {0} /\ Total \in 1..Size /\ Size \in Nat
  BY JobFacts, Constants DEF IInv, InBlock
<1>4. toSlave[1].cmd # "SYNCH" /\ toSlave[1].rem \in 1..Total
  BY <1>2, FrameCmd DEF Frame
<1>5. ASSUME NEW i \in DOMAIN toSlave'
      PROVE  \/ toSlave'[i] = [cmd |-> "SYNCH"] /\ master.sync /\ i = Len(toSlave')
             \/ /\ Frame(toSlave'[i]) /\ (master.sync => i < Len(toSlave')) /\ toSlave'[i].cmd # "SYNCH"
                /\ toSlave[1].rem >= toSlave'[i].rem + DownChunk /\ toSlave'[i].rem # Total
  <2>1. i + 1 \in DOMAIN toSlave /\ toSlave'[i] = toSlave[i + 1] /\ i \in Nat \ {0}
    BY <1>1
  <2>2. \/ toSlave[i + 1] = [cmd |-> "SYNCH"] /\ master.sync /\ i + 1 = Len(toSlave)
        \/ Frame(toSlave[i + 1]) /\ (master.sync => i + 1 < Len(toSlave))
    BY <2>1 DEF IInv, Going
  <2>3. CASE toSlave[i + 1] = [cmd |-> "SYNCH"] /\ master.sync /\ i + 1 = Len(toSlave)
    BY <1>1, <2>1, <2>3
  <2>4. CASE Frame(toSlave[i + 1]) /\ (master.sync => i + 1 < Len(toSlave))
    <3>1. toSlave[i + 1].cmd # "SYNCH" /\ toSlave[i + 1].rem \in 1..Total
      BY <1>2, <2>4, FrameCmd DEF Frame
    <3>2. 1 < i + 1
      BY <2>1
    <3>3. toSlave[1].rem >= toSlave[i + 1].rem + DownChunk
      BY <1>1, <1>4, <2>1, <3>1, <3>2 DEF IInv, Going
    <3>4. toSlave[i + 1].rem # Total
      BY <1>3, <1>4, <3>1, <3>3
    <3>. QED  BY <1>1, <2>1, <2>4, <3>1, <3>3, <3>4
  <2>. QED  BY <2>2, <2>3, <2>4
<1>6. NoFirst'
  <2>. SUFFICES ASSUME NEW i \in DOMAIN toSlave' PROVE toSlave'[i].cmd # Kind
    BY <1>2 DEF NoFirst
  <2>1. CASE toSlave'[i] = [cmd |-> "SYNCH"]
    BY <1>2, <2>1 DEF Blockwise
  <2>2. CASE Frame(toSlave'[i]) /\ toSlave'[i].rem # Total
    BY <1>2, <2>2, FrameCmd
  <2>. QED  BY <1>5, <2>1, <2>2
<1>7. Going'
  <2>1. ASSUME NEW i \in DOMAIN toSlave'
        PROVE  (\/ toSlave[i] = [cmd |-> "SYNCH"] /\ master.sync /\ i = Len(toSlave)
                \/ InBlock /\ Frame(toSlave[i]) /\ (master.sync => i < Len(toSlave)))'
    <3>1. PICK c : c = toSlave'[i]
      OBVIOUS
    <3>2. Frame(c)' => Frame(toSlave[i])'
      BY <3>1 DEF Frame
    <3>. QED  BY <1>2, <1>5, <3>1, <3>2
  <2>2. ASSUME NEW i \in DOMAIN toSlave', toSlave'[i].cmd # "SYNCH"
        PROVE  /\ \A j \in DOMAIN toSlave' : i < j /\ toSlave'[j].cmd # "SYNCH" => toSlave'[i].rem >= toSlave'[j].rem + DownChunk
               /\ toSlave'[i].rem # Total
               /\ master.stage = "run" /\ ~master.sync => toSlave'[i].rem >= (Total - master.pos) + DownChunk
    <3>1. i + 1 \in DOMAIN toSlave /\ toSlave'[i] = toSlave[i + 1]
      BY <1>1
    <3>2. toSlave'[i].rem # Total
      BY <1>5, <2>2
    <3>3. ASSUME NEW j \in DOMAIN toSlave', i < j, toSlave'[j].cmd # "SYNCH"
          PROVE  toSlave'[i].rem >= toSlave'[j].rem + DownChunk
      <4>1. j + 1 \in DOMAIN toSlave /\ toSlave'[j] = toSlave[j + 1] /\ i + 1 < j + 1
        BY <1>1, <3>3
      <4>. QED  BY <2>2, <3>1, <3>3, <4>1 DEF IInv, Going
    <3>4. master.stage = "run" /\ ~master.sync => toSlave'[i].rem >= (Total - master.pos) + DownChunk
      BY <2>2, <3>1 DEF IInv, Going
    <3>. QED  BY <3>2, <3>3, <3>4
  <2>. QED  BY <1>2, <2>1, <2>2 DEF IInv, Going
<1>8. ASSUME toSlave[1].rem <= DownChunk, ~master.sync
      PROVE  toSlave' = <<>> /\ master.stage = "answer"
  <2>1. ASSUME toSlave' # <<>> PROVE FALSE
    <3>1. 1 \in DOMAIN toSlave'
      BY <1>1, <2>1
    <3>2. PICK c : c = toSlave'[1]
      OBVIOUS
    <3>3. Frame(c) /\ toSlave[1].rem >= c.rem + DownChunk
      BY <1>5, <1>8, <3>1, <3>2
    <3>4. c.rem \in 1..Total
      BY <3>3 DEF Frame
    <3>5. PICK r \in Nat, k \in Nat \ {0}, d \in Nat : r = toSlave[1].rem /\ k = c.rem /\ d = DownChunk
      BY <1>3, <1>4, <3>4
    <3>6. r >= k + d /\ r <= d
      BY <1>8, <3>3, <3>5
    <3>. QED  BY <3>6
  <2>2. ASSUME master.stage = "run" PROVE FALSE
    <3>1. InBlock /\ master.stage = "run" /\ ~master.sync
      BY <1>8, <2>2
    <3>2. toSlave[1].rem >= (Total - master.pos) + DownChunk
      BY <1>1, <1>4, <3>1 DEF IInv, Going
    <3>3. master.pos < Total
      BY <3>1 DEF IInv, Going
    <3>4. PICK r \in Nat, q \in Nat, t \in Nat, d \in Nat :
            r = toSlave[1].rem /\ q = master.pos /\ t = Total /\ d = DownChunk
      BY <1>3, <1>4, MasterFields DEF IInv
    <3>5. r >= (t - q) + d /\ q < t /\ r <= d
      BY <1>8, <3>2, <3>3, <3>4
    <3>. QED  BY <3>5
  <2>3. master.stage # "refused"
    BY <1>8 DEF IInv, Staged
  <2>. QED  BY <2>1, <2>2, <2>3 DEF InBlock
<1>. QED  BY <1>1, <1>2, <1>6, <1>7, <1>8

\* The slave takes the frame: it is the first one or the next, and more of the
\* block is there.
Takes(c) ==
  /\ c.rem = Total \/ c.rem = Left
  /\ ~Stuck /\ (Kind = "PROGRAM" => program'.started)
  /\ Left' = c.rem - Least(DownChunk, c.rem) /\ Has(Total - Left)'
  /\ IF Kind = "DOWNLOAD" THEN UNCHANGED program ELSE UNCHANGED <<memory, mta, downRem>>
  /\ IF Left' = 0 THEN Answer([kind |-> "RES"]) ELSE UNCHANGED <<toMaster, faults>>

\* The slave does not take it.
Declines ==
  /\ UNCHANGED <<memory, mta, downRem, program>>
  /\ \E e : Answer(e) /\ ((e.kind = "ERR_SEQUENCE" /\ e.rem = Left) \/ (e.kind \in Refusals /\ Stuck))

\* How much a frame brings.
LEMMA FrameSize ==
  ASSUME IInv, InBlock, NEW c, Frame(c)
  PROVE  /\ c.rem \in 1..Total /\ Total \in 1..Size /\ c.data \in Seq(0..255) /\ Size \in Nat /\ DownChunk \in Nat \ {0}
         /\ Least(c.rem, Len(c.data)) = Least(DownChunk, c.rem)
         /\ Least(DownChunk, c.rem) \in 1..c.rem /\ Least(DownChunk, c.rem) <= Len(c.data)
         /\ \A i \in 1..Least(DownChunk, c.rem) : c.data[i] = master.job.data[Total - c.rem + i] /\ c.data[i] \in 0..255
<1>1. Total \in 1..Size /\ Size \in Nat /\ DownChunk \in Nat \ {0}
  BY JobFacts, Constants DEF IInv, InBlock
<1>2. /\ c.rem \in 1..Total /\ c.data \in Seq(0..255)
      /\ Len(c.data) >= Least(DownChunk, c.rem) /\ (c.rem > DownChunk => Len(c.data) = DownChunk)
      /\ \A i \in 1..Least(DownChunk, c.rem) : c.data[i] = master.job.data[Total - c.rem + i]
  BY DEF Frame
<1>3. PICK r \in Nat \ {0}, l \in Nat, d \in Nat \ {0} : r = c.rem /\ l = Len(c.data) /\ d = DownChunk
  BY <1>1, <1>2, LenProperties
<1>4. l >= Least(d, r) /\ (r > d => l = d)
  BY <1>2, <1>3
<1>5. Least(r, l) = Least(d, r) /\ Least(d, r) \in 1..r /\ Least(d, r) <= l
  BY <1>4 DEF Least
<1>6. \A i \in 1..Least(DownChunk, c.rem) : i \in 1..Len(c.data)
  BY <1>3, <1>5
<1>7. \A i \in 1..Len(c.data) : c.data[i] \in 0..255
  <2>1. PICK bytes \in Seq(0..255) : bytes = c.data
    BY <1>2
  <2>2. \A i \in 1..Len(bytes) : bytes[i] \in 0..255
    BY ElementOfSeq
  <2>. QED  BY <2>1, <2>2
<1>. QED  BY <1>1, <1>2, <1>3, <1>5, <1>6, <1>7

\* Where the slave is when a frame is the first one or the next.
LEMMA HasBefore ==
  ASSUME IInv, InBlock, Kind = "DOWNLOAD", Writable, NEW c, Frame(c), c.rem = Total \/ c.rem = Left,
         c.rem = Total => OnJob
  PROVE  Has(Total - c.rem)
<1>1. c.rem \in 1..Total /\ Total \in 1..Size /\ Size \in Nat
  BY FrameSize
<1>2. CASE c.rem = Total
  <2>1. mta = [addr |-> master.job.addr, ext |-> Extension(master.job.addr)] /\ mta.ext = "MEMORY"
    BY <1>2 DEF OnJob, TextJobs, Writable
  <2>2. Extension(master.job.addr) = "MEMORY" /\ master.job.addr \notin ReadOnly
    BY <2>1 DEF Extension
  <2>3. Total - c.rem = 0 /\ master.job.addr + 0 = master.job.addr
    BY <1>1, <1>2, JobFacts DEF IInv, InBlock
  <2>4. Has(0)
    BY <2>1, <2>2, <2>3 DEF Has
  <2>. QED  BY <2>3, <2>4
<1>3. CASE c.rem = Left
  BY <1>1, <1>3 DEF IInv, Staged, Blockwise
<1>. QED  BY <1>2, <1>3

LEMMA Accepted ==
  ASSUME IInv, InBlock, Kind = "DOWNLOAD", Writable, NEW c, Frame(c), c = Command, c.rem = Total \/ c.rem = Left,
         c.rem = Total => OnJob, Accept(c.rem), UNCHANGED <<program, master>>
  PROVE  /\ Takes(c)
         /\ memory' \in [Addrs -> 0..255] /\ downRem' \in 0..Size
         /\ mta' = [addr |-> mta'.addr, ext |-> mta'.ext] /\ mta'.addr \in 0..Size + 1 /\ mta'.ext \in {"NULL", "MEMORY", "FLASH"}
         /\ \A a \in Addrs : memory'[a] # memory[a] => a \in Written
<1>1. /\ c.rem \in 1..Total /\ Total \in 1..Size /\ c.data \in Seq(0..255) /\ Size \in Nat
      /\ Least(c.rem, Len(c.data)) = Least(DownChunk, c.rem)
      /\ Least(DownChunk, c.rem) \in 1..c.rem
      /\ \A i \in 1..Least(DownChunk, c.rem) : c.data[i] = master.job.data[Total - c.rem + i] /\ c.data[i] \in 0..255
  BY FrameSize
<1>2. PICK n \in 1..c.rem : n = Least(DownChunk, c.rem)
  BY <1>1
<1>3. /\ mta = [addr |-> master.job.addr + (Total - c.rem), ext |-> "MEMORY"] /\ master.job.addr \notin ReadOnly
      /\ \A i \in 1..Total - c.rem : memory[master.job.addr + i - 1] = master.job.data[i]
  BY HasBefore DEF Has
<1>4. PICK b \in 1..Size, t \in 1..Size, r \in Nat : b = master.job.addr /\ t = Total /\ r = c.rem /\ r \in 1..t
  <2>1. Typed /\ master.stage # "idle"
    BY DEF IInv, InBlock
  <2>2. master.job.addr \in 1..Size
    BY <2>1, JobFacts
  <2>3. c.rem \in Nat
    BY <1>1
  <2>. QED  BY <1>1, <2>2, <2>3
<1>5. /\ b + t - 1 <= Size /\ n \in 1..r /\ mta.addr = b + (t - r) /\ mta.ext = "MEMORY"
      /\ b \in Nat /\ t \in Nat /\ n \in Nat /\ Size \in Nat /\ 1 <= b /\ r <= t /\ 1 <= n /\ n <= r
  <2>1. Typed /\ master.stage # "idle"
    BY DEF IInv, InBlock
  <2>2. master.job.addr + Total - 1 <= Size
    BY <2>1, JobFacts
  <2>3. b + t - 1 <= Size /\ n \in 1..r
    BY <1>4, <2>2
  <2>4. mta.addr = b + (t - r) /\ mta.ext = "MEMORY"
    BY <1>3, <1>4
  <2>. QED  BY <1>1, <1>4, <2>3, <2>4
<1>6. /\ memory' = [a \in Addrs |-> IF a - mta.addr + 1 \in 1..n THEN c.data[a - mta.addr + 1] ELSE memory[a]]
      /\ mta' = [mta EXCEPT !.addr = @ + n] /\ downRem' = c.rem - n
      /\ IF c.rem = n THEN Answer([kind |-> "RES"]) ELSE UNCHANGED <<toMaster, faults>>
  BY <1>1, <1>2 DEF Accept, Write, Advance
<1>7. memory' = [a \in Addrs |-> IF a - (b + (t - r)) + 1 \in 1..n THEN c.data[a - (b + (t - r)) + 1] ELSE memory[a]]
  BY <1>5, <1>6
<1>8. memory \in [Addrs -> 0..255]
  BY DEF IInv, Typed, Held
<1>9. memory' \in [Addrs -> 0..255]
  <2>1. \A i \in 1..n : c.data[i] \in 0..255
    BY <1>1, <1>2
  <2>2. \A a \in Addrs : memory[a] \in 0..255
    BY <1>8
  <2>. QED  BY ONLY <1>7, <2>1, <2>2
<1>10. downRem' = r - n /\ downRem' \in 0..Size /\ Left' = r - n /\ Total' = t /\ Kind' = "DOWNLOAD" /\ master.job.addr' = b
  BY <1>1, <1>4, <1>5, <1>6 DEF Left, Kind, Total
<1>11. mta' = [addr |-> b + (t - r) + n, ext |-> "MEMORY"] /\ b + (t - r) + n \in 0..Size + 1
  <2>1. b + (t - r) + n \in 0..Size + 1
    BY <1>5
  <2>2. mta' = [addr |-> mta.addr + n, ext |-> "MEMORY"]
    BY <1>3, <1>6
  <2>. QED  BY <1>5, <2>1, <2>2
<1>12. \A i \in 1..t - (r - n) : memory'[b + i - 1] = master.job.data[i]
  <2>. SUFFICES ASSUME NEW i \in 1..t - (r - n) PROVE memory'[b + i - 1] = master.job.data[i]
    OBVIOUS
  <2>1. b + i - 1 \in Addrs
    BY <1>1, <1>5 DEF Addrs
  <2>2. CASE i \in 1..t - r
    <3>1. (b + i - 1) - (b + (t - r)) + 1 \notin 1..n
      <4>1. b \in Int /\ n \in Int /\ i \in Int /\ t - r \in Int /\ i <= t - r
        BY <1>5, <2>2
      <4>2. PICK d \in Int : d = t - r
        BY <4>1
      <4>3. (b + i - 1) - (b + d) + 1 = i - d /\ i - d \in Int /\ ~(1 <= i - d)
        BY ONLY <4>1, <4>2
      <4>. QED  BY ONLY <4>1, <4>2, <4>3
    <3>. QED  BY <1>3, <1>4, <1>7, <2>1, <2>2, <3>1
  <2>3. CASE i \notin 1..t - r
    <3>1. (b + i - 1) - (b + (t - r)) + 1 = i - (t - r) /\ i - (t - r) \in 1..n /\ t - r + (i - (t - r)) = i
      BY <1>1, <1>5, <2>3
    <3>2. memory'[b + i - 1] = c.data[i - (t - r)]
      BY <1>7, <2>1, <3>1
    <3>. QED  BY <1>1, <1>2, <1>4, <3>1, <3>2
  <2>. QED  BY <2>2, <2>3
<1>13. t - (r - n) = (t - r) + n /\ b + ((t - r) + n) = b + (t - r) + n
  BY <1>1, <1>5
<1>14. Has(Total - Left)'
  BY <1>3, <1>4, <1>10, <1>11, <1>12, <1>13 DEF Has, Kind
<1>15. Left' = 0 <=> c.rem = n
  <2>1. r - n = 0 <=> r = n
    BY ONLY <1>5
  <2>. QED  BY ONLY <1>4, <1>10, <2>1
<1>16. ~Stuck
  BY DEF Stuck, Writable
<1>17. Takes(c)
  BY <1>2, <1>4, <1>6, <1>10, <1>14, <1>15, <1>16 DEF Takes
<1>18. ASSUME NEW a \in Addrs, memory'[a] # memory[a] PROVE a \in Written
  <2>1. a - (b + (t - r)) + 1 \in 1..n
    BY <1>7, <1>8, <1>18
  <2>2. a \in b..b + t - 1 /\ a - b + 1 \in 1..t /\ b + (a - b + 1) - 1 = a /\ b \in b..b + t - 1
    <3>1. a \in Nat
      BY <1>5 DEF Addrs
    <3>2. PICK k \in 1..n : k = a - (b + (t - r)) + 1
      BY <2>1
    <3>3. a = b + (t - r) + k - 1
      BY <1>5, <3>1, <3>2
    <3>. QED  BY <1>5, <3>1, <3>3
  <2>3. Block \subseteq ReadOnly \/ Block \cap ReadOnly = {}
    BY DEF IInv, Typed, JobGood, InBlock, TextJobs
  <2>4. a \notin ReadOnly
    BY <1>3, <1>4, <2>2, <2>3 DEF Block
  <2>5. master.stage # "idle" /\ master.job.kind = "DOWNLOAD"
    BY DEF InBlock, Kind
  <2>. QED  BY <1>4, <2>2, <2>4, <2>5 DEF Written
<1>. QED  BY <1>9, <1>10, <1>11, <1>17, <1>18

\* Bytes behind bytes, all of them those of a block.
LEMMA Continued ==
  ASSUME NEW x \in Seq(0..255), NEW y \in Seq(0..255), NEW D,
         \A i \in 1..Len(x) : x[i] = D[i], \A i \in 1..Len(y) : y[i] = D[Len(x) + i]
  PROVE  /\ x \o y \in Seq(0..255) /\ Len(x \o y) = Len(x) + Len(y)
         /\ \A i \in 1..Len(x) + Len(y) : (x \o y)[i] = D[i]
<1>1. PICK m \in Nat, n \in Nat : m = Len(x) /\ n = Len(y)
  BY LenProperties
<1>2. /\ x \o y \in Seq(0..255) /\ Len(x \o y) = m + n
      /\ \A i \in 1..m + n : (x \o y)[i] = IF i <= m THEN x[i] ELSE y[i - m]
  BY <1>1, ConcatProperties
<1>3. ASSUME NEW i \in 1..m + n PROVE (x \o y)[i] = D[i]
  <2>1. CASE i <= m
    <3>1. i \in 1..m
      BY <2>1
    <3>. QED  BY <1>1, <1>2, <2>1, <3>1
  <2>2. CASE ~(i <= m)
    <3>1. PICK k \in 1..n : k = i - m
      BY <2>2
    <3>2. m + k = i
      BY <3>1
    <3>3. (x \o y)[i] = y[k] /\ y[k] = D[m + k]
      BY <1>1, <1>2, <2>2, <3>1
    <3>. QED  BY <3>2, <3>3
  <2>. QED  BY <2>1, <2>2
<1>. QED  BY <1>1, <1>2, <1>3

LEMMA Credited ==
  ASSUME IInv, InBlock, Kind = "PROGRAM", program.started, NEW c, Frame(c), c = Command, c.rem = Total \/ c.rem = Left,
         NEW before \in Seq(0..255), Len(before) = Total - c.rem,
         \A i \in 1..Total - c.rem : before[i] = master.job.data[i],
         Credit(c.rem, before), UNCHANGED <<memory, mta, downRem, master>>
  PROVE  Takes(c) /\ program' \in [started : BOOLEAN, rem : 0..Size, counted : Seq(0..255)]
<1>1. /\ c.rem \in 1..Total /\ Total \in 1..Size /\ c.data \in Seq(0..255) /\ Size \in Nat
      /\ Least(c.rem, Len(c.data)) = Least(DownChunk, c.rem)
      /\ Least(DownChunk, c.rem) \in 1..c.rem /\ Least(DownChunk, c.rem) <= Len(c.data)
      /\ \A i \in 1..Least(DownChunk, c.rem) : c.data[i] = master.job.data[Total - c.rem + i] /\ c.data[i] \in 0..255
  BY FrameSize
<1>2. PICK n \in 1..c.rem, d \in Seq(0..255) : n = Least(DownChunk, c.rem) /\ d = c.data
  BY <1>1
<1>3. PICK t \in 1..Size, r \in Nat : t = Total /\ r = c.rem /\ r \in 1..t
  <2>1. c.rem \in Nat
    BY <1>1
  <2>. QED  BY <1>1, <2>1
<1>4. n \in 1..r /\ n \in Nat /\ 1 <= n /\ n <= r /\ r <= t /\ t <= Size /\ t \in Nat /\ Size \in Nat /\ n <= Len(d)
  BY <1>1, <1>2, <1>3
<1>5. PICK part : part = SubSeq(d, 1, n)
  OBVIOUS
<1>6. part \in Seq(0..255) /\ Len(part) = n /\ \A i \in 1..n : part[i] = d[i]
  <2>1. Len(d) \in Nat /\ \A i \in 1..n : i \in 1..Len(d)
    BY <1>4, LenProperties
  <2>2. \A i \in 1..n : d[i] \in 0..255
    BY <2>1, ElementOfSeq
  <2>3. part = [i \in 1..n |-> d[i]]
    BY <1>4, <1>5
  <2>4. part \in [1..n -> 0..255]
    BY <2>2, <2>3
  <2>5. part \in Seq(0..255)
    BY <1>4, <2>4
  <2>. QED  BY <1>4, <2>3, <2>4, <2>5, LenProperties
<1>7. /\ program' = [started |-> program.started, rem |-> r - n, counted |-> before \o part]
      /\ IF c.rem = n THEN Answer([kind |-> "RES"]) ELSE UNCHANGED <<toMaster, faults>>
  <2>1. program = [started |-> program.started, rem |-> program.rem, counted |-> program.counted]
    BY DEF IInv, Typed, Held
  <2>. QED  BY <1>1, <1>2, <1>3, <1>5, <2>1 DEF Credit
<1>8. PICK all : all = before \o part
  OBVIOUS
<1>9. all \in Seq(0..255) /\ Len(all) = (t - r) + n /\ \A i \in 1..(t - r) + n : all[i] = master.job.data[i]
  <2>1. Len(before) = t - r
    BY <1>3
  <2>2. PICK D : D = master.job.data
    OBVIOUS
  <2>3. \A i \in 1..Len(before) : before[i] = D[i]
    BY <1>3, <2>2
  <2>4. \A i \in 1..Len(part) : part[i] = D[Len(before) + i]
    <3>1. \A i \in 1..n : d[i] = D[(t - r) + i]
      BY <1>1, <1>2, <1>3, <2>2
    <3>. QED  BY <1>6, <2>1, <3>1
  <2>5. /\ before \o part \in Seq(0..255) /\ Len(before \o part) = Len(before) + Len(part)
        /\ \A i \in 1..Len(before) + Len(part) : (before \o part)[i] = D[i]
    <3>1. part \in Seq(0..255)
      BY <1>6
    <3>. QED  BY ONLY before \in Seq(0..255), <2>3, <2>4, <3>1, Continued
  <2>. QED  BY <1>6, <1>8, <2>1, <2>2, <2>5
<1>10. Left' = r - n
  BY <1>7 DEF Left, Kind
<1>11. Total' = t /\ Kind' = "PROGRAM" /\ r - n \in 0..Size /\ t - (r - n) = (t - r) + n
  <2>1. Total' = Total /\ Kind' = Kind
    BY DEF Kind, Total
  <2>2. r - n \in 0..Size /\ t - (r - n) = (t - r) + n
    BY <1>4
  <2>. QED  BY <1>3, <2>1, <2>2
<1>12. Has(Total - Left)'
  <2>1. Has((t - r) + n)'
    BY <1>7, <1>8, <1>9, <1>11 DEF Has, Kind
  <2>2. (Total - Left)' = (t - r) + n
    BY <1>10, <1>11
  <2>. QED  BY <2>1, <2>2
<1>13. Left' = 0 <=> c.rem = n
  BY <1>3, <1>4, <1>10
<1>14. program' \in [started : BOOLEAN, rem : 0..Size, counted : Seq(0..255)]
  <2>1. program.started \in BOOLEAN
    BY DEF IInv, Typed, Held
  <2>. QED  BY <1>7, <1>8, <1>9, <1>11, <2>1
<1>15. Takes(c)
  BY <1>2, <1>3, <1>7, <1>10, <1>12, <1>13 DEF Takes, Stuck
<1>. QED  BY <1>14, <1>15

\* What the four commands of a block do.
LEMMA FrameOutcome ==
  ASSUME IInv, Download \/ DownloadNext \/ Program \/ ProgramNext
  PROVE  /\ InBlock /\ Frame(toSlave[1]) /\ toSlave # <<>> /\ toSlave' = Tail(toSlave)
         /\ UNCHANGED <<upRem, worker, master>> /\ Held'
         /\ \/ Takes(toSlave[1])
            \/ Declines
         /\ \A a \in Addrs : memory'[a] # memory[a] => a \in Written
<1>1. PICK cmd \in {"DOWNLOAD", "DOWNLOAD_NEXT", "PROGRAM", "PROGRAM_NEXT"} : Handle(cmd)
  BY DEF Download, DownloadNext, Program, ProgramNext
<1>2. PICK c : c = Command
  OBVIOUS
<1>3. /\ InBlock /\ Frame(c) /\ c = toSlave[1] /\ c.cmd = cmd /\ toSlave # <<>> /\ toSlave' = Tail(toSlave)
      /\ c.rem = Total => Left = 0 /\ (Kind = "DOWNLOAD" => OnJob)
  <2>1. /\ InBlock /\ Frame(Command) /\ Command = toSlave[1] /\ Command.cmd = cmd
        /\ toSlave # <<>> /\ toSlave' = Tail(toSlave)
        /\ Command.rem = Total => Left = 0 /\ (Kind = "DOWNLOAD" => OnJob)
    BY <1>1, Framed
  <2>. QED  BY <1>2, <2>1
<1>4. Frame(toSlave[1])
  BY <1>3 DEF Frame
<1>5. /\ c.cmd \in {"DOWNLOAD", "DOWNLOAD_NEXT"} <=> Kind = "DOWNLOAD"
      /\ c.cmd \in {"DOWNLOAD", "PROGRAM"} <=> c.rem = Total
      /\ Kind \in Blockwise
  BY <1>3, FrameCmd DEF InBlock
<1>6. UNCHANGED <<upRem, worker, master>>
  BY DEF Download, DownloadNext, Program, ProgramNext, Handle
<1>7. Held
  BY DEF IInv, Typed
<1>8. CASE Kind = "DOWNLOAD"
  <2>1. (Download /\ c.rem = Total) \/ (DownloadNext /\ c.rem # Total)
    BY <1>2, <1>3, <1>5, <1>8 DEF Download, DownloadNext, Program, ProgramNext, Handle
  <2>2. UNCHANGED program /\ Left = downRem
    BY <1>8, <2>1 DEF Download, DownloadNext, Left
  <2>3. \/ Writable /\ (c.rem = Total \/ c.rem = Left) /\ Accept(c.rem)
        \/ Refused
        \/ /\ Writable /\ c.rem # Total /\ UNCHANGED <<memory, mta, downRem>>
           /\ Answer([kind |-> "ERR_SEQUENCE", rem |-> downRem])
    BY <1>2, <2>1, <2>2 DEF Download, DownloadNext
  <2>4. CASE Writable /\ (c.rem = Total \/ c.rem = Left) /\ Accept(c.rem)
    <3>1. /\ Takes(c)
          /\ memory' \in [Addrs -> 0..255] /\ downRem' \in 0..Size
          /\ mta' = [addr |-> mta'.addr, ext |-> mta'.ext] /\ mta'.addr \in 0..Size + 1 /\ mta'.ext \in {"NULL", "MEMORY", "FLASH"}
          /\ \A a \in Addrs : memory'[a] # memory[a] => a \in Written
      <4>1. c.rem = Total => OnJob
        BY <1>3, <1>8
      <4>. QED  BY <1>2, <1>3, <1>6, <1>8, <2>2, <2>4, <4>1, Accepted
    <3>2. faults' \in 0..MaxFaults
      BY <1>7, <3>1, AnswerIs DEF IInv, Held, Takes
    <3>3. Held'
      BY <1>6, <1>7, <2>2, <3>1, <3>2 DEF Held
    <3>4. Takes(toSlave[1])
      BY <1>3, <3>1 DEF Takes
    <3>. QED  BY <1>3, <1>4, <1>6, <3>1, <3>3, <3>4
  <2>5. CASE Refused
    <3>1. PICK e : e = [kind |-> "ERR_OUT_OF_RANGE"] /\ Answer(e)
      BY <2>5 DEF Refused
    <3>2. Left = 0
      BY <1>8, <2>5 DEF IInv, Staged, Typed, Held, Left, Has, Refused, Writable, Blockwise
    <3>3. Stuck
      BY <1>8, <2>5, <3>2 DEF Stuck, Refused, Writable
    <3>4. Declines
      BY <2>2, <2>5, <3>1, <3>3 DEF Declines, Refused, Refusals
    <3>5. Held'
      BY <1>6, <1>7, <2>2, <2>5, <3>1, AnswerIs DEF IInv, Held, Refused
    <3>. QED  BY <1>3, <1>4, <1>6, <2>5, <3>3, <3>4, <3>5 DEF Refused
  <2>6. CASE /\ Writable /\ c.rem # Total /\ UNCHANGED <<memory, mta, downRem>>
             /\ Answer([kind |-> "ERR_SEQUENCE", rem |-> downRem])
    <3>1. PICK e : e = [kind |-> "ERR_SEQUENCE", rem |-> downRem] /\ Answer(e)
      BY <2>6
    <3>4. Declines
      BY <2>2, <2>6, <3>1 DEF Declines
    <3>5. Held'
      BY <1>6, <1>7, <2>2, <2>6, <3>1, AnswerIs DEF IInv, Held
    <3>. QED  BY <1>3, <1>4, <1>6, <2>6, <3>4, <3>5
  <2>. QED  BY <2>3, <2>4, <2>5, <2>6
<1>9. CASE Kind = "PROGRAM"
  <2>1. (Program /\ c.rem = Total) \/ (ProgramNext /\ c.rem # Total)
    BY <1>2, <1>3, <1>5, <1>9 DEF Download, DownloadNext, Program, ProgramNext, Handle
  <2>2. UNCHANGED <<memory, mta, downRem>> /\ Left = program.rem
    BY <1>9, <2>1 DEF Program, ProgramNext, Left
  <2>3. c.rem \in 1..Total /\ Total \in 1..Size
    BY <1>3, FrameSize
  <2>4. \/ NotStarted
        \/ program.started /\ c.rem = Total /\ Credit(c.rem, <<>>)
        \/ program.started /\ c.rem = Left /\ Credit(c.rem, program.counted)
        \/ /\ program.started /\ c.rem # Total /\ UNCHANGED program
           /\ Answer([kind |-> "ERR_SEQUENCE", rem |-> program.rem])
    BY <1>2, <2>1, <2>2 DEF Program, ProgramNext
  <2>5. ASSUME Takes(c), program' \in [started : BOOLEAN, rem : 0..Size, counted : Seq(0..255)]
        PROVE  Takes(toSlave[1]) /\ Held'
    <3>1. faults' \in 0..MaxFaults
      BY <1>7, <2>5, AnswerIs DEF IInv, Held, Takes
    <3>2. Held'
      BY <1>6, <1>7, <2>2, <2>5, <3>1 DEF Held
    <3>. QED  BY <1>3, <2>5, <3>2 DEF Takes
  <2>6. CASE program.started /\ c.rem = Total /\ Credit(c.rem, <<>>)
    <3>1. PICK x \in Seq(0..255) : x = <<>> /\ Len(x) = 0
      BY EmptySeq
    <3>2. Len(x) = Total - c.rem /\ \A i \in 1..Total - c.rem : x[i] = master.job.data[i]
      BY <2>3, <2>6, <3>1
    <3>3. Credit(c.rem, x)
      BY <2>6, <3>1
    <3>4. Takes(c) /\ program' \in [started : BOOLEAN, rem : 0..Size, counted : Seq(0..255)]
      BY <1>2, <1>3, <1>6, <1>9, <2>2, <2>6, <3>2, <3>3, Credited
    <3>. QED  BY <1>3, <1>4, <1>6, <2>2, <2>5, <3>4
  <2>7. CASE program.started /\ c.rem = Left /\ Credit(c.rem, program.counted)
    <3>1. PICK x \in Seq(0..255) : x = program.counted
      BY <1>7 DEF Held
    <3>2. Len(x) = Total - c.rem /\ \A i \in 1..Total - c.rem : x[i] = master.job.data[i]
      BY <1>5, <1>9, <2>3, <2>7, <3>1 DEF IInv, Staged, Has
    <3>3. Credit(c.rem, x)
      BY <2>7, <3>1
    <3>4. Takes(c) /\ program' \in [started : BOOLEAN, rem : 0..Size, counted : Seq(0..255)]
      BY <1>2, <1>3, <1>6, <1>9, <2>2, <2>7, <3>2, <3>3, Credited
    <3>. QED  BY <1>3, <1>4, <1>6, <2>2, <2>5, <3>4
  <2>8. CASE NotStarted
    <3>1. PICK e : e = [kind |-> "ERR_GENERIC"] /\ Answer(e)
      BY <2>8 DEF NotStarted
    <3>2. Left = 0
      BY <1>7, <2>2, <2>8 DEF IInv, Staged, Held, NotStarted
    <3>3. Stuck
      BY <1>9, <2>8, <3>2 DEF Stuck, NotStarted
    <3>4. Declines
      BY <2>2, <2>8, <3>1, <3>3 DEF Declines, NotStarted, Refusals
    <3>5. Held'
      BY <1>6, <1>7, <2>2, <2>8, <3>1, AnswerIs DEF IInv, Held, NotStarted
    <3>. QED  BY <1>3, <1>4, <1>6, <2>2, <3>3, <3>4, <3>5
  <2>9. CASE /\ program.started /\ c.rem # Total /\ UNCHANGED program
             /\ Answer([kind |-> "ERR_SEQUENCE", rem |-> program.rem])
    <3>1. PICK e : e = [kind |-> "ERR_SEQUENCE", rem |-> program.rem] /\ Answer(e)
      BY <2>9
    <3>2. Declines
      BY <2>2, <2>9, <3>1 DEF Declines
    <3>3. Held'
      BY <1>6, <1>7, <2>2, <2>9, <3>1, AnswerIs DEF IInv, Held
    <3>. QED  BY <1>3, <1>4, <1>6, <2>2, <2>9, <3>2, <3>3
  <2>. QED  BY <2>4, <2>6, <2>7, <2>8, <2>9
<1>. QED  BY <1>5, <1>8, <1>9 DEF Blockwise

\* A frame taken ends what was to be repeated and what was refused.
LEMMA TakesEnds ==
  ASSUME IInv, InBlock, toSlave # <<>>, Frame(toSlave[1]), Takes(toSlave[1])
  PROVE  ~Stuck /\ ~(Left = 0 /\ NoFirst)
<1>1. toSlave[1].rem \in 1..Total /\ Total \in 1..Size /\ Size \in Nat
  BY FrameSize
<1>2. 1 \in DOMAIN toSlave
  BY Popped DEF IInv, Typed
<1>3. ASSUME Left = 0, NoFirst PROVE FALSE
  <2>1. toSlave[1].cmd # Kind
    BY <1>2, <1>3 DEF NoFirst
  <2>2. toSlave[1].rem # Total
    BY <2>1, FrameCmd DEF InBlock
  <2>3. toSlave[1].rem = 0
    BY <1>3, <2>2 DEF Takes
  <2>. QED  BY <1>1, <2>3
<1>. QED  BY <1>3 DEF Takes

LEMMA FrameStep ==
  ASSUME IInv, Download \/ DownloadNext \/ Program \/ ProgramNext
  PROVE  IInv'
<1>1. /\ InBlock /\ Frame(toSlave[1]) /\ toSlave # <<>> /\ toSlave' = Tail(toSlave)
      /\ UNCHANGED <<upRem, worker, master>> /\ Held'
      /\ Takes(toSlave[1]) \/ Declines
  BY FrameOutcome
<1>2. /\ Going' /\ NoFirst' /\ IsSequence(toSlave') /\ InBlock'
      /\ toSlave[1].rem <= DownChunk /\ ~master.sync => toSlave' = <<>> /\ master.stage = "answer"
  BY <1>1, Behind
<1>3. Kind \in Blockwise /\ Kind' = Kind /\ Total' = Total /\ ~Uploading /\ ~Uploading' /\ upRem = 0
  <2>1. Kind \in Blockwise /\ ~Uploading
    BY <1>1 DEF InBlock, Blockwise, Uploading, Bytewise, TextJobs
  <2>. QED  BY <1>1, <2>1 DEF Kind, Total, Uploading, IInv, Staged, Typed, Held
<1>4. toSlave[1].rem \in 1..Total /\ Total \in 1..Size /\ Size \in Nat /\ DownChunk \in Nat \ {0}
  BY <1>1, FrameSize
<1>5. IsSequence(toMaster) /\ Len(toMaster) \in Nat /\ DOMAIN toMaster = 1..Len(toMaster)
  BY Nonempty DEF IInv, Typed
<1>6. ~(master.stage \in {"idle", "start"}) /\ ~(master.stage = "run" /\ master.pos = 0)
  BY <1>1 DEF IInv, Staged, InBlock
\* What was on the way to the master.
<1>7. ASSUME NEW i \in DOMAIN toMaster
      PROVE  /\ toMaster[i].kind = "ERR_SYNCH" => ~master.sync
             /\ ~master.sync => \/ toMaster[i].kind = "ERR_SEQUENCE" /\ toMaster[i].rem \in Nat /\ Retried(toMaster[i].rem)
                                \/ toMaster[i].kind \in Refusals /\ Stuck
  BY <1>1 DEF IInv, Coming, OfBlock
\* And what will be.
<1>10. ASSUME NEW i \in DOMAIN toMaster', NEW c, c = toMaster'[i],
              \/ /\ c.kind = "RES" /\ i = Len(toMaster') /\ toSlave' = <<>> /\ master.stage = "answer"
                 /\ Left' = 0 /\ Has(Total)'
              \/ c.kind = "ERR_SEQUENCE" /\ c.rem \in Nat /\ Retried(c.rem)'
              \/ c.kind \in Refusals /\ Stuck'
       PROVE  OfBlock(i)'
  BY <1>1, <1>10 DEF OfBlock, Retried
<1>8. CASE Takes(toSlave[1])
  <2>1. ~Stuck /\ ~(Left = 0 /\ NoFirst)
    BY <1>1, <1>8, TakesEnds
  <2>2. master.stage # "refused"
    BY <2>1 DEF IInv, Staged, Coming
  <2>3. PICK k : k = toSlave[1].rem - Least(DownChunk, toSlave[1].rem)
    OBVIOUS
  <2>4. /\ Left' = k /\ Has(Total - Left)' /\ (Kind = "PROGRAM" => program'.started)
        /\ IF Kind = "DOWNLOAD" THEN UNCHANGED program ELSE UNCHANGED <<memory, mta, downRem>>
        /\ IF k = 0 THEN Answer([kind |-> "RES"]) ELSE UNCHANGED <<toMaster, faults>>
    BY <1>8, <2>3 DEF Takes
  <2>5. k \in Nat /\ (k > 0 => k + DownChunk <= Total) /\ (k = 0 => toSlave[1].rem <= DownChunk)
    BY <1>4, <2>3 DEF Least
  <2>6. master.stage \in {"run", "answer"}
    BY <1>1, <2>2 DEF InBlock
  <2>7. Staged'
    <3>1. downRem' > 0 => Kind = "DOWNLOAD"
      BY <1>1, <1>3, <2>4 DEF IInv, Staged, Typed, Held, Blockwise
    <3>2. program'.rem > 0 => Kind = "PROGRAM" /\ program'.started
      <4>1. CASE Kind = "PROGRAM"
        BY <2>4, <4>1
      <4>2. CASE Kind = "DOWNLOAD"
        BY <2>4, <4>2 DEF IInv, Staged, Typed, Held
      <4>. QED  BY <1>3, <4>1, <4>2 DEF Blockwise
    <3>3. Left' > 0 => Left' + DownChunk <= Total /\ Has(Total - Left)'
      BY <2>4, <2>5
    <3>. QED  BY <1>1, <1>3, <1>6, <2>6, <3>1, <3>2, <3>3 DEF Staged, IInv
  <2>8. ASSUME NEW r, Retried(r) PROVE Retried(r)'
    BY <1>3, <2>1, <2>8 DEF Retried
  <2>9. IsSequence(toMaster')
    BY <1>5, <2>4, AnswerIs DEF IInv
  <2>10. Coming'
    <3>1. ASSUME NEW i \in DOMAIN toMaster', ~master.sync
          PROVE  OfBlock(i)'
      <4>1. PICK c, e : c = toMaster'[i] /\ e = [kind |-> "RES"]
        OBVIOUS
      <4>2. ASSUME i \in DOMAIN toMaster, c = toMaster[i]
            PROVE  OfBlock(i)'
        <5>1. c.kind = "ERR_SEQUENCE" /\ c.rem \in Nat /\ Retried(c.rem)
          BY <1>7, <2>1, <3>1, <4>2
        <5>2. Retried(c.rem)'
          BY <2>8, <5>1
        <5>. QED  BY <1>10, <4>1, <5>1, <5>2
      <4>3. ASSUME toMaster' = Append(toMaster, e), k = 0, i = Len(toMaster) + 1
            PROVE  OfBlock(i)'
        <5>1. Len(toMaster') = Len(toMaster) + 1 /\ toMaster'[i] = e
          BY <1>5, <4>3, Pushed
        <5>2. (Total - Left)' = Total'
          BY <1>3, <1>4, <2>4, <4>3
        <5>3. Has(Total)'
          BY <2>4, <5>2 DEF Has
        <5>4. /\ c.kind = "RES" /\ i = Len(toMaster') /\ toSlave' = <<>> /\ master.stage = "answer"
              /\ Left' = 0 /\ Has(Total)'
          BY <1>2, <2>4, <2>5, <3>1, <4>1, <4>3, <5>1, <5>3
        <5>. QED  BY <1>10, <4>1, <5>4
      <4>4. toMaster' = toMaster \/ (toMaster' = Append(toMaster, e) /\ k = 0)
        BY <2>4, <4>1 DEF Answer, Queued, Unqueued
      <4>5. CASE toMaster' = toMaster
        BY <3>1, <4>1, <4>2, <4>5
      <4>6. CASE toMaster' = Append(toMaster, e) /\ k = 0
        <5>1. (i \in DOMAIN toMaster /\ toMaster'[i] = toMaster[i]) \/ i = Len(toMaster) + 1
          BY <1>5, <3>1, <4>6, Pushed
        <5>. QED  BY <4>1, <4>2, <4>3, <4>6, <5>1
      <4>. QED  BY <4>4, <4>5, <4>6
    <3>2. ASSUME master.sync
          PROVE  /\ Retried(master.rem)'
                 /\ \A i \in DOMAIN toMaster' : toMaster'[i].kind # "ERR_SYNCH"
      <4>1. Retried(master.rem)
        BY <1>3, <2>2, <3>2 DEF IInv, Coming
      <4>2. PICK e, r : e = [kind |-> "RES"] /\ r = master.rem
        OBVIOUS
      <4>3. Retried(r)'
        BY <2>8, <4>1, <4>2
      <4>4. Retried(master.rem)'
        BY <1>1, <4>2, <4>3 DEF Retried
      <4>5. \A i \in DOMAIN Append(toMaster, e) :
              (i \in DOMAIN toMaster /\ Append(toMaster, e)[i] = toMaster[i]) \/ Append(toMaster, e)[i] = e
        BY <1>5, Pushed
      <4>6. toMaster' \in {toMaster, Append(toMaster, e)}
        BY <2>4, <4>2, AnswerIs DEF IInv
      <4>. QED  BY <1>7, <3>2, <4>2, <4>4, <4>5, <4>6
    <3>. QED  BY <1>1, <1>2, <1>3, <2>2, <3>1, <3>2 DEF Coming
  <2>. QED  BY <1>1, <1>2, <1>3, <2>7, <2>9, <2>10 DEF IInv, Typed, Minded, JobGood, Kind, Total, Block
<1>9. CASE Declines
  <2>1. PICK e : Answer(e) /\ ((e.kind = "ERR_SEQUENCE" /\ e.rem = Left) \/ (e.kind \in Refusals /\ Stuck))
    BY <1>9 DEF Declines
  <2>2. toMaster' \in {toMaster, Append(toMaster, e)} /\ IsSequence(toMaster')
    BY <2>1, AnswerIs DEF IInv
  <2>3. UNCHANGED <<memory, mta, downRem, program>> /\ Left' = Left /\ Stuck' = Stuck
    BY <1>1, <1>9 DEF Declines, Left, Stuck, Kind
  <2>4. Staged'
    <3>1. \A p : Has(p)' <=> Has(p)
      BY <1>1, <2>3 DEF Has, Kind
    <3>2. PICK p : p = Total - Left
      OBVIOUS
    <3>3. Has(Total - Left)' <=> Has(p)'
      BY <1>3, <2>3, <3>2 DEF Has
    <3>4. Has(Total - Left) <=> Has(p)
      BY <3>2
    <3>5. Left' > 0 => Left' + DownChunk <= Total /\ Has(Total - Left)'
      BY <1>3, <2>3, <3>1, <3>3, <3>4 DEF IInv, Staged
    <3>. QED  BY <1>1, <1>3, <1>6, <2>3, <3>5 DEF IInv, Staged
  <2>5. ASSUME NEW r, Retried(r) PROVE Retried(r)'
    BY <1>2, <1>3, <2>3, <2>5 DEF Retried
  <2>6. Left \in Nat /\ Retried(Left)'
    <3>1. Left \in Nat /\ (Left > 0 => Left + DownChunk <= Total)
      BY <1>3, <1>4 DEF IInv, Staged, Typed, Held, Left
    <3>2. PICK r : r = Left
      OBVIOUS
    <3>3. Retried(r)'
      BY <1>2, <1>3, <1>4, <2>3, <3>1, <3>2 DEF Retried
    <3>. QED  BY <2>3, <3>1, <3>2, <3>3 DEF Retried
  <2>7. \A i \in DOMAIN toMaster' : (i \in DOMAIN toMaster /\ toMaster'[i] = toMaster[i]) \/ toMaster'[i] = e
    <3>1. \A i \in DOMAIN Append(toMaster, e) :
            (i \in DOMAIN toMaster /\ Append(toMaster, e)[i] = toMaster[i]) \/ Append(toMaster, e)[i] = e
      BY <1>5, Pushed
    <3>. QED  BY <2>2, <3>1
  <2>8. Coming'
    <3>1. ASSUME NEW i \in DOMAIN toMaster', ~master.sync
          PROVE  OfBlock(i)'
      <4>1. PICK c, r : c = toMaster'[i] /\ r = Left
        OBVIOUS
      <4>2. CASE i \in DOMAIN toMaster /\ toMaster'[i] = toMaster[i]
        <5>1. \/ c.kind = "ERR_SEQUENCE" /\ c.rem \in Nat /\ Retried(c.rem)
              \/ c.kind \in Refusals /\ Stuck
          BY <1>7, <3>1, <4>1, <4>2
        <5>2. CASE c.kind = "ERR_SEQUENCE" /\ c.rem \in Nat /\ Retried(c.rem)
          <6>1. Retried(c.rem)'
            BY <2>5, <5>2
          <6>. QED  BY <1>10, <4>1, <5>2, <6>1
        <5>3. CASE c.kind \in Refusals /\ Stuck
          BY <1>10, <2>3, <4>1, <5>3
        <5>. QED  BY <5>1, <5>2, <5>3
      <4>3. CASE toMaster'[i] = e
        <5>1. CASE e.kind = "ERR_SEQUENCE" /\ e.rem = Left
          <6>1. c.rem = r /\ c.rem \in Nat
            BY <2>6, <4>1, <4>3, <5>1
          <6>2. Retried(c.rem)'
            BY <2>3, <2>6, <4>1, <6>1 DEF Retried
          <6>. QED  BY <1>10, <4>1, <4>3, <5>1, <6>1, <6>2
        <5>2. CASE e.kind \in Refusals /\ Stuck
          BY <1>10, <2>3, <4>1, <4>3, <5>2
        <5>. QED  BY <2>1, <5>1, <5>2
      <4>. QED  BY <2>7, <4>2, <4>3
    <3>2. ASSUME master.sync
          PROVE  /\ master.stage = "refused" => Stuck'
                 /\ master.stage # "refused" => Retried(master.rem)'
                 /\ \A i \in DOMAIN toMaster' : toMaster'[i].kind # "ERR_SYNCH"
      <4>1. PICK r : r = master.rem
        OBVIOUS
      <4>2. master.stage # "refused" => Retried(r)'
        BY <1>3, <2>5, <3>2, <4>1 DEF IInv, Coming
      <4>3. master.stage # "refused" => Retried(master.rem)'
        BY <1>1, <4>1, <4>2 DEF Retried
      <4>4. e.kind # "ERR_SYNCH"
        BY <2>1 DEF Refusals
      <4>. QED  BY <1>7, <2>3, <2>7, <3>2, <4>3, <4>4 DEF IInv, Coming
    <3>. QED  BY <1>1, <1>2, <1>3, <3>1, <3>2 DEF Coming
  <2>. QED  BY <1>1, <1>2, <1>3, <2>2, <2>4, <2>8 DEF IInv, Typed, Minded, JobGood, Kind, Total, Block
<1>. QED  BY <1>1, <1>8, <1>9

-----------------------------------------------------------------------------
(* Steps that leave nothing on the way                                     *)

\* Between two jobs, and before the first command of one.
LEMMA Settled ==
  ASSUME Typed', master'.stage \in {"idle", "start"}, ~master'.sync, master'.stage = "start" => master'.pos = 0,
         upRem' = 0, downRem' = 0, program'.rem = 0, toSlave' = <<>>, toMaster' = <<>>
  PROVE  IInv'
<1>1. Staged'
  BY DEF Staged, Kind, Blockwise, Left
<1>2. Going'
  BY DEF Going, InBlock
<1>3. Coming'
  BY DEF Coming
<1>4. ~Uploading'
  BY DEF Uploading
<1>. QED  BY <1>1, <1>2, <1>3, <1>4 DEF IInv

LEMMA Same ==
  ASSUME IInv, UNCHANGED <<state, toSlave, toMaster, master, faults>>
  PROVE  IInv'
<1>. USE DEF state
<1>1. Typed'
  <2>1. Typed
    BY DEF IInv
  <2>2. Held'
    BY <2>1 DEF Typed, Held
  <2>3. Minded'
    BY <2>1 DEF Typed, Minded
  <2>4. JobGood'
    BY <2>1 DEF Typed, JobGood, Kind, Total, Block
  <2>. QED  BY <2>1, <2>2, <2>3, <2>4 DEF Typed
<1>2. Staged'
  BY DEF IInv, Staged, Kind, OnJob, Left, Uploading, Has, Total
<1>3. Going'
  BY DEF IInv, Going, InBlock, Kind, Frame, Total, Call, OnJob, Left
<1>4. Coming'
  BY DEF IInv, Coming, InBlock, Uploading, Kind, Frame, Total, OnJob, Left, Stuck, Retried, NoFirst, OfBlock, Has, Result, Slice
<1>5. Uploading' => \E o : Arriving(o)'
  <2>1. Uploading' = Uploading
    BY DEF Uploading, Kind
  <2>2. \A o : Arriving(o)' <=> Arriving(o)
    BY DEF Arriving, Unread, Total
  <2>. QED  BY <2>1, <2>2 DEF IInv
<1>. QED  BY <1>1, <1>2, <1>3, <1>4, <1>5 DEF IInv

\* What SYNCH finds.
LEMMA SynchStep ==
  ASSUME IInv, Synch
  PROVE  IInv'
<1>1. /\ IsSequence(toSlave') /\ Command = toSlave[1] /\ 1 \in DOMAIN toSlave /\ Command.cmd = "SYNCH" /\ toSlave # <<>>
      /\ toSlave' = <<>> <=> Len(toSlave) = 1
  BY Taken DEF IInv, Typed, Synch, Handle
<1>2. master.sync /\ toSlave' = <<>>
  <2>1. ~(InBlock /\ Frame(toSlave[1]))
    BY <1>1, FrameCmd DEF InBlock
  <2>2. ~(master.stage \in {"open", "answer"} /\ toSlave[1] = Call)
    BY <1>1, CallCmd DEF IInv
  <2>. QED  BY <1>1, <2>1, <2>2 DEF IInv, Going
<1>3. UNCHANGED <<memory, mta, downRem, upRem, worker, program, master>>
  BY DEF Synch, state, Handle
<1>4. PICK e : e = [kind |-> "ERR_SYNCH"] /\ Answer(e)
  BY DEF Synch
<1>5. faults' \in 0..MaxFaults /\ toMaster' \in {toMaster, Append(toMaster, e)} /\ IsSequence(toMaster')
  BY <1>4, AnswerIs DEF IInv
<1>6. Typed'
  <2>1. Typed
    BY DEF IInv
  <2>2. Held'
    BY <1>3, <1>5, <2>1 DEF Typed, Held
  <2>3. Minded'
    BY <1>3, <2>1 DEF Typed, Minded
  <2>4. JobGood'
    BY <1>3, <2>1 DEF Typed, JobGood, Kind, Total, Block
  <2>. QED  BY <1>1, <1>5, <2>2, <2>3, <2>4 DEF Typed
<1>7. ~Uploading /\ ~Uploading' /\ Kind' = Kind /\ Left' = Left /\ Total' = Total /\ Stuck' = Stuck
  BY <1>2, <1>3 DEF Uploading, Kind, Left, Total, Stuck
<1>8. Staged'
  <2>1. \A p : Has(p)' <=> Has(p)
    BY <1>3, <1>7 DEF Has
  <2>2. PICK p : p = Total - Left
    OBVIOUS
  <2>3. Has(Total - Left)' <=> Has(p)'
    BY <1>7, <2>2 DEF Has
  <2>4. Has(Total - Left) <=> Has(p)
    BY <2>2
  <2>. QED  BY <1>2, <1>3, <1>7, <2>1, <2>3, <2>4 DEF IInv, Staged
<1>9. Going'
  BY <1>2, <1>3 DEF Going
<1>10. Coming'
  <2>1. \A i \in DOMAIN toMaster' : toMaster'[i].kind = "ERR_SYNCH" => i = Len(toMaster') /\ toSlave' = <<>>
    <3>1. \A i \in DOMAIN toMaster : toMaster[i].kind # "ERR_SYNCH"
      BY <1>1, <1>2 DEF IInv, Coming
    <3>2. \A i \in DOMAIN Append(toMaster, e) :
            \/ i \in DOMAIN toMaster /\ Append(toMaster, e)[i] = toMaster[i]
            \/ i = Len(Append(toMaster, e))
      BY Pushed DEF IInv, Typed
    <3>. QED  BY <1>2, <1>5, <3>1, <3>2
  <2>2. master.stage = "refused" => Stuck'
    BY <1>2, <1>7 DEF IInv, Coming
  <2>3. Kind \in Blockwise /\ master.stage # "refused" => Retried(master.rem)'
    BY <1>2, <1>3, <1>7 DEF IInv, Coming, Retried, NoFirst
  <2>4. Kind \notin Blockwise => master.rem = 0
    BY <1>2 DEF IInv, Coming
  <2>. QED  BY <1>2, <1>3, <1>7, <2>1, <2>2, <2>3, <2>4 DEF Coming
<1>. QED  BY <1>6, <1>7, <1>8, <1>9, <1>10 DEF IInv

-----------------------------------------------------------------------------
(* What the master asks                                                    *)

\* The places of a job are intervals, of one kind of memory.
LEMMA PlaceFacts ==
  ASSUME NEW kind \in JobKinds, NEW block \in Places(kind)
  PROVE  \E a, b \in Addrs : /\ a <= b /\ block = a..b /\ First(block) = a /\ Cardinality(block) = b - a + 1
                             /\ kind \notin TextJobs => block \subseteq ReadOnly \/ block \cap ReadOnly = {}
<1>1. Size \in Nat /\ JobSizes \subseteq Addrs /\ \A text \in Texts : \E a, b \in Addrs : a <= b /\ text = a..b
  BY TransferAssumption
<1>2. \E a, b \in Addrs : a <= b /\ block = a..b
  <2>1. CASE kind \in TextJobs
    BY <1>1, <2>1 DEF Places
  <2>2. CASE kind \notin TextJobs
    <3>1. PICK a \in Addrs, n \in JobSizes : block = a..a + n - 1 /\ block \subseteq Addrs
      BY <2>2 DEF Places, Blocks
    <3>2. n \in 1..Size /\ a \in 1..Size
      BY <1>1 DEF Addrs
    <3>3. a + n - 1 \in a..a + n - 1 /\ a <= a + n - 1
      BY <1>1, <3>2
    <3>4. a + n - 1 \in Addrs
      BY <3>1, <3>3
    <3>. QED  BY <3>1, <3>3, <3>4
  <2>. QED  BY <2>1, <2>2
<1>3. PICK a \in Addrs, b \in Addrs : a <= b /\ block = a..b
  BY <1>2
<1>4. a \in Int /\ b \in Int
  BY <1>1 DEF Addrs
<1>5. Cardinality(block) = b - a + 1
  BY <1>3, <1>4, FS_Interval
<1>6. First(block) = a
  <2>1. a \in block /\ \A x \in block : a <= x
    BY <1>3, <1>4
  <2>2. \A x \in block : (\A y \in block : x <= y) => x = a
    <3>1. \A x \in block : x \in Int /\ a <= x
      BY <1>3, <1>4
    <3>. QED  BY <1>4, <2>1, <3>1
  <2>. QED  BY <2>1, <2>2 DEF First
<1>7. kind \notin TextJobs => block \subseteq ReadOnly \/ block \cap ReadOnly = {}
  BY DEF Places
<1>. QED  BY <1>3, <1>5, <1>6, <1>7

LEMMA BeginStep ==
  ASSUME IInv, Begin
  PROVE  IInv'
<1>0. PICK kind \in JobKinds : \E block \in Places(kind) :
        master' = [master EXCEPT !.job = [kind |-> kind, addr |-> First(block), data |-> Fresh(Cardinality(block))],
                                 !.stage = "start", !.pos = 0]
  BY DEF Begin
<1>1. PICK block \in Places(kind) :
        master' = [master EXCEPT !.job = [kind |-> kind, addr |-> First(block), data |-> Fresh(Cardinality(block))],
                                 !.stage = "start", !.pos = 0]
  BY <1>0
<1>2. PICK a \in Addrs, b \in Addrs :
        /\ a <= b /\ block = a..b /\ First(block) = a /\ Cardinality(block) = b - a + 1
        /\ kind \notin TextJobs => block \subseteq ReadOnly \/ block \cap ReadOnly = {}
  BY PlaceFacts
<1>3. a \in 1..Size /\ b \in 1..Size /\ Size \in Nat
  BY Constants DEF Addrs
<1>4. PICK n \in 1..Size : n = b - a + 1 /\ a + n - 1 = b
  BY <1>2, <1>3
<1>5. Fresh(n) \in Seq(0..255) /\ Len(Fresh(n)) = n
  <2>1. \A i \in 1..n : (100 * (master.done + 1) + i) % 256 \in 0..255
    <3>1. PICK d \in Nat : d = master.done
      BY MasterFields DEF IInv
    <3>2. \A i \in 1..n : 100 * (d + 1) + i \in Nat
      BY <1>3
    <3>3. \A x \in Nat : x % 256 \in 0..255
      OBVIOUS
    <3>. QED  BY <3>1, <3>2, <3>3
  <2>2. Fresh(n) \in [1..n -> 0..255]
    BY <2>1 DEF Fresh
  <2>3. Fresh(n) \in Seq(0..255)
    BY <1>3, <2>2
  <2>. QED  BY <1>3, <2>2, <2>3, LenProperties
<1>6. master.stage = "idle" /\ ~master.sync /\ toSlave = <<>> /\ toMaster = <<>> /\ master.rem = 0
  BY MasterFields DEF Begin, IInv, Staged
<1>7. UNCHANGED <<memory, mta, downRem, upRem, worker, program, toSlave, toMaster, faults>>
  BY DEF Begin, state
<1>8. master' = [job |-> [kind |-> kind, addr |-> a, data |-> Fresh(n)], stage |-> "start", pos |-> 0, got |-> master.got,
                 sync |-> FALSE, rem |-> 0, done |-> master.done]
  <2>1. master = [job |-> master.job, stage |-> master.stage, pos |-> master.pos, got |-> master.got,
                  sync |-> master.sync, rem |-> master.rem, done |-> master.done]
    BY DEF IInv, Typed, Minded
  <2>2. master.sync = FALSE
    BY <1>6, MasterFields DEF IInv
  <2>. QED  BY <1>1, <1>2, <1>4, <1>6, <2>1, <2>2
<1>9. Minded'
  BY <1>8, MasterFields DEF IInv, Minded
<1>10. JobGood'
  <2>1. master'.job \in [kind : JobKinds, addr : Addrs, data : Seq(0..255)]
    BY <1>5, <1>8
  <2>2. Total' = n /\ Kind' = kind /\ Block' = block
    BY <1>2, <1>4, <1>5, <1>8 DEF Total, Kind, Block
  <2>3. a + n - 1 <= Size
    BY <1>3, <1>4
  <2>. QED  BY <1>2, <1>8, <2>1, <2>2, <2>3 DEF JobGood
<1>11. Typed'
  BY <1>7, <1>9, <1>10 DEF IInv, Typed, Held
<1>12. upRem = 0 /\ downRem = 0 /\ program.rem = 0
  BY <1>6 DEF IInv, Staged, Uploading, Typed, Held
<1>. QED  BY <1>6, <1>7, <1>8, <1>11, <1>12, Settled

\* What stays when only the job goes on: all the slave has, and the job itself.
Onward == /\ UNCHANGED <<memory, mta, downRem, upRem, worker, program>> /\ faults' \in 0..MaxFaults
          /\ master' = [job |-> master.job, stage |-> master'.stage, pos |-> master'.pos, got |-> master'.got,
                        sync |-> master'.sync, rem |-> master'.rem, done |-> master'.done]
          /\ master'.stage \in {"idle", "start", "open", "run", "answer", "refused"}
          /\ master'.pos \in Nat /\ master'.sync \in BOOLEAN /\ master'.rem \in Nat /\ master'.done \in Nat
          /\ ~master'.sync => master'.rem = 0
          /\ IsSequence(toSlave') /\ IsSequence(toMaster')
          /\ master.stage # "idle"

LEMMA OnwardFacts ==
  ASSUME IInv, Onward
  PROVE  /\ Typed' /\ master'.job = master.job /\ Kind' = Kind /\ Total' = Total /\ Left' = Left /\ (Stuck' <=> Stuck) /\ (OnJob' <=> OnJob)
         /\ \A c : Frame(c)' <=> Frame(c)
         /\ \A p : Has(p)' <=> Has(p)
         /\ Has(Total - Left)' <=> Has(Total - Left)
         /\ Has(Total)' <=> Has(Total)
<1>1. master'.job = master.job
  BY DEF Onward
<1>2. Kind' = Kind /\ Total' = Total /\ Left' = Left /\ (Stuck' <=> Stuck) /\ (OnJob' <=> OnJob)
  BY <1>1 DEF Onward, Kind, Total, Left, Stuck, OnJob
<1>3. \A c : Frame(c)' <=> Frame(c)
  BY <1>1, <1>2 DEF Frame
<1>4. \A p : Has(p)' <=> Has(p)
  BY <1>1, <1>2 DEF Has, Onward
<1>5. Has(Total - Left)' <=> Has(Total - Left)
  BY <1>1, <1>2 DEF Has, Onward
<1>6. Has(Total)' <=> Has(Total)
  BY <1>1, <1>2 DEF Has, Onward
<1>7. Minded'
  BY <1>1 DEF Onward, Minded
<1>8. JobGood'
  BY <1>1, <1>2 DEF Onward, IInv, Typed, JobGood, Block
<1>9. Typed'
  BY <1>7, <1>8 DEF IInv, Typed, Held, Onward
<1>. QED  BY <1>1, <1>2, <1>3, <1>4, <1>5, <1>6, <1>9

\* A call that the master sends when nothing is under way.
LEMMA Asked ==
  ASSUME IInv, Onward, toSlave = <<>>, toMaster = <<>>, ~master.sync, ~master'.sync, ~InBlock', upRem = 0, downRem = 0,
         program.rem = 0, NEW c, c = Call', toSlave' = Append(toSlave, c), toMaster' = toMaster,
         master'.stage \in {"open", "answer"}, master'.stage = "open" => master'.pos = 0, master'.got = <<>>,
         master'.stage = "open" => Kind \notin {"SHORT_UPLOAD", "PROGRAM_CLEAR", "PROGRAM_RESET"},
         master'.stage = "answer" /\ Kind \in Bytewise \cup {"CHECKSUM"} => OnJob
  PROVE  IInv'
<1>1. /\ Typed' /\ master'.job = master.job /\ Kind' = Kind /\ Total' = Total /\ Left' = Left /\ (OnJob' <=> OnJob)
  BY OnwardFacts
<1>2. DOMAIN toSlave' = {1} /\ toSlave'[1] = c /\ Len(toSlave') = 1 /\ toSlave' # <<>>
  <2>1. IsSequence(toSlave) /\ Len(toSlave) = 0
    BY Nonempty DEF IInv, Typed
  <2>2. IsSequence(Append(toSlave, c)) /\ DOMAIN Append(toSlave, c) = {1} /\ Append(toSlave, c)[1] = c
    BY <2>1, PushedFirst
  <2>3. Len(Append(toSlave, c)) = Len(toSlave) + 1
    BY <2>1, Pushed
  <2>4. Append(toSlave, c) # <<>>
    BY <2>2, Nonempty
  <2>. QED  BY <2>1, <2>2, <2>3, <2>4
<1>3. Staged'
  <2>1. upRem' = 0 /\ downRem' = 0 /\ program'.rem = 0
    BY DEF Onward
  <2>2. Kind \in Blockwise => Left = 0
    BY DEF Left
  <2>. QED  BY <1>1, <2>1, <2>2 DEF Staged
<1>4. Going'
  BY <1>1, <1>2 DEF Going
<1>5. Coming'
  BY DEF Coming
<1>6. ASSUME Uploading' PROVE \E o : Arriving(o)'
  <2>1. Kind \in Bytewise /\ master'.stage = "answer"
    BY <1>1, <1>6 DEF Uploading
  <2>2. mta.addr = master.job.addr
    BY <2>1 DEF OnJob
  <2>3. master.job.addr \in 1..Size /\ Total \in 1..Size
    BY JobFacts DEF IInv, Onward
  <2>4. PICK o : o = [i \in {0} |-> 0]
    OBVIOUS
  <2>5. Len(toMaster') = 0 /\ o[0] = 0 /\ Unread' = Total
    BY <1>1, <1>2, <2>4 DEF Unread
  <2>6. master'.got \in Seq(0..255) /\ Len(master'.got) = 0
    BY EmptySeq
  <2>7. UNCHANGED mta
    BY DEF Onward
  <2>8. \A i : i \in 0..0 <=> i = 0
    OBVIOUS
  <2>9. \A i : i \notin 1..0
    OBVIOUS
  <2>10. mta'.addr + Unread' <= master'.job.addr + Total' /\ o[0] + Unread' <= Total' /\ mta'.addr = master'.job.addr + o[0]
    BY <1>1, <2>2, <2>3, <2>5, <2>7
  <2>11. \A i, j \in 0..0 : ~(i < j)
    OBVIOUS
  <2>12. Arriving(o)'
    BY <2>5, <2>6, <2>8, <2>9, <2>10, <2>11 DEF Arriving
  <2>. QED  BY <2>12
<1>. QED  BY <1>1, <1>3, <1>4, <1>5, <1>6 DEF IInv

LEMMA OpenStep ==
  ASSUME IInv, Open
  PROVE  IInv'
<1>1. /\ master.stage = "start" /\ ~master.sync /\ toSlave = <<>> /\ toMaster = <<>> /\ master.rem = 0 /\ upRem = 0
      /\ downRem = 0 /\ program.rem = 0
  BY MasterFields DEF Open, IInv, Staged, Uploading, Typed, Held
<1>2. PICK c : c = Opening(master.job, Total)
  OBVIOUS
<1>3. /\ UNCHANGED <<memory, mta, downRem, upRem, worker, program, faults>>
      /\ toSlave' = Append(toSlave, c) /\ toMaster' = toMaster
      /\ master' = [job |-> master.job,
                    stage |-> IF Kind \in {"SHORT_UPLOAD", "PROGRAM_CLEAR", "PROGRAM_RESET"} THEN "answer" ELSE "open",
                    pos |-> 0, got |-> <<>>, sync |-> master.sync, rem |-> master.rem, done |-> master.done]
  <2>1. master = [job |-> master.job, stage |-> master.stage, pos |-> master.pos, got |-> master.got,
                  sync |-> master.sync, rem |-> master.rem, done |-> master.done]
    BY DEF IInv, Typed, Minded
  <2>. QED  BY <1>2, <2>1 DEF Open, Post, state, Kind
<1>4. IsSequence(toSlave') /\ IsSequence(toMaster')
  BY <1>3, Pushed DEF IInv, Typed
<1>5. Onward
  BY <1>1, <1>3, <1>4, MasterFields DEF Onward, IInv, Typed, Held
<1>6. Kind' = Kind /\ Total' = Total
  BY <1>3 DEF Kind, Total
<1>7. c = Call'
  <2>1. Opening(master.job, Total)' = Opening(master.job, Total)
    BY <1>3 DEF Opening, Total
  <2>. QED  BY <1>2, <1>3, <1>6, <2>1 DEF Call, Bytewise, TextJobs
<1>8. ~InBlock'
  BY <1>3, <1>6 DEF InBlock, Blockwise
<1>. QED  BY <1>1, <1>3, <1>5, <1>7, <1>8, Asked DEF Bytewise, TextJobs

LEMMA AskStep ==
  ASSUME IInv, AskData \/ AskChecksum
  PROVE  IInv'
<1>1. /\ master.stage = "run" /\ Kind \in Bytewise \cup {"CHECKSUM"} /\ Kind \notin Blockwise
  BY DEF AskData, AskChecksum, Kind, Bytewise, Blockwise, TextJobs
<1>2. /\ ~master.sync /\ toSlave = <<>> /\ toMaster = <<>> /\ OnJob /\ master.got = <<>> /\ upRem = 0 /\ downRem = 0 /\ program.rem = 0
      /\ master.rem = 0
  BY <1>1, MasterFields DEF IInv, Staged, Uploading, Typed, Held, Blockwise, Bytewise, TextJobs
<1>3. PICK c : c = [cmd |-> IF Kind = "CHECKSUM" THEN "BUILD_CHECKSUM" ELSE "UPLOAD", size |-> Total]
  OBVIOUS
<1>4. /\ UNCHANGED <<memory, mta, downRem, upRem, worker, program, faults>>
      /\ toSlave' = Append(toSlave, c) /\ toMaster' = toMaster
      /\ master' = [job |-> master.job, stage |-> "answer", pos |-> master.pos, got |-> master.got,
                    sync |-> master.sync, rem |-> master.rem, done |-> master.done]
  <2>1. master = [job |-> master.job, stage |-> master.stage, pos |-> master.pos, got |-> master.got,
                  sync |-> master.sync, rem |-> master.rem, done |-> master.done]
    BY DEF IInv, Typed, Minded
  <2>. QED  BY <1>3, <2>1 DEF AskData, AskChecksum, Post, state, Kind, TextJobs
<1>5. IsSequence(toSlave') /\ IsSequence(toMaster')
  BY <1>4, Pushed DEF IInv, Typed
<1>6. Onward
  BY <1>1, <1>2, <1>4, <1>5, MasterFields DEF Onward, IInv, Typed, Held
<1>7. Kind' = Kind /\ Total' = Total
  BY <1>4 DEF Kind, Total
<1>8. c = Call'
  BY <1>1, <1>3, <1>4, <1>7 DEF Call, Bytewise, TextJobs
<1>9. ~InBlock'
  BY <1>1, <1>7 DEF InBlock
<1>. QED  BY <1>1, <1>2, <1>4, <1>6, <1>8, <1>9, Asked

LEMMA OpenNotStep ==
  ASSUME IInv, OpenNot
  PROVE  IInv'
<1>1. /\ master.stage = "start" /\ ~master.sync /\ toSlave = <<>> /\ toMaster = <<>> /\ master.rem = 0 /\ upRem = 0
      /\ downRem = 0 /\ program.rem = 0 /\ master.pos = 0 /\ Kind = "PROGRAM"
  BY MasterFields DEF OpenNot, IInv, Staged, Uploading, Typed, Held, Kind
<1>2. /\ UNCHANGED <<memory, mta, downRem, upRem, worker, program, faults, toSlave, toMaster>>
      /\ master' = [job |-> master.job, stage |-> "run", pos |-> 0, got |-> master.got,
                    sync |-> master.sync, rem |-> master.rem, done |-> master.done]
  <2>1. master = [job |-> master.job, stage |-> master.stage, pos |-> master.pos, got |-> master.got,
                  sync |-> master.sync, rem |-> master.rem, done |-> master.done]
    BY DEF IInv, Typed, Minded
  <2>. QED  BY <1>1, <2>1 DEF OpenNot, state
<1>3. Onward
  BY <1>1, <1>2, MasterFields DEF Onward, IInv, Typed, Held
<1>4. Typed' /\ Kind' = Kind /\ Total' = Total /\ Left' = Left
  BY <1>3, OnwardFacts
<1>5. Total \in 1..Size /\ Size \in Nat
  BY <1>1, JobFacts, Constants DEF IInv
<1>6. Staged'
  BY <1>1, <1>2, <1>4 DEF Staged, Left, Blockwise
<1>7. Going'
  BY <1>1, <1>2, <1>4, <1>5 DEF Going
<1>8. Coming' /\ ~Uploading'
  BY <1>1, <1>2 DEF Coming, Uploading
<1>. QED  BY <1>4, <1>6, <1>7, <1>8 DEF IInv

\* The frame that SendBlock makes.
LEMMA BlockFrame ==
  ASSUME IInv, SendBlock
  PROVE  \E c : /\ Frame(c) /\ c.rem = Total - master.pos /\ (c.cmd = Kind <=> master.pos = 0) /\ c.cmd # "SYNCH"
                /\ toSlave' = Append(toSlave, c)
                /\ master' = [master EXCEPT !.pos = @ + Least(DownChunk, c.rem),
                                !.stage = IF c.rem = Least(DownChunk, c.rem) THEN "answer" ELSE "run"]
<1>1. InBlock /\ master.stage = "run" /\ ~master.sync /\ Kind \in Blockwise
  BY DEF SendBlock, InBlock, Blockwise, Kind
<1>2. PICK t \in Nat, p \in Nat, d \in Nat : t = Total /\ p = master.pos /\ d = DownChunk
  BY <1>1, JobFacts, Constants, MasterFields DEF IInv
<1>3. p < t /\ d \in Nat \ {0}
  BY <1>1, <1>2, Constants DEF IInv, Going
<1>4. PICK r \in Nat, n \in Nat : r = t - p /\ n = Least(d, t - p)
  <2>1. t - p \in Nat
    BY <1>3
  <2>2. Least(d, t - p) \in Nat
    BY <2>1, LeastOf
  <2>. QED  BY <2>1, <2>2
<1>5. r \in 1..t /\ n \in 1..r /\ n <= d /\ (r > d => n = d) /\ (r = t <=> p = 0) /\ (p + n = t <=> r = n) /\ t - r = p
  BY <1>3, <1>4 DEF Least
<1>6. PICK size \in {n, d} :
        /\ toSlave' = Append(toSlave, [cmd |-> IF p = 0 THEN Kind ELSE NextOf[Kind], rem |-> r,
                                       data |-> [i \in 1..size |-> IF i <= n THEN master.job.data[p + i] ELSE 255]])
        /\ master' = [master EXCEPT !.pos = @ + n, !.stage = IF p + n = t THEN "answer" ELSE "run"]
  BY <1>2, <1>4 DEF SendBlock, Post, Kind
<1>7. PICK x : x = [i \in 1..size |-> IF i <= n THEN master.job.data[p + i] ELSE 255]
  OBVIOUS
<1>8. PICK c : c = [cmd |-> IF p = 0 THEN Kind ELSE NextOf[Kind], rem |-> r, data |-> x]
  OBVIOUS
<1>9. size \in Nat /\ n <= size /\ (r > d => size = d)
  BY <1>5
<1>10. x \in Seq(0..255) /\ Len(x) = size /\ \A i \in 1..n : x[i] = master.job.data[p + i]
  <2>1. master.job.data \in Seq(0..255) /\ Len(master.job.data) = t
    BY <1>1, <1>2, JobFacts DEF IInv
  <2>2. \A i \in 1..n : p + i \in 1..t
    BY <1>3, <1>4, <1>5
  <2>3. \A i \in 1..n : master.job.data[p + i] \in 0..255
    <3>1. PICK D \in Seq(0..255) : D = master.job.data
      BY <2>1
    <3>2. \A i \in 1..Len(D) : D[i] \in 0..255
      BY ElementOfSeq
    <3>. QED  BY <2>1, <2>2, <3>1, <3>2
  <2>4. \A i \in 1..size : (IF i <= n THEN master.job.data[p + i] ELSE 255) \in 0..255
    <3>1. \A i \in 1..size : i <= n => i \in 1..n
      BY <1>9
    <3>. QED  BY <2>3, <3>1
  <2>5. x \in [1..size -> 0..255]
    BY <1>7, <2>4
  <2>6. x \in Seq(0..255)
    BY <1>9, <2>5
  <2>7. \A i \in 1..n : i \in 1..size /\ i <= n
    BY <1>9
  <2>. QED  BY <1>7, <1>9, <2>5, <2>6, <2>7, LenProperties
<1>11. Least(DownChunk, c.rem) = n /\ c.rem = r /\ Total - c.rem = p
  BY <1>2, <1>4, <1>5, <1>8
<1>12. Frame(c)
  <2>1. c.cmd = IF c.rem = Total THEN Kind ELSE NextOf[Kind]
    BY <1>2, <1>5, <1>8
  <2>2. c.rem \in 1..Total /\ c.data = x
    BY <1>2, <1>5, <1>8
  <2>3. Len(c.data) >= Least(DownChunk, c.rem) /\ (c.rem > DownChunk => Len(c.data) = DownChunk)
    BY <1>2, <1>9, <1>10, <1>11, <2>2
  <2>4. \A i \in 1..Least(DownChunk, c.rem) : c.data[i] = master.job.data[Total - c.rem + i]
    BY <1>10, <1>11, <2>2
  <2>. QED  BY <1>10, <2>1, <2>2, <2>3, <2>4 DEF Frame
<1>13. (c.cmd = Kind <=> p = 0) /\ c.cmd # "SYNCH"
  BY <1>1, <1>8 DEF NextOf, Blockwise
<1>14. toSlave' = Append(toSlave, c)
  BY <1>6, <1>7, <1>8
<1>15. master' = [master EXCEPT !.pos = @ + Least(DownChunk, c.rem), !.stage = IF c.rem = Least(DownChunk, c.rem) THEN "answer" ELSE "run"]
  BY <1>5, <1>6, <1>11
<1>16. c.rem = Total - master.pos
  BY <1>2, <1>4, <1>11
<1>. QED  BY <1>2, <1>12, <1>13, <1>14, <1>15, <1>16

LEMMA SendBlockStep ==
  ASSUME IInv, SendBlock
  PROVE  IInv'
<1>1. InBlock /\ master.stage = "run" /\ ~master.sync /\ Kind \in Blockwise /\ ~Uploading /\ upRem = 0
  <2>1. InBlock /\ master.stage = "run" /\ ~master.sync /\ Kind \in Blockwise /\ ~Uploading
    BY DEF SendBlock, InBlock, Blockwise, Kind, Uploading
  <2>. QED  BY <2>1 DEF IInv, Staged, Typed, Held
<1>2. PICK c : /\ Frame(c) /\ c.rem = Total - master.pos /\ (c.cmd = Kind <=> master.pos = 0) /\ c.cmd # "SYNCH"
               /\ toSlave' = Append(toSlave, c)
               /\ master' = [master EXCEPT !.pos = @ + Least(DownChunk, c.rem),
                                !.stage = IF c.rem = Least(DownChunk, c.rem) THEN "answer" ELSE "run"]
  BY BlockFrame
<1>3. PICK t \in Nat, p \in Nat, d \in Nat \ {0} : t = Total /\ p = master.pos /\ d = DownChunk
  BY <1>1, JobFacts, Constants, MasterFields DEF IInv
<1>4. p < t
  BY <1>1, <1>3 DEF IInv, Going
<1>5. PICK r \in Nat \ {0} : r = c.rem /\ r = t - p
  BY <1>2, <1>3, <1>4
<1>6. PICK n \in Nat \ {0} : n = Least(DownChunk, c.rem) /\ n <= r /\ (n # r => n = d)
  <2>1. Least(d, r) \in Nat \ {0} /\ Least(d, r) <= r /\ (Least(d, r) # r => Least(d, r) = d)
    BY DEF Least
  <2>. QED  BY <1>3, <1>5, <2>1
<1>7. master' = [job |-> master.job, stage |-> IF r = n THEN "answer" ELSE "run", pos |-> p + n, got |-> master.got,
                 sync |-> FALSE, rem |-> 0, done |-> master.done]
  <2>1. master = [job |-> master.job, stage |-> master.stage, pos |-> master.pos, got |-> master.got,
                  sync |-> master.sync, rem |-> master.rem, done |-> master.done]
    BY DEF IInv, Typed, Minded
  <2>2. master.sync = FALSE /\ master.rem = 0
    BY <1>1, MasterFields DEF IInv
  <2>. QED  BY <1>2, <1>3, <1>5, <1>6, <2>1, <2>2
<1>8. UNCHANGED <<memory, mta, downRem, upRem, worker, program, faults, toMaster>>
  BY DEF SendBlock, Post, state
<1>9. IsSequence(toSlave) /\ IsSequence(toSlave') /\ IsSequence(toMaster')
  BY <1>2, <1>8, Pushed DEF IInv, Typed
<1>10. Onward
  <2>1. /\ master'.stage \in {"run", "answer"} /\ master'.pos = p + n /\ master'.got = master.got /\ master'.sync = FALSE
        /\ master'.rem = 0 /\ master'.done = master.done
    BY ONLY <1>7
  <2>2. p + n \in Nat /\ master.done \in Nat /\ faults' \in 0..MaxFaults
    <3>1. faults \in 0..MaxFaults
      BY DEF IInv, Typed, Held
    <3>. QED  BY <1>8, <3>1, MasterFields DEF IInv
  <2>3. master' = [job |-> master.job, stage |-> master'.stage, pos |-> master'.pos, got |-> master'.got,
                   sync |-> master'.sync, rem |-> master'.rem, done |-> master'.done]
    BY ONLY <1>7, <2>1
  <2>4. master'.stage \in {"idle", "start", "open", "run", "answer", "refused"} /\ master.stage # "idle"
    BY <1>1, <2>1
  <2>5. master'.pos \in Nat /\ master'.rem \in Nat /\ master'.done \in Nat
    BY ONLY <2>1, <2>2
  <2>6. master'.sync \in BOOLEAN /\ (~master'.sync => master'.rem = 0)
    BY ONLY <2>1
  <2>. QED  BY ONLY <1>8, <1>9, <2>2, <2>3, <2>4, <2>5, <2>6 DEF Onward
<1>11. /\ Typed' /\ Kind' = Kind /\ Total' = Total /\ Left' = Left /\ (Stuck' <=> Stuck) /\ (OnJob' <=> OnJob)
       /\ \A x : Frame(x)' <=> Frame(x)
       /\ Has(Total - Left)' <=> Has(Total - Left)
       /\ Has(Total)' <=> Has(Total)
  BY <1>10, OnwardFacts
<1>12. InBlock' /\ ~Uploading' /\ master'.stage \in {"run", "answer"} /\ ~master'.sync /\ master'.pos # 0
  BY <1>1, <1>7, <1>11 DEF InBlock, Uploading, Blockwise, Bytewise, TextJobs
<1>13. Staged'
  BY <1>1, <1>8, <1>11, <1>12 DEF IInv, Staged
\* The frames on their way, with the new one.
<1>14. /\ Len(toSlave) \in Nat /\ DOMAIN toSlave = 1..Len(toSlave) /\ DOMAIN toSlave' = 1..Len(toSlave) + 1
       /\ \A i \in DOMAIN toSlave : toSlave'[i] = toSlave[i]
       /\ toSlave'[Len(toSlave) + 1] = c
  BY <1>2, <1>9, Pushed
<1>15. \A i \in DOMAIN toSlave' : i \in DOMAIN toSlave \/ (i = Len(toSlave) + 1 /\ toSlave'[i] = c)
  BY <1>14
<1>16. \A i \in DOMAIN toSlave : Frame(toSlave[i]) /\ toSlave[i].cmd # "SYNCH"
  <2>1. \A i \in DOMAIN toSlave : Frame(toSlave[i])
    BY <1>1 DEF IInv, Going
  <2>. QED  BY <1>1, <2>1, FrameCmd
<1>17. \A i \in DOMAIN toSlave :
         /\ \A j \in DOMAIN toSlave : i < j => toSlave[i].rem >= toSlave[j].rem + DownChunk
         /\ toSlave[i].rem = Total => Left = 0 /\ (Kind = "DOWNLOAD" => OnJob)
         /\ toSlave[i].rem >= (Total - master.pos) + DownChunk /\ toSlave[i].rem \in 1..Total
  BY <1>1, <1>16 DEF IInv, Going, Frame
<1>18. p = 0 => toSlave = <<>> /\ toMaster = <<>> /\ Left = 0 /\ (Kind = "DOWNLOAD" => OnJob)
  BY <1>1, <1>3 DEF IInv, Staged
<1>19. Going'
  <2>1. ASSUME NEW i \in DOMAIN toSlave'
        PROVE  /\ (InBlock /\ Frame(toSlave[i]) /\ (master.sync => i < Len(toSlave)))'
               /\ \A j \in DOMAIN toSlave' : i < j => toSlave'[i].rem >= toSlave'[j].rem + DownChunk
               /\ toSlave'[i].rem = Total' => Left' = 0 /\ (Kind' = "DOWNLOAD" => OnJob')
               /\ master'.stage = "run" => toSlave'[i].rem >= (Total' - master'.pos) + DownChunk
    <3>1. PICK x : x = toSlave'[i]
      OBVIOUS
    <3>2. Frame(x)
      BY <1>2, <1>14, <1>15, <1>16, <3>1
    <3>3. Frame(toSlave[i])'
      <4>1. Frame(x)'
        BY <1>11, <3>2
      <4>. QED  BY <3>1, <4>1 DEF Frame
    <3>4. CASE i \in DOMAIN toSlave
      <4>1. x = toSlave[i]
        BY <1>14, <3>1, <3>4
      <4>2. x.rem >= (Total - master.pos) + DownChunk /\ x.rem \in 1..Total
        BY <1>17, <3>4, <4>1
      <4>3. PICK k \in Nat : k = x.rem /\ k >= (t - p) + d
        BY <1>3, <4>2
      <4>4. master'.stage = "run" => k >= (t - (p + n)) + d
        BY <1>4, <4>3
      <4>5. \A j \in DOMAIN toSlave' : i < j => x.rem >= toSlave'[j].rem + DownChunk
        <5>1. x.rem >= c.rem + DownChunk
          BY <1>3, <1>5, <4>3
        <5>. QED  BY <1>14, <1>15, <1>17, <3>4, <4>1, <5>1
      <4>6. x.rem = Total => Left = 0 /\ (Kind = "DOWNLOAD" => OnJob)
        BY <1>17, <3>4, <4>1
      <4>. QED  BY <1>3, <1>7, <1>11, <1>12, <3>1, <3>3, <4>3, <4>4, <4>5, <4>6
    <3>5. CASE i = Len(toSlave) + 1 /\ x = c
      <4>1. \A j \in DOMAIN toSlave' : ~(i < j)
        BY <1>14, <3>5
      <4>2. r = t => p = 0
        BY <1>4, <1>5
      <4>3. r # n => r >= (t - (p + n)) + d
        BY <1>4, <1>5, <1>6
      <4>. QED  BY <1>3, <1>5, <1>7, <1>11, <1>12, <1>18, <3>1, <3>3, <3>5, <4>1, <4>2, <4>3
    <3>. QED  BY <1>15, <3>1, <3>4, <3>5
  <2>2. master'.stage = "run" => master'.pos < Total'
    <3>1. r # n => p + n < t
      BY <1>4, <1>5, <1>6
    <3>. QED  BY <1>3, <1>7, <1>11, <3>1
  <2>. QED  BY <1>12, <2>1, <2>2 DEF Going
<1>20. Coming'
  <2>1. ASSUME NEW i \in DOMAIN toMaster PROVE OfBlock(i)'
    <3>1. p # 0
      BY <1>18, <2>1
    <3>2. NoFirst => NoFirst'
      BY <1>2, <1>3, <1>11, <1>14, <1>15, <3>1 DEF NoFirst
    <3>3. OfBlock(i) /\ toMaster[i].kind # "RES"
      BY <1>1, <2>1 DEF IInv, Coming, OfBlock, Refusals
    <3>. QED  BY <1>8, <1>11, <3>2, <3>3 DEF OfBlock, Retried
  <2>. QED  BY <1>8, <1>12, <2>1 DEF Coming
<1>. QED  BY <1>11, <1>12, <1>13, <1>19, <1>20 DEF IInv

-----------------------------------------------------------------------------
(* What the master hears, and what it does not                             *)

LEMMA Heard ==
  ASSUME IInv, toMaster # <<>>, toMaster' = Tail(toMaster)
  PROVE  /\ IsSequence(toMaster') /\ Head(toMaster) = toMaster[1] /\ 1 \in DOMAIN toMaster
         /\ Len(toMaster) \in Nat \ {0} /\ Len(toMaster') = Len(toMaster) - 1
         /\ DOMAIN toMaster = 1..Len(toMaster) /\ DOMAIN toMaster' = 1..Len(toMaster) - 1
         /\ \A i \in DOMAIN toMaster' : i + 1 \in DOMAIN toMaster /\ toMaster'[i] = toMaster[i + 1]
         /\ toMaster' = <<>> <=> Len(toMaster) = 1
         /\ master.stage \notin {"idle", "start"}
<1>1. IsSequence(toMaster) /\ IsSequence(toMaster')
  BY Popped DEF IInv, Typed
<1>2. toMaster' = <<>> <=> Len(toMaster') = 0
  BY <1>1, Nonempty
<1>3. master.stage \notin {"idle", "start"}
  BY DEF IInv, Staged
<1>. QED  BY <1>1, <1>2, <1>3, Popped

\* The answers behind the first one of a block.
LEMMA BehindAnswer ==
  ASSUME IInv, InBlock, ~master.sync, toMaster # <<>>, toMaster' = Tail(toMaster)
  PROVE  /\ OfBlock(1)
         /\ \A i \in DOMAIN toMaster' :
              \/ /\ toMaster'[i].kind = "RES" /\ i = Len(toMaster') /\ toSlave = <<>> /\ master.stage = "answer"
                 /\ Left = 0 /\ Has(Total)
              \/ toMaster'[i].kind = "ERR_SEQUENCE" /\ toMaster'[i].rem \in Nat /\ Retried(toMaster'[i].rem)
              \/ toMaster'[i].kind \in Refusals /\ Stuck
<1>1. \A i \in DOMAIN toMaster : OfBlock(i)
  BY DEF IInv, Coming
<1>. QED  BY <1>1, Heard DEF OfBlock

\* An answer is lost, or nobody listens to it.
LEMMA AnswerLost ==
  ASSUME IInv, toMaster # <<>>, toMaster' = Tail(toMaster), UNCHANGED <<state, toSlave, master>>, faults' \in 0..MaxFaults
  PROVE  IInv'
<1>1. /\ IsSequence(toMaster') /\ 1 \in DOMAIN toMaster
      /\ Len(toMaster) \in Nat \ {0} /\ Len(toMaster') = Len(toMaster) - 1
      /\ DOMAIN toMaster = 1..Len(toMaster) /\ DOMAIN toMaster' = 1..Len(toMaster) - 1
      /\ \A i \in DOMAIN toMaster' : i + 1 \in DOMAIN toMaster /\ toMaster'[i] = toMaster[i + 1]
      /\ toMaster' = <<>> <=> Len(toMaster) = 1
      /\ master.stage \notin {"idle", "start"}
  BY Heard
<1>2. Onward
  BY <1>1 DEF Onward, state, IInv, Typed, Minded
<1>3. /\ Typed' /\ Kind' = Kind /\ Total' = Total /\ Left' = Left /\ (Stuck' <=> Stuck) /\ (OnJob' <=> OnJob)
      /\ \A x : Frame(x)' <=> Frame(x)
      /\ Has(Total - Left)' <=> Has(Total - Left)
      /\ Has(Total)' <=> Has(Total)
  BY <1>2, OnwardFacts
<1>4. InBlock' = InBlock /\ Uploading' = Uploading
  BY <1>3 DEF InBlock, Uploading
<1>5. Staged'
  BY <1>1, <1>3, <1>4 DEF state, IInv, Staged
<1>6. Going'
  <2>1. \A i \in DOMAIN toSlave : Frame(toSlave[i])' <=> Frame(toSlave[i])
    BY <1>3 DEF Frame
  <2>. QED  BY <1>3, <1>4, <2>1 DEF IInv, Going
<1>7. CASE master.sync
  <2>1. ~InBlock' \/ master'.sync
    BY <1>7
  <2>2. \A r : Retried(r)' <=> Retried(r)
    BY <1>3 DEF Retried, NoFirst
  <2>3. Retried(master.rem)' <=> Retried(master.rem)
    BY <1>3 DEF Retried, NoFirst
  <2>4. \A i \in DOMAIN toMaster' : toMaster'[i].kind = "ERR_SYNCH" => i = Len(toMaster') /\ toSlave = <<>>
    <3>1. \A i \in DOMAIN toMaster : toMaster[i].kind = "ERR_SYNCH" => i = Len(toMaster) /\ toSlave = <<>>
      BY <1>7 DEF IInv, Coming
    <3>. QED  BY <1>1, <3>1
  <2>5. Coming'
    BY <1>3, <1>7, <2>3, <2>4 DEF IInv, Coming
  <2>. QED  BY <1>3, <1>4, <1>5, <1>6, <1>7, <2>5 DEF IInv, Uploading
<1>8. CASE ~master.sync /\ InBlock
  <2>1. ASSUME NEW i \in DOMAIN toMaster' PROVE OfBlock(i)'
    <3>1. \/ /\ toMaster'[i].kind = "RES" /\ i = Len(toMaster') /\ toSlave = <<>> /\ master.stage = "answer"
             /\ Left = 0 /\ Has(Total)
          \/ toMaster'[i].kind = "ERR_SEQUENCE" /\ toMaster'[i].rem \in Nat /\ Retried(toMaster'[i].rem)
          \/ toMaster'[i].kind \in Refusals /\ Stuck
      BY <1>8, BehindAnswer
    <3>. QED  BY <1>3, <3>1 DEF OfBlock, Retried, NoFirst
  <2>2. Coming'
    BY <1>3, <1>4, <1>8, <2>1 DEF Coming
  <2>3. ~Uploading
    BY <1>8 DEF Uploading, InBlock, Blockwise, Bytewise, TextJobs
  <2>. QED  BY <1>3, <1>4, <1>5, <1>6, <2>2, <2>3 DEF IInv
<1>9. CASE ~master.sync /\ ~InBlock /\ ~Uploading
  <2>1. \A i \in DOMAIN toMaster : i = Len(toMaster)
    BY <1>9 DEF IInv, Coming
  <2>2. DOMAIN toMaster' = {}
    BY <1>1, <2>1
  <2>. QED  BY <1>3, <1>4, <1>5, <1>6, <1>9, <2>2 DEF Coming, IInv
<1>10. CASE Uploading
  <2>1. ~master.sync /\ Coming'
    BY <1>4, <1>10 DEF Coming, Uploading, InBlock, Blockwise, Bytewise, TextJobs
  <2>2. PICK o : Arriving(o)
    BY <1>10 DEF IInv
  <2>3. \E p : Arriving(p)'
    <3>1. PICK L \in Nat \ {0} : L = Len(toMaster)
      BY <1>1
    <3>2. /\ master.got \in Seq(0..255) /\ o[0] = Len(master.got)
          /\ \A i \in 0..L : o[i] \in Nat
          /\ \A i \in 1..L : /\ toMaster[i].kind = "DATA" /\ toMaster[i].data \in Seq(0..255)
                             /\ o[i] = o[i - 1] + Len(toMaster[i].data)
          /\ \A i, j \in 0..L : i < j => o[i] < o[j]
          /\ o[L] + Unread <= Total /\ mta.addr + Unread <= master.job.addr + Total
      BY <2>2, <3>1 DEF Arriving
    <3>3. PICK z \in Nat, d \in Nat \ {0} : z = o[0] /\ o[1] = z + d
      <4>1. o[0] \in Nat /\ o[1] \in Nat /\ o[0] < o[1]
        BY <3>2
      <4>2. o[1] - o[0] \in Nat \ {0} /\ o[1] = o[0] + (o[1] - o[0])
        BY <4>1
      <4>. QED  BY <4>1, <4>2
    <3>4. \A i \in 1..L : o[i] - d \in Nat
      <4>1. \A i \in 1..L : o[1] <= o[i] /\ o[i] \in Nat
        BY <3>2
      <4>. QED  BY <3>3, <4>1
    <3>5. PICK p : p = [i \in 0..L - 1 |-> o[i + 1] - d]
      OBVIOUS
    <3>6. \A i \in 0..L - 1 : i + 1 \in 1..L /\ i + 1 \in 0..L /\ p[i] = o[i + 1] - d /\ p[i] \in Nat
      BY <3>4, <3>5
    <3>7. p[0] = o[0]
      BY <3>3, <3>6
    <3>8. ASSUME NEW i \in 1..L - 1
          PROVE  /\ toMaster'[i].kind = "DATA" /\ toMaster'[i].data \in Seq(0..255)
                 /\ p[i] = p[i - 1] + Len(toMaster'[i].data)
      <4>1. toMaster'[i] = toMaster[i + 1] /\ i + 1 \in 1..L /\ i \in 0..L - 1 /\ i - 1 \in 0..L - 1 /\ (i + 1) - 1 = i /\ (i - 1) + 1 = i
        BY <1>1, <3>1
      <4>2. o[i + 1] = o[i] + Len(toMaster[i + 1].data) /\ toMaster[i + 1].kind = "DATA" /\ toMaster[i + 1].data \in Seq(0..255)
        BY <3>2, <4>1
      <4>3. o[i] \in Nat /\ Len(toMaster[i + 1].data) \in Nat
        BY <3>2, <4>1, <4>2, LenProperties
      <4>4. p[i] = o[i + 1] - d /\ p[i - 1] = o[i] - d
        BY <3>6, <4>1
      <4>5. PICK l \in Nat, q \in Nat : l = Len(toMaster[i + 1].data) /\ q = o[i]
        BY <4>3
      <4>6. p[i] = (q + l) - d /\ p[i - 1] = q - d
        BY <4>2, <4>4, <4>5
      <4>7. p[i] = p[i - 1] + l
        BY <4>6
      <4>. QED  BY <4>1, <4>2, <4>5, <4>7
    <3>9. ASSUME NEW i \in 0..L - 1, NEW j \in 0..L - 1, i < j PROVE p[i] < p[j]
      <4>1. o[i + 1] < o[j + 1] /\ o[i + 1] \in Nat /\ o[j + 1] \in Nat
        BY <3>2, <3>6, <3>9
      <4>. QED  BY <3>6, <4>1
    <3>10. p[L - 1] + Unread < Total
      <4>1. L - 1 \in 0..L - 1 /\ (L - 1) + 1 = L
        OBVIOUS
      <4>2. p[L - 1] = o[L] - d /\ o[L] \in Nat
        BY <3>2, <3>6, <4>1
      <4>3. PICK u \in Nat, t \in Nat, q \in Nat : u = Unread /\ t = Total /\ q = o[L]
        <5>1. Total \in Nat /\ upRem \in Nat
          <6>1. Typed /\ Size \in Nat
            BY Constants DEF IInv
          <6>2. Total \in 1..Size
            BY <1>1, <6>1, JobFacts
          <6>3. upRem \in 0..Size
            BY ONLY <6>1 DEF Typed, Held
          <6>. QED  BY ONLY <6>1, <6>2, <6>3
        <5>. QED  BY <4>2, <5>1 DEF Unread
      <4>4. q + u <= t
        BY <3>2, <4>3
      <4>5. (q - d) + u < t
        BY ONLY <4>4
      <4>. QED  BY ONLY <4>2, <4>3, <4>5
    <3>11. Unread' = Unread /\ UNCHANGED <<memory, mta, master>> /\ Len(toMaster') = L - 1
      BY <1>1, <1>3, <3>1 DEF Unread, state
    <3>12. p[L - 1] + Unread <= Total /\ p[L - 1] + Unread # Total
      <4>1. p[L - 1] + Unread \in Int /\ Total \in Int
        <5>1. Total \in Nat /\ upRem \in Nat
          <6>1. Typed /\ Size \in Nat
            BY Constants DEF IInv
          <6>2. Total \in 1..Size
            BY <1>1, <6>1, JobFacts
          <6>3. upRem \in 0..Size
            BY ONLY <6>1 DEF Typed, Held
          <6>. QED  BY ONLY <6>1, <6>2, <6>3
        <5>2. p[L - 1] \in Nat
          BY <3>6
        <5>. QED  BY <5>1, <5>2 DEF Unread
      <4>. QED  BY <3>10, <4>1
    <3>13. Arriving(p)'
      BY <1>3, <3>2, <3>6, <3>7, <3>8, <3>9, <3>11, <3>12 DEF Arriving
    <3>. QED  BY <3>13
  <2>. QED  BY <1>3, <1>5, <1>6, <2>1, <2>3 DEF IInv
<1>. QED  BY <1>7, <1>8, <1>9, <1>10

\* A command is lost, or dropped when it arrives.
LEMMA CommandLost ==
  ASSUME IInv, toSlave # <<>>, toSlave' = Tail(toSlave), UNCHANGED <<state, toMaster, master>>, faults' \in 0..MaxFaults
  PROVE  IInv'
<1>1. /\ IsSequence(toSlave') /\ 1 \in DOMAIN toSlave
      /\ toSlave' = <<>> <=> Len(toSlave) = 1
  BY Taken DEF IInv, Typed
<1>2. master.stage \notin {"idle", "start"} /\ ~(master.stage = "run" /\ (Kind \notin Blockwise \/ master.pos = 0)) /\ upRem = 0
  BY DEF IInv, Staged, Typed, Held
<1>3. Onward
  <2>1. IsSequence(toMaster') /\ Minded
    BY DEF IInv, Typed
  <2>. QED  BY <1>1, <1>2, <2>1 DEF Onward, state, Minded
<1>4. /\ Typed' /\ Kind' = Kind /\ Total' = Total /\ Left' = Left /\ (Stuck' <=> Stuck) /\ (OnJob' <=> OnJob)
      /\ Has(Total - Left)' <=> Has(Total - Left)
      /\ Has(Total)' <=> Has(Total)
  BY <1>3, OnwardFacts
<1>5. InBlock' = InBlock /\ Uploading' = Uploading
  BY <1>4 DEF InBlock, Uploading
<1>6. Staged'
  BY <1>2, <1>4, <1>5 DEF state, IInv, Staged
\* A block stays as it is.
<1>7. ASSUME NoFirst', Going', InBlock \/ master.sync PROVE IInv'
  <2>1. ~Uploading
    BY <1>7 DEF Uploading, InBlock, Blockwise, Bytewise, TextJobs
  <2>2. \A r : Retried(r) => Retried(r)'
    BY <1>4, <1>7 DEF Retried
  <2>3. ASSUME InBlock, ~master.sync, NEW i \in DOMAIN toMaster PROVE OfBlock(i)'
    BY <1>4, <1>7, <2>3 DEF IInv, Coming, OfBlock, Retried
  <2>4. ASSUME master.sync
        PROVE  /\ Kind \in Blockwise /\ master.stage # "refused" => Retried(master.rem)'
               /\ \A i \in DOMAIN toMaster : toMaster[i].kind # "ERR_SYNCH"
    BY <1>4, <1>7, <2>4 DEF IInv, Coming, Retried
  <2>5. Coming'
    BY <1>4, <1>5, <1>7, <2>3, <2>4 DEF IInv, Coming
  <2>. QED  BY <1>4, <1>5, <1>6, <1>7, <2>1, <2>5 DEF IInv
<1>8. CASE toSlave[1] = [cmd |-> "SYNCH"] /\ master.sync /\ 1 = Len(toSlave)
  <2>1. NoFirst' /\ Going'
    BY <1>1, <1>8 DEF NoFirst, Going
  <2>. QED  BY <1>7, <1>8, <2>1
<1>9. CASE InBlock /\ Frame(toSlave[1])
  <2>1. NoFirst' /\ Going'
    BY <1>9, Behind
  <2>. QED  BY <1>7, <1>9, <2>1
<1>10. CASE ~InBlock /\ ~master.sync /\ Len(toSlave) = 1 /\ toMaster = <<>>
  <2>1. toSlave' = <<>>
    BY <1>1, <1>10
  <2>2. Going' /\ Coming'
    BY <1>5, <1>10, <2>1 DEF Going, Coming
  <2>3. ASSUME NEW o, Uploading, Arriving(o) PROVE Arriving(o)'
    <3>1. Unread = Total /\ Unread' = 0
      BY <1>2, <2>1 DEF Unread, state
    <3>2. Total \in 1..Size /\ o[0] \in Nat /\ Len(toMaster) = 0 /\ Size \in Nat /\ mta.addr \in Nat /\ master.job.addr \in Nat
      <4>1. Len(toMaster) = 0
        BY <1>10, Nonempty DEF IInv, Typed
      <4>2. Size \in Nat /\ Total \in 1..Size /\ master.job.addr \in 1..Size
        BY <1>2, JobFacts, Constants DEF IInv
      <4>3. o[0] \in Nat
        BY <2>3, <4>1 DEF Arriving
      <4>4. mta.addr \in Nat
        BY <4>2 DEF IInv, Typed, Held
      <4>. QED  BY <4>1, <4>2, <4>3, <4>4
    <3>3. o[0] + Total <= Total /\ mta.addr + Total <= master.job.addr + Total
      BY <2>3, <3>1, <3>2 DEF Arriving
    <3>4. o[0] + 0 <= Total /\ o[0] + 0 # Total /\ mta.addr + 0 <= master.job.addr + Total
      <4>1. PICK z \in Nat, u \in Nat \ {0}, m \in Nat, a \in Nat : z = o[0] /\ u = Total /\ m = mta.addr /\ a = master.job.addr
        <5>1. Total \in Nat \ {0}
          BY ONLY <3>2
        <5>. QED  BY ONLY <3>2, <5>1
      <4>2. z + u <= u /\ m + u <= a + u
        BY <3>3, <4>1
      <4>3. z + 0 <= u /\ z + 0 # u /\ m + 0 <= a + u
        BY ONLY <4>2
      <4>. QED  BY <4>1, <4>3
    <3>5. Len(toMaster') = 0 /\ UNCHANGED <<memory, mta, master, toMaster>>
      BY <3>2 DEF state
    <3>. QED  BY <1>4, <2>3, <3>1, <3>2, <3>4, <3>5 DEF Arriving
  <2>. QED  BY <1>4, <1>5, <1>6, <2>2, <2>3 DEF IInv
<1>11. \/ toSlave[1] = [cmd |-> "SYNCH"] /\ master.sync /\ 1 = Len(toSlave)
       \/ InBlock /\ Frame(toSlave[1])
       \/ ~InBlock /\ ~master.sync /\ Len(toSlave) = 1 /\ toMaster = <<>>
  BY <1>1 DEF IInv, Going
<1>. QED  BY <1>8, <1>9, <1>10, <1>11

LEMMA LoseStep ==
  ASSUME IInv, Lose
  PROVE  IInv'
<1>1. faults' \in 0..MaxFaults
  <2>1. faults \in 0..MaxFaults /\ faults < MaxFaults /\ faults' = faults + 1
    BY DEF Lose, Fault, IInv, Typed, Held
  <2>. QED  BY <2>1, Constants
<1>. QED  BY <1>1, AnswerLost, CommandLost DEF Lose

LEMMA TimeoutStep ==
  ASSUME IInv, Timeout
  PROVE  IInv'
<1>1. toSlave = <<>> /\ toMaster = <<>> /\ upRem = 0 /\ (master.sync \/ master.stage \in {"open", "answer"})
  <2>1. toSlave = <<>> /\ toMaster = <<>> /\ ~worker /\ (master.sync \/ master.stage \in {"open", "answer"})
    BY DEF Timeout
  <2>2. upRem \in 0..Size /\ worker = (upRem > 0) /\ Size \in Nat
    BY Constants DEF IInv, Typed, Held
  <2>3. ~(upRem > 0)
    BY <2>1, <2>2, Zenon
  <2>4. upRem = 0
    BY <2>2, <2>3
  <2>. QED  BY <2>1, <2>4
<1>2. PICK r : r = IF ~master.sync /\ master.stage = "answer" /\ Kind \in Blockwise
                   THEN ((Total - 1) % DownChunk) + 1 ELSE master.rem
  OBVIOUS
<1>3. /\ UNCHANGED <<memory, mta, downRem, upRem, worker, program, faults, toMaster>>
      /\ toSlave' = <<[cmd |-> "SYNCH"]>>
      /\ master' = [job |-> master.job, stage |-> master.stage, pos |-> master.pos, got |-> master.got,
                    sync |-> TRUE, rem |-> r, done |-> master.done]
  <2>1. master = [job |-> master.job, stage |-> master.stage, pos |-> master.pos, got |-> master.got,
                  sync |-> master.sync, rem |-> master.rem, done |-> master.done]
    BY DEF IInv, Typed, Minded
  <2>2. DOMAIN NextOf = Blockwise
    BY DEF NextOf, Blockwise
  <2>. QED  BY <1>2, <2>1, <2>2 DEF Timeout, state, Kind
<1>4. master.stage \notin {"idle", "start"} /\ ~(master.stage = "run" /\ (Kind \notin Blockwise \/ master.pos = 0))
  BY <1>1 DEF IInv, Staged
<1>5. Total \in 1..Size /\ Size \in Nat /\ DownChunk \in Nat \ {0}
  BY <1>4, JobFacts, Constants DEF IInv
<1>6. /\ r \in Nat
      /\ ~master.sync /\ master.stage = "answer" /\ Kind \in Blockwise => r \in 1..Total - 1 \/ Left = 0
  <2>1. CASE ~master.sync /\ master.stage = "answer" /\ Kind \in Blockwise
    <3>1. PICK t \in Nat \ {0}, d \in Nat \ {0} : t = Total /\ d = DownChunk /\ r = ((t - 1) % d) + 1
      BY <1>2, <1>5, <2>1
    <3>2. (t - 1) % d \in 0..d - 1
      OBVIOUS
    <3>3. r \in Nat /\ (t > d => r \in 1..t - 1)
      BY <3>1, <3>2
    <3>4. t <= d => Left = 0
      <4>1. Left \in Nat /\ (Left > 0 => Left + d <= t)
        BY <2>1, <3>1 DEF IInv, Staged, Typed, Held, Left
      <4>. QED  BY <4>1
    <3>. QED  BY <3>1, <3>3, <3>4
  <2>2. CASE ~(~master.sync /\ master.stage = "answer" /\ Kind \in Blockwise)
    BY <1>2, <2>2, MasterFields DEF IInv
  <2>. QED  BY <2>1, <2>2
<1>7. IsSequence(toSlave') /\ DOMAIN toSlave' = {1} /\ toSlave'[1] = [cmd |-> "SYNCH"] /\ Len(toSlave') = 1
  <2>1. PICK c : c = [cmd |-> "SYNCH"]
    OBVIOUS
  <2>2. <<c>> \in Seq({c}) /\ DOMAIN <<c>> = {1} /\ <<c>>[1] = c /\ Len(<<c>>) = 1
    OBVIOUS
  <2>. QED  BY <1>3, <2>1, <2>2 DEF IsSequence
<1>8. Onward
  BY <1>3, <1>4, <1>6, <1>7, MasterFields DEF Onward, IInv, Typed, Held
<1>9. /\ Typed' /\ Kind' = Kind /\ Total' = Total /\ Left' = Left /\ (Stuck' <=> Stuck)
      /\ Has(Total - Left)' <=> Has(Total - Left)
  BY <1>8, OnwardFacts
<1>10. ~Uploading' /\ master'.sync
  BY <1>3 DEF Uploading
<1>11. master.stage = "refused" => master.rem = 0 /\ r = 0 /\ master.sync
  BY <1>2 DEF IInv, Staged
<1>12. Staged'
  BY <1>1, <1>3, <1>4, <1>9, <1>11 DEF IInv, Staged
<1>13. Going'
  BY <1>3, <1>7, <1>10 DEF Going
<1>14. Coming'
  <2>1. master.stage = "refused" => Stuck
    BY <1>11 DEF IInv, Coming
  <2>2. ASSUME Kind \in Blockwise, master.stage # "refused" PROVE Retried(r)'
    <3>1. NoFirst'
      BY <1>7, <1>9, <2>2 DEF NoFirst, Blockwise
    <3>2. r \in 1..Total - 1 \/ Left = 0
      <4>1. CASE master.sync
        <5>1. r = master.rem
          BY <1>2, <4>1
        <5>. QED  BY <2>2, <4>1, <5>1 DEF IInv, Coming, Retried
      <4>2. CASE ~master.sync /\ master.stage = "answer"
        BY <1>6, <2>2, <4>2
      <4>3. CASE ~master.sync /\ master.stage = "open"
        <5>1. downRem = 0 /\ program.rem = 0
          BY <4>3 DEF IInv, Staged, Typed, Held
        <5>. QED  BY <5>1 DEF Left
      <4>. QED  BY <1>1, <4>1, <4>2, <4>3
    <3>. QED  BY <1>9, <3>1, <3>2 DEF Retried
  <2>3. Retried(master.rem)' <=> Retried(r)'
    BY <1>3 DEF Retried
  <2>4. Kind \notin Blockwise => r = 0
    <3>1. Kind \notin Blockwise => master.rem = 0
      BY MasterFields DEF IInv, Coming
    <3>. QED  BY <1>2, <3>1
  <2>. QED  BY <1>1, <1>3, <1>9, <1>10, <2>1, <2>2, <2>3, <2>4 DEF Coming
<1>. QED  BY <1>9, <1>10, <1>12, <1>13, <1>14 DEF IInv

\* What the master makes of an answer when it is in step.
LEMMA Learned ==
  ASSUME ~master.sync, NEW e
  PROVE  /\ e.kind = "ERR_SEQUENCE" => Learn(e) = [master EXCEPT !.sync = TRUE, !.rem = e.rem]
         /\ e.kind \in Refusals => Learn(e) = [master EXCEPT !.sync = TRUE, !.stage = "refused"]
         /\ e.kind \in {"RES", "LENGTH"} /\ master.stage = "open" => Learn(e) = [master EXCEPT !.stage = "run"]
         /\ e.kind = "DATA" /\ master.stage = "open" => Learn(e) = Finish(master, e.data)
         /\ e.kind = "RES" /\ master.stage = "answer" => Learn(e) = Finish(master, <<>>)
         /\ e.kind = "SUM" /\ master.stage = "answer" => Learn(e) = Finish(master, <<e.sum>>)
         /\ e.kind = "DATA" /\ master.stage = "answer" /\ Len(master.got \o e.data) = Total
              => Learn(e) = Finish(master, master.got \o e.data)
         /\ e.kind = "DATA" /\ master.stage = "answer" /\ Len(master.got \o e.data) # Total
              => Learn(e) = [master EXCEPT !.got = @ \o e.data]
<1>1. CASE e.kind = "ERR_SEQUENCE"
  BY <1>1 DEF Learn, Refusals
<1>2. CASE e.kind \in Refusals
  BY <1>2 DEF Learn, Refusals
<1>3. CASE e.kind \in {"RES", "LENGTH"}
  BY <1>3 DEF Learn, Refusals
<1>4. CASE e.kind = "SUM"
  BY <1>4 DEF Learn, Refusals
<1>5. CASE e.kind = "DATA"
  BY <1>5 DEF Learn, Refusals
<1>. QED  BY <1>1, <1>2, <1>3, <1>4, <1>5

\* The master hears the first answer on its way.
LEMMA Hearing ==
  ASSUME IInv, Hear
  PROVE  /\ UNCHANGED <<memory, mta, downRem, upRem, worker, program, faults>>
         /\ toMaster # <<>> /\ toMaster' = Tail(toMaster) /\ master' = Learn(toMaster[1])
         /\ ~master.sync /\ Broken(toMaster[1]) => toSlave' = Append(toSlave, [cmd |-> "SYNCH"])
         /\ ~(~master.sync /\ Broken(toMaster[1])) => toSlave' = toSlave
         /\ master = [job |-> master.job, stage |-> master.stage, pos |-> master.pos, got |-> master.got,
                      sync |-> master.sync, rem |-> master.rem, done |-> master.done]
         /\ master.stage \in {"open", "run", "answer", "refused"} /\ IsSequence(toSlave') /\ IsSequence(toMaster')
         /\ faults' \in 0..MaxFaults
<1>1. toMaster # <<>> /\ toMaster' = Tail(toMaster)
  BY DEF Hear
<1>2. Head(toMaster) = toMaster[1] /\ IsSequence(toMaster') /\ master.stage \notin {"idle", "start"}
  BY <1>1, Heard
<1>3. /\ master' = Learn(toMaster[1])
      /\ ~master.sync /\ Broken(toMaster[1]) => toSlave' = Append(toSlave, [cmd |-> "SYNCH"])
      /\ ~(~master.sync /\ Broken(toMaster[1])) => toSlave' = toSlave
  BY <1>2 DEF Hear
<1>4. IsSequence(toSlave')
  <2>1. IsSequence(toSlave)
    BY DEF IInv, Typed
  <2>2. PICK c : c = [cmd |-> "SYNCH"]
    OBVIOUS
  <2>3. IsSequence(Append(toSlave, c))
    BY <2>1, Pushed
  <2>4. toSlave' \in {toSlave, Append(toSlave, c)}
    BY <1>3, <2>2
  <2>. QED  BY <2>1, <2>3, <2>4
<1>5. UNCHANGED <<memory, mta, downRem, upRem, worker, program, faults>>
  BY DEF Hear, state
<1>6. master = [job |-> master.job, stage |-> master.stage, pos |-> master.pos, got |-> master.got,
                sync |-> master.sync, rem |-> master.rem, done |-> master.done]
  BY DEF IInv, Typed, Minded
<1>7. faults' \in 0..MaxFaults
  BY <1>5 DEF IInv, Typed, Held
<1>8. master.stage \in {"open", "run", "answer", "refused"}
  BY <1>2, MasterFields DEF IInv
<1>. QED  BY <1>1, <1>2, <1>3, <1>4, <1>5, <1>6, <1>7, <1>8

\* The job is over, and nothing is left of it.
LEMMA OverStep ==
  ASSUME IInv, Hear, upRem = 0, downRem = 0, program.rem = 0, toSlave' = <<>>, toMaster' = <<>>, NEW data,
         ~master.sync \/ master.rem = 0, master' = [Finish(master, data) EXCEPT !.sync = FALSE]
  PROVE  IInv'
<1>1. master.rem = 0 /\ master.pos \in Nat /\ master.done \in Nat
  BY MasterFields DEF IInv
<1>2. master' = [job |-> master.job, stage |-> "idle", pos |-> master.pos, got |-> data,
                 sync |-> FALSE, rem |-> 0, done |-> master.done + 1]
  BY <1>1, Hearing DEF Finish
<1>3. Onward
  <2>1. /\ UNCHANGED <<memory, mta, downRem, upRem, worker, program>> /\ faults' \in 0..MaxFaults
        /\ IsSequence(toSlave') /\ IsSequence(toMaster') /\ master.stage # "idle"
    BY Hearing
  <2>2. PICK d \in Nat : d = master.done + 1
    BY <1>1
  <2>3. master' = [job |-> master.job, stage |-> "idle", pos |-> master.pos, got |-> data,
                   sync |-> FALSE, rem |-> 0, done |-> d]
    BY <1>2, <2>2
  <2>4. /\ master'.stage = "idle" /\ master'.pos = master.pos /\ master'.got = data /\ master'.sync = FALSE
        /\ master'.rem = 0 /\ master'.done = d
    BY ONLY <2>3
  <2>5. master' = [job |-> master.job, stage |-> master'.stage, pos |-> master'.pos, got |-> master'.got,
                   sync |-> master'.sync, rem |-> master'.rem, done |-> master'.done]
    BY ONLY <2>3, <2>4
  <2>6. master'.stage \in {"idle", "start", "open", "run", "answer", "refused"}
    BY ONLY <2>4
  <2>7. master'.pos \in Nat /\ master'.rem \in Nat /\ master'.done \in Nat
    BY ONLY <1>1, <2>2, <2>4
  <2>8. master'.sync \in BOOLEAN /\ (~master'.sync => master'.rem = 0)
    BY ONLY <2>4
  <2>. QED  BY ONLY <2>1, <2>5, <2>6, <2>7, <2>8 DEF Onward
<1>4. Typed'
  BY <1>3, OnwardFacts
<1>5. UNCHANGED <<downRem, upRem, program>>
  BY Hearing
<1>. QED  BY <1>2, <1>4, <1>5, Settled

\* Back in step after a SYNCH.
LEMMA BackStep ==
  ASSUME IInv, Hear, Resume = TRUE, master.sync
  PROVE  IInv'
<1>1. PICK e : e = toMaster[1]
  OBVIOUS
<1>2. CASE e.kind # "ERR_SYNCH"
  <2>1. master' = master /\ toSlave' = toSlave
    BY <1>1, <1>2, Hearing DEF Learn
  <2>. QED  BY <2>1, Hearing, AnswerLost DEF state
<1>3. CASE e.kind = "ERR_SYNCH"
  <2>1. toSlave = <<>> /\ toSlave' = <<>> /\ toMaster' = <<>>
    <3>1. toMaster # <<>> /\ toMaster' = Tail(toMaster) /\ toSlave' = toSlave
      BY Hearing
    <3>2. 1 \in DOMAIN toMaster /\ (toMaster' = <<>> <=> Len(toMaster) = 1)
      BY <3>1, Heard
    <3>3. 1 = Len(toMaster) /\ toSlave = <<>>
      BY <1>1, <1>3, <3>2 DEF IInv, Coming
    <3>. QED  BY <3>1, <3>2, <3>3
  <2>2. upRem = 0
    BY DEF IInv, Staged, Uploading, Typed, Held
  <2>3. downRem \in Nat /\ program.rem \in Nat
    BY Constants DEF IInv, Typed, Held
  <2>4. CASE master.stage = "refused"
    <3>1. downRem = 0 /\ program.rem = 0 /\ master.rem = 0
      BY <2>3, <2>4 DEF IInv, Staged
    <3>2. master' = [Finish(master, <<>>) EXCEPT !.sync = FALSE]
      BY <1>1, <1>3, <2>4, Hearing DEF Learn
    <3>. QED  BY <2>1, <2>2, <3>1, <3>2, OverStep
  <2>5. CASE master.stage # "refused" /\ master.rem \in 1..Total - 1
    <3>1. PICK t \in Nat, r \in Nat \ {0} : t = Total /\ r = master.rem /\ r < t
      <4>1. master.stage # "idle"
        BY Hearing
      <4>. QED  BY <2>5, <4>1, JobFacts, Constants DEF IInv
    <3>2. Kind \in Blockwise
      BY <3>1 DEF IInv, Coming
    <3>3. master' = [job |-> master.job, stage |-> "run", pos |-> t - r, got |-> master.got,
                     sync |-> FALSE, rem |-> 0, done |-> master.done]
      <4>1. master' = [master EXCEPT !.sync = FALSE, !.stage = "run", !.pos = Total - master.rem, !.rem = 0]
        BY <1>1, <1>3, <2>5, Hearing DEF Learn, Again
      <4>. QED  BY <3>1, <4>1, Hearing
    <3>4. Onward
      BY <3>1, <3>3, Hearing, MasterFields DEF Onward, IInv
    <3>5. /\ Typed' /\ Kind' = Kind /\ Total' = Total /\ Left' = Left
          /\ Has(Total - Left)' <=> Has(Total - Left)
      BY <3>4, OnwardFacts
    <3>6. t - r # 0 /\ t - r < t
      BY <3>1
    <3>7. UNCHANGED <<downRem, upRem, program>>
      BY Hearing
    <3>8. Staged'
      BY <2>2, <3>2, <3>3, <3>5, <3>6, <3>7 DEF IInv, Staged
    <3>9. Going'
      BY <2>1, <3>1, <3>3, <3>5, <3>6 DEF Going
    <3>10. Coming' /\ ~Uploading'
      BY <2>1, <3>3 DEF Coming, Uploading
    <3>. QED  BY <3>5, <3>8, <3>9, <3>10 DEF IInv
  <2>6. CASE master.stage # "refused" /\ ~(master.rem \in 1..Total - 1)
    <3>1. master' = [job |-> master.job, stage |-> "start", pos |-> 0, got |-> master.got,
                     sync |-> FALSE, rem |-> 0, done |-> master.done]
      <4>1. master' = [master EXCEPT !.sync = FALSE, !.stage = "start", !.pos = 0, !.rem = 0]
        BY <1>1, <1>3, <2>6, Hearing DEF Learn, Again
      <4>. QED  BY <4>1, Hearing
    <3>2. downRem = 0 /\ program.rem = 0
      <4>1. Kind \in Blockwise => Left = 0
        BY <2>6 DEF IInv, Coming, Retried
      <4>. QED  BY <2>3, <4>1 DEF IInv, Staged, Left, Blockwise
    <3>3. Onward
      BY <3>1, Hearing, MasterFields DEF Onward, IInv
    <3>4. Typed'
      BY <3>3, OnwardFacts
    <3>. QED  BY <2>1, <2>2, <3>1, <3>2, <3>4, Hearing, Settled
  <2>. QED  BY <2>4, <2>5, <2>6
<1>. QED  BY <1>2, <1>3

\* SYNCH goes out behind the frames of a block that went wrong.
LEMMA Flushed ==
  ASSUME IInv, InBlock, ~master.sync, toMaster # <<>>, toMaster' = Tail(toMaster), Onward,
         NEW c, c = [cmd |-> "SYNCH"], toSlave' = Append(toSlave, c),
         master'.sync, master'.pos = master.pos, master'.got = master.got, master'.stage \in {master.stage, "refused"},
         master'.stage = "refused" => Stuck /\ master'.rem = 0,
         master'.stage # "refused" => Retried(master'.rem)
  PROVE  IInv'
<1>1. /\ Typed' /\ Kind' = Kind /\ Total' = Total /\ Left' = Left /\ (Stuck' <=> Stuck) /\ (OnJob' <=> OnJob)
      /\ \A x : Frame(x)' <=> Frame(x)
      /\ Has(Total - Left)' <=> Has(Total - Left)
  BY OnwardFacts
<1>2. master.stage \in {"run", "answer"} /\ Kind \in Blockwise
  BY DEF InBlock, IInv, Staged
<1>3. InBlock' /\ ~Uploading' /\ Kind \notin Bytewise
  BY <1>1, <1>2 DEF InBlock, Uploading, Blockwise, Bytewise, TextJobs
<1>4. UNCHANGED <<downRem, upRem, program>>
  BY DEF Onward
<1>5. ~(master.stage = "run" /\ master.pos = 0)
  BY <1>2 DEF IInv, Staged
<1>6. downRem \in Nat /\ program.rem \in Nat /\ upRem = 0
  BY <1>3, Constants DEF IInv, Typed, Held, Staged, Uploading
<1>7. master'.stage = "refused" => downRem = 0 /\ program.rem = 0
  BY <1>2, <1>6 DEF Stuck, Left, IInv, Staged
<1>8. Staged'
  <2>1. master'.stage # "refused" => master'.stage = master.stage
    OBVIOUS
  <2>. QED  BY <1>1, <1>2, <1>4, <1>5, <1>6, <1>7, <2>1 DEF IInv, Staged
<1>9. /\ IsSequence(toSlave) /\ Len(toSlave) \in Nat /\ DOMAIN toSlave = 1..Len(toSlave)
      /\ DOMAIN toSlave' = 1..Len(toSlave) + 1 /\ Len(toSlave') = Len(toSlave) + 1
      /\ \A i \in DOMAIN toSlave : toSlave'[i] = toSlave[i]
      /\ toSlave'[Len(toSlave) + 1] = c
  BY Pushed DEF IInv, Typed
<1>10. \A i \in DOMAIN toSlave' : (i \in DOMAIN toSlave /\ i < Len(toSlave')) \/ (i = Len(toSlave') /\ toSlave'[i] = c)
  BY <1>9
<1>11. \A i \in DOMAIN toSlave : Frame(toSlave[i])
  BY <1>2 DEF IInv, Going, InBlock
<1>12. Going'
  <2>1. ASSUME NEW i \in DOMAIN toSlave', i \in DOMAIN toSlave, i < Len(toSlave') PROVE Frame(toSlave[i])'
    <3>1. PICK x : x = toSlave'[i] /\ x = toSlave[i]
      BY <1>9, <2>1
    <3>2. Frame(x)'
      BY <1>1, <1>11, <2>1, <3>1
    <3>. QED  BY <3>1, <3>2 DEF Frame
  <2>2. ASSUME NEW i \in DOMAIN toSlave', toSlave'[i].cmd # "SYNCH"
        PROVE  /\ \A j \in DOMAIN toSlave' : i < j /\ toSlave'[j].cmd # "SYNCH" => toSlave'[i].rem >= toSlave'[j].rem + DownChunk
               /\ toSlave'[i].rem = Total => Left = 0 /\ (Kind = "DOWNLOAD" => OnJob)
    <3>1. \A j \in DOMAIN toSlave' : toSlave'[j].cmd # "SYNCH" => j \in DOMAIN toSlave /\ toSlave'[j] = toSlave[j] /\ toSlave[j].cmd # "SYNCH"
      BY <1>9, <1>10
    <3>2. i \in DOMAIN toSlave /\ toSlave'[i] = toSlave[i] /\ toSlave[i].cmd # "SYNCH"
      BY <2>2, <3>1
    <3>. QED  BY <3>1, <3>2 DEF IInv, Going
  <2>. QED  BY <1>1, <1>3, <1>9, <1>10, <2>1, <2>2 DEF Going
<1>13. Coming'
  <2>1. \A i \in DOMAIN toMaster' : toMaster'[i].kind # "ERR_SYNCH"
    BY BehindAnswer DEF Refusals
  <2>2. ASSUME NoFirst PROVE NoFirst'
    <3>1. ASSUME NEW i \in DOMAIN toSlave' PROVE toSlave'[i].cmd # Kind
      <4>1. c.cmd # Kind
        BY <1>2 DEF Blockwise
      <4>. QED  BY <1>9, <1>10, <2>2, <3>1, <4>1 DEF NoFirst
    <3>. QED  BY <1>1, <3>1 DEF NoFirst
  <2>3. PICK r : r = master'.rem
    OBVIOUS
  <2>4. Retried(r) => Retried(r)'
    BY <1>1, <2>2 DEF Retried
  <2>5. master'.stage # "refused" => Retried(master.rem)'
    BY <2>3, <2>4 DEF Retried
  <2>. QED  BY <1>1, <1>2, <2>1, <2>5 DEF Coming
<1>. QED  BY <1>1, <1>3, <1>8, <1>12, <1>13 DEF IInv

\* Of a block in step.
LEMMA BlockHeard ==
  ASSUME IInv, Hear, InBlock, ~master.sync
  PROVE  /\ IInv'
         /\ master'.done > master.done => Left = 0 /\ Has(Total)
<1>1. PICK e : e = toMaster[1]
  OBVIOUS
<1>2. /\ UNCHANGED <<memory, mta, downRem, upRem, worker, program, faults>> /\ faults' \in 0..MaxFaults
      /\ toMaster # <<>> /\ toMaster' = Tail(toMaster) /\ master' = Learn(e)
      /\ Broken(e) => toSlave' = Append(toSlave, [cmd |-> "SYNCH"])
      /\ ~Broken(e) => toSlave' = toSlave
      /\ master = [job |-> master.job, stage |-> master.stage, pos |-> master.pos, got |-> master.got,
                   sync |-> master.sync, rem |-> master.rem, done |-> master.done]
      /\ IsSequence(toSlave') /\ IsSequence(toMaster')
  BY <1>1, Hearing
<1>3. /\ master.pos \in Nat /\ master.done \in Nat /\ master.rem = 0 /\ master.sync = FALSE
      /\ master.stage \in {"run", "answer"} /\ Kind \in Blockwise
  BY MasterFields DEF IInv, InBlock, Staged
<1>4. \/ /\ e.kind = "RES" /\ 1 = Len(toMaster) /\ toSlave = <<>> /\ master.stage = "answer" /\ Left = 0 /\ Has(Total)
      \/ e.kind = "ERR_SEQUENCE" /\ e.rem \in Nat /\ Retried(e.rem)
      \/ e.kind \in Refusals /\ Stuck
  BY <1>1, <1>2, BehindAnswer DEF OfBlock
<1>5. PICK c : c = [cmd |-> "SYNCH"]
  OBVIOUS
<1>6. CASE e.kind = "RES" /\ 1 = Len(toMaster) /\ toSlave = <<>> /\ master.stage = "answer" /\ Left = 0 /\ Has(Total)
  <2>1. master' = Finish(master, <<>>) /\ toSlave' = <<>>
    BY <1>2, <1>6, Learned DEF Broken, Refusals
  <2>2. toMaster' = <<>>
    BY <1>2, <1>6, Heard
  <2>3. master' = [Finish(master, <<>>) EXCEPT !.sync = FALSE]
    BY <1>2, <1>3, <2>1 DEF Finish
  <2>4. upRem = 0 /\ downRem = 0 /\ program.rem = 0
    BY <1>3, <1>6, Constants DEF IInv, Staged, Typed, Held, Left, Uploading, Blockwise, Bytewise, TextJobs
  <2>. QED  BY <1>3, <1>6, <2>1, <2>2, <2>3, <2>4, OverStep
<1>7. CASE e.kind = "ERR_SEQUENCE" /\ e.rem \in Nat /\ Retried(e.rem)
  <2>1. toSlave' = Append(toSlave, c) /\ master' = [master EXCEPT !.sync = TRUE, !.rem = e.rem]
    BY <1>2, <1>5, <1>7, Learned DEF Broken
  <2>2. master' = [job |-> master.job, stage |-> master.stage, pos |-> master.pos, got |-> master.got,
                   sync |-> TRUE, rem |-> e.rem, done |-> master.done]
    BY <1>2, <2>1
  <2>3. Onward
    BY <1>2, <1>3, <1>7, <2>2 DEF Onward
  <2>4. IInv'
    BY <1>2, <1>3, <1>5, <1>7, <2>1, <2>2, <2>3, Flushed
  <2>5. ~(master'.done > master.done)
    BY <1>3, <2>2
  <2>. QED  BY <2>4, <2>5
<1>8. CASE e.kind \in Refusals /\ Stuck
  <2>1. toSlave' = Append(toSlave, c) /\ master' = [master EXCEPT !.sync = TRUE, !.stage = "refused"]
    BY <1>2, <1>5, <1>8, Learned DEF Broken
  <2>2. master' = [job |-> master.job, stage |-> "refused", pos |-> master.pos, got |-> master.got,
                   sync |-> TRUE, rem |-> 0, done |-> master.done]
    BY <1>2, <1>3, <2>1
  <2>3. Onward
    BY <1>2, <1>3, <2>2 DEF Onward
  <2>4. /\ master'.sync /\ master'.pos = master.pos /\ master'.got = master.got
        /\ master'.stage = "refused" /\ master'.rem = 0
    BY <2>2
  <2>5. IInv'
    BY <1>2, <1>5, <1>8, <2>1, <2>3, <2>4, Flushed
  <2>6. ~(master'.done > master.done)
    BY <1>3, <2>2
  <2>. QED  BY <2>5, <2>6
<1>. QED  BY <1>4, <1>6, <1>7, <1>8

\* Of an upload in step: the last frame, or one of those before it.
LEMMA UploadHeard ==
  ASSUME IInv, Hear, Uploading
  PROVE  /\ IInv'
         /\ master'.done > master.done => master'.got = Slice(master.job.addr, Total)
<1>1. PICK e : e = toMaster[1]
  OBVIOUS
<1>2. /\ UNCHANGED <<memory, mta, downRem, upRem, worker, program, faults>> /\ faults' \in 0..MaxFaults
      /\ toMaster # <<>> /\ toMaster' = Tail(toMaster) /\ master' = Learn(e)
      /\ ~Broken(e) => toSlave' = toSlave
      /\ master = [job |-> master.job, stage |-> master.stage, pos |-> master.pos, got |-> master.got,
                   sync |-> master.sync, rem |-> master.rem, done |-> master.done]
      /\ IsSequence(toSlave') /\ IsSequence(toMaster')
  BY <1>1, Hearing
<1>3. /\ master.stage = "answer" /\ master.sync = FALSE /\ ~master.sync /\ Kind \in Bytewise /\ Kind \notin Blockwise
      /\ master.pos \in Nat /\ master.done \in Nat /\ master.rem = 0
  BY MasterFields DEF IInv, Uploading, Blockwise, Bytewise, TextJobs
<1>4. PICK o : Arriving(o)
  BY DEF IInv
<1>5. PICK L \in Nat \ {0} : L = Len(toMaster) /\ (L = 1 => toMaster' = <<>>)
  BY <1>2, Heard
<1>6. /\ master.got \in Seq(0..255) /\ o[0] = Len(master.got)
      /\ \A i \in 0..L : o[i] \in Nat
      /\ \A i \in 1..L : /\ toMaster[i].kind = "DATA" /\ toMaster[i].data \in Seq(0..255)
                         /\ o[i] = o[i - 1] + Len(toMaster[i].data)
      /\ \A i, j \in 0..L : i < j => o[i] < o[j]
      /\ o[L] + Unread <= Total /\ mta.addr + Unread <= master.job.addr + Total
  BY <1>4, <1>5 DEF Arriving
<1>7. o[L] + Unread = Total =>
        /\ mta.addr = master.job.addr + o[L]
        /\ \A j \in 1..o[0] : master.got[j] = memory[master.job.addr + j - 1]
        /\ \A i \in 1..L : \A j \in 1..Len(toMaster[i].data) :
             toMaster[i].data[j] = memory[master.job.addr + o[i - 1] + j - 1]
  BY <1>4, <1>5 DEF Arriving
<1>8. /\ Total \in 1..Size /\ Size \in Nat /\ upRem \in Nat /\ Unread \in Nat /\ master.job.addr \in 1..Size
      /\ master.job.addr + Total - 1 <= Size /\ memory \in [Addrs -> 0..255]
  <2>1. Total \in 1..Size /\ master.job.addr \in 1..Size /\ master.job.addr + Total - 1 <= Size
    BY <1>3, JobFacts DEF IInv
  <2>2. upRem \in Nat /\ Size \in Nat /\ memory \in [Addrs -> 0..255]
    BY Constants DEF IInv, Typed, Held
  <2>. QED  BY <2>1, <2>2 DEF Unread
<1>9. /\ e.kind = "DATA" /\ e.data \in Seq(0..255) /\ o[1] = o[0] + Len(e.data) /\ ~Broken(e)
      /\ o[0] \in Nat /\ o[1] \in Nat /\ o[L] \in Nat /\ o[1] <= o[L] /\ (L # 1 => o[1] < o[L])
  <2>1. 1 \in 1..L /\ 0 \in 0..L /\ 1 \in 0..L /\ L \in 0..L /\ 1 - 1 = 0 /\ (L # 1 => 1 < L)
    OBVIOUS
  <2>2. e.kind = "DATA" /\ e.data \in Seq(0..255) /\ o[1] = o[0] + Len(e.data)
    BY <1>1, <1>6, <2>1
  <2>3. ~Broken(e)
    BY <2>2 DEF Broken, Refusals
  <2>4. o[0] \in Nat /\ o[1] \in Nat /\ o[L] \in Nat
    BY <1>6, <2>1
  <2>5. L # 1 => o[1] < o[L]
    BY <1>6, <2>1
  <2>6. o[1] <= o[L]
    BY <2>4, <2>5
  <2>. QED  BY <2>2, <2>3, <2>4, <2>5, <2>6
<1>10. PICK D : D = [k \in 1..Size |-> memory[master.job.addr + k - 1]]
  OBVIOUS
<1>11. /\ master.got \o e.data \in Seq(0..255) /\ Len(master.got \o e.data) = o[1]
       /\ o[L] + Unread = Total => \A j \in 1..o[1] : (master.got \o e.data)[j] = memory[master.job.addr + j - 1]
  <2>1. master.got \o e.data \in Seq(0..255) /\ Len(master.got \o e.data) = o[1]
    BY <1>6, <1>9, ConcatProperties
  <2>2. ASSUME o[L] + Unread = Total
        PROVE  \A j \in 1..o[1] : (master.got \o e.data)[j] = memory[master.job.addr + j - 1]
    <3>1. o[1] <= Total /\ Total <= Size
      BY <1>8, <1>9, <2>2
    <3>2. \A j \in 1..o[0] : j \in 1..Size
      BY <1>9, <3>1, <1>8, LenProperties
    <3>3. \A j \in 1..Len(e.data) : o[0] + j \in 1..Size /\ master.job.addr + o[0] + j - 1 = master.job.addr + (o[0] + j) - 1
      <4>1. PICK q \in Nat, l \in Nat, a \in Nat : q = o[0] /\ l = Len(e.data) /\ a = master.job.addr
        BY <1>8, <1>9, LenProperties
      <4>2. q + l <= Size
        BY <1>8, <1>9, <3>1, <4>1
      <4>3. \A j \in 1..l : q + j \in 1..Size /\ a + q + j - 1 = a + (q + j) - 1
        BY <1>8, <4>2
      <4>. QED  BY <4>1, <4>3
    <3>4. \A j \in 1..Len(master.got) : master.got[j] = D[j]
      BY <1>6, <1>7, <1>10, <2>2, <3>2
    <3>5. \A j \in 1..Len(e.data) : e.data[j] = D[Len(master.got) + j]
      <4>1. 1 \in 1..L /\ 1 - 1 = 0
        OBVIOUS
      <4>2. \A j \in 1..Len(e.data) : e.data[j] = memory[master.job.addr + o[0] + j - 1]
        BY <1>1, <1>7, <2>2, <4>1
      <4>. QED  BY <1>6, <1>10, <3>3, <4>2
    <3>6. \A j \in 1..Len(master.got) + Len(e.data) : (master.got \o e.data)[j] = D[j]
      <4>1. PICK x \in Seq(0..255), y \in Seq(0..255) : x = master.got /\ y = e.data
        BY <1>6, <1>9
      <4>2. \A j \in 1..Len(x) : x[j] = D[j]
        BY <3>4, <4>1
      <4>3. \A j \in 1..Len(y) : y[j] = D[Len(x) + j]
        BY <3>5, <4>1
      <4>4. \A j \in 1..Len(x) + Len(y) : (x \o y)[j] = D[j]
        BY ONLY <4>2, <4>3, Continued
      <4>. QED  BY <4>1, <4>4
    <3>7. \A j \in 1..o[1] : j \in 1..Size
      BY <1>8, <1>9, <3>1
    <3>. QED  BY <1>6, <1>9, <1>10, <3>6, <3>7
  <2>. QED  BY <2>1, <2>2
<1>12. toSlave' = toSlave
  BY <1>2, <1>9
<1>13. downRem = 0 /\ program.rem = 0
  BY <1>3, Constants DEF IInv, Staged, Typed, Held, Blockwise
<1>14. CASE o[1] = Total
  <2>1. L = 1 /\ Unread = 0 /\ o[L] + Unread = Total
    <3>1. PICK q \in Nat, u \in Nat, t \in Nat : q = o[L] /\ u = Unread /\ t = Total
      BY <1>8, <1>9
    <3>2. t <= q /\ (L # 1 => t < q) /\ q + u <= t
      BY <1>6, <1>9, <1>14, <3>1
    <3>3. L = 1 /\ u = 0 /\ q + u = t
      BY <3>2
    <3>. QED  BY <3>1, <3>3
  <2>2. toSlave = <<>> /\ upRem = 0
    BY <1>8, <2>1 DEF Unread
  <2>3. master' = Finish(master, master.got \o e.data)
    BY <1>2, <1>3, <1>9, <1>11, <1>14, Learned
  <2>4. master' = [Finish(master, master.got \o e.data) EXCEPT !.sync = FALSE] /\ master'.got = master.got \o e.data
    <3>1. PICK d : d = master.got \o e.data
      OBVIOUS
    <3>2. /\ Finish(master, d) = [Finish(master, d) EXCEPT !.sync = FALSE]
          /\ Finish(master, d).got = d
      BY <1>2, <1>3 DEF Finish
    <3>. QED  BY ONLY <2>3, <3>1, <3>2
  <2>5. IInv'
    BY <1>3, <1>5, <1>12, <1>13, <2>1, <2>2, <2>4, OverStep
  <2>6. master.got \o e.data = Slice(master.job.addr, Total)
    <3>1. PICK s \in Seq(0..255) : s = Slice(master.job.addr, Total) /\ Len(s) = Total
                                   /\ \A i \in 1..Total : master.job.addr + i - 1 \in Addrs => s[i] = memory[master.job.addr + i - 1]
      <4>1. PICK a \in Nat, n \in Nat : a = master.job.addr /\ n = Total
        BY <1>8
      <4>2. memory \in [Addrs -> 0..255]
        BY <1>8
      <4>3. /\ Slice(a, n) \in Seq(0..255) /\ Len(Slice(a, n)) = n
            /\ \A k \in 1..n : a + k - 1 \in Addrs => Slice(a, n)[k] = memory[a + k - 1]
        BY <4>2, SliceType
      <4>. QED  BY <4>1, <4>3
    <3>2. \A i \in 1..Total : master.job.addr + i - 1 \in Addrs
      BY <1>8 DEF Addrs
    <3>3. PICK x \in Seq(0..255) : x = master.got \o e.data
      BY <1>11
    <3>4. Len(x) = Len(s) /\ \A i \in 1..Len(x) : x[i] = s[i]
      BY <1>11, <1>14, <2>1, <3>1, <3>2, <3>3
    <3>5. x = s
      BY <3>4, SeqEqual
    <3>. QED  BY <3>1, <3>3, <3>5
  <2>. QED  BY <2>4, <2>5, <2>6
<1>15. CASE o[1] # Total
  <2>1. master' = [master EXCEPT !.got = @ \o e.data]
    BY <1>2, <1>3, <1>9, <1>11, <1>15, Learned
  <2>2. master' = [job |-> master.job, stage |-> "answer", pos |-> master.pos, got |-> master.got \o e.data,
                   sync |-> FALSE, rem |-> 0, done |-> master.done]
    BY <1>2, <1>3, <2>1
  <2>3. Onward
    BY <1>2, <1>3, <2>2 DEF Onward
  <2>4. /\ Typed' /\ master'.job = master.job /\ Kind' = Kind /\ Total' = Total /\ Left' = Left /\ (OnJob' <=> OnJob)
    BY <2>3, OnwardFacts
  <2>5. Uploading' /\ ~InBlock /\ ~InBlock'
    BY <1>3, <2>2, <2>4 DEF Uploading, InBlock
  <2>6. Staged'
    BY <1>2, <1>3, <1>12, <1>13, <2>2, <2>4, <2>5 DEF IInv, Staged
  <2>7. Going'
    <3>1. \A i \in DOMAIN toSlave : toMaster = <<>>
      BY <1>3, <2>5 DEF IInv, Going
    <3>. QED  BY <1>2, <1>12, <2>5, <3>1 DEF Going
  <2>8. Coming'
    BY <2>2, <2>5 DEF Coming
  <2>9. \E p : Arriving(p)'
    <3>1. Len(toMaster') = L - 1 /\ \A i \in 1..L - 1 : toMaster'[i] = toMaster[i + 1]
      BY <1>2, <1>5, Heard
    <3>2. PICK p : p = [i \in 0..L - 1 |-> o[i + 1]]
      OBVIOUS
    <3>3. /\ \A i \in 0..L - 1 : i + 1 \in 0..L /\ i + 1 \in 1..L /\ p[i] = o[i + 1] /\ p[i] \in Nat
          /\ p[0] = o[1] /\ p[L - 1] = o[L]
      <4>1. \A i \in 0..L - 1 : i + 1 \in 0..L /\ i + 1 \in 1..L
        OBVIOUS
      <4>2. 0 \in 0..L - 1 /\ L - 1 \in 0..L - 1 /\ 0 + 1 = 1 /\ (L - 1) + 1 = L
        OBVIOUS
      <4>3. \A i \in 0..L - 1 : p[i] = o[i + 1]
        BY <3>2
      <4>4. \A i \in 0..L - 1 : o[i + 1] \in Nat
        BY <1>6, <4>1
      <4>. QED  BY ONLY <4>1, <4>2, <4>3, <4>4
    <3>4. master'.got \in Seq(0..255) /\ p[0] = Len(master'.got)
      BY <1>11, <2>2, <3>3
    <3>5. ASSUME NEW i \in 1..L - 1
          PROVE  /\ toMaster'[i].kind = "DATA" /\ toMaster'[i].data \in Seq(0..255)
                 /\ p[i] = p[i - 1] + Len(toMaster'[i].data) /\ toMaster'[i] = toMaster[i + 1] /\ p[i - 1] = o[i] /\ i + 1 \in 1..L
      <4>1. i \in 0..L - 1 /\ i - 1 \in 0..L - 1 /\ (i - 1) + 1 = i /\ (i + 1) - 1 = i /\ i + 1 \in 1..L
        OBVIOUS
      <4>2. p[i] = o[i + 1] /\ p[i - 1] = o[i]
        BY <3>3, <4>1
      <4>3. toMaster[i + 1].kind = "DATA" /\ toMaster[i + 1].data \in Seq(0..255) /\ o[i + 1] = o[i] + Len(toMaster[i + 1].data)
        BY <1>6, <4>1
      <4>. QED  BY <3>1, <4>1, <4>2, <4>3
    <3>6. ASSUME NEW i \in 0..L - 1, NEW j \in 0..L - 1, i < j PROVE p[i] < p[j]
      <4>1. i + 1 < j + 1 /\ i + 1 \in 0..L /\ j + 1 \in 0..L
        BY <3>6
      <4>. QED  BY <1>6, <3>3, <4>1
    <3>7. Unread' = Unread /\ UNCHANGED <<memory, mta>>
      BY <1>2, <1>12, <2>4 DEF Unread
    <3>8. p[L - 1] + Unread <= Total /\ mta.addr + Unread <= master.job.addr + Total
      BY <1>6, <3>3
    <3>9. ASSUME p[L - 1] + Unread = Total
          PROVE  /\ mta.addr = master.job.addr + p[L - 1]
                 /\ \A j \in 1..p[0] : master'.got[j] = memory[master.job.addr + j - 1]
                 /\ \A i \in 1..L - 1 : \A j \in 1..Len(toMaster'[i].data) :
                      toMaster'[i].data[j] = memory[master.job.addr + p[i - 1] + j - 1]
      <4>1. o[L] + Unread = Total
        BY <3>3, <3>9
      <4>2. mta.addr = master.job.addr + p[L - 1]
        BY <1>7, <3>3, <4>1
      <4>3. \A j \in 1..p[0] : master'.got[j] = memory[master.job.addr + j - 1]
        BY <1>11, <2>2, <3>3, <4>1
      <4>4. ASSUME NEW i \in 1..L - 1
            PROVE  \A j \in 1..Len(toMaster'[i].data) : toMaster'[i].data[j] = memory[master.job.addr + p[i - 1] + j - 1]
        <5>1. (i + 1) - 1 = i
          OBVIOUS
        <5>2. /\ toMaster'[i] = toMaster[i + 1] /\ p[i - 1] = o[i] /\ i + 1 \in 1..L
          BY <3>5
        <5>3. \A j \in 1..Len(toMaster[i + 1].data) :
                 toMaster[i + 1].data[j] = memory[master.job.addr + o[(i + 1) - 1] + j - 1]
          BY <1>7, <4>1, <5>2
        <5>. QED  BY <5>1, <5>2, <5>3
      <4>. QED  BY <4>2, <4>3, <4>4
    <3>10. Arriving(p)'
      <4>1. /\ master'.got \in Seq(0..255) /\ p[0] = Len(master'.got)
            /\ \A i \in 0..L - 1 : p[i] \in Nat
            /\ \A i \in 1..L - 1 : /\ toMaster'[i].kind = "DATA" /\ toMaster'[i].data \in Seq(0..255)
                                   /\ p[i] = p[i - 1] + Len(toMaster'[i].data)
            /\ \A i, j \in 0..L - 1 : i < j => p[i] < p[j]
        BY ONLY <3>3, <3>4, <3>5, <3>6
      <4>2. /\ p[L - 1] + Unread' <= Total' /\ mta'.addr + Unread' <= master'.job.addr + Total'
            /\ p[L - 1] + Unread' = Total' =>
                 /\ mta'.addr = master'.job.addr + p[L - 1]
                 /\ \A j \in 1..p[0] : master'.got[j] = memory'[master'.job.addr + j - 1]
                 /\ \A i \in 1..L - 1 : \A j \in 1..Len(toMaster'[i].data) :
                      toMaster'[i].data[j] = memory'[master'.job.addr + p[i - 1] + j - 1]
        BY ONLY <2>4, <3>7, <3>8, <3>9
      <4>. QED  BY ONLY <3>1, <4>1, <4>2 DEF Arriving
    <3>. QED  BY <3>10
  <2>10. ~(master'.done > master.done)
    BY <1>3, <2>2
  <2>. QED  BY <2>4, <2>6, <2>7, <2>8, <2>9, <2>10 DEF IInv
<1>. QED  BY <1>14, <1>15

\* Of a job that is not a block, in step.
LEMMA SingleHeard ==
  ASSUME IInv, Hear, ~master.sync, ~InBlock, ~Uploading
  PROVE  /\ IInv'
         /\ master'.done > master.done =>
              \/ Kind \in TextJobs \cup {"SHORT_UPLOAD"} /\ master'.got = Slice(master.job.addr, Total)
              \/ Kind = "CHECKSUM"
<1>1. PICK e : e = toMaster[1]
  OBVIOUS
<1>2. /\ UNCHANGED <<memory, mta, downRem, upRem, worker, program, faults>> /\ faults' \in 0..MaxFaults
      /\ toMaster # <<>> /\ toMaster' = Tail(toMaster) /\ master' = Learn(e)
      /\ Broken(e) => toSlave' = Append(toSlave, [cmd |-> "SYNCH"])
      /\ ~Broken(e) => toSlave' = toSlave
      /\ master = [job |-> master.job, stage |-> master.stage, pos |-> master.pos, got |-> master.got,
                   sync |-> master.sync, rem |-> master.rem, done |-> master.done]
      /\ IsSequence(toSlave') /\ IsSequence(toMaster')
  BY <1>1, Hearing
<1>3. master.pos \in Nat /\ master.done \in Nat /\ master.rem = 0 /\ master.sync = FALSE
  BY MasterFields DEF IInv
<1>4. toSlave = <<>> /\ Result(e) /\ toMaster' = <<>>
  <2>1. 1 \in DOMAIN toMaster /\ (toMaster' = <<>> <=> Len(toMaster) = 1)
    BY <1>2, Heard
  <2>2. toSlave = <<>> /\ Result(e) /\ 1 = Len(toMaster)
    BY <1>1, <2>1 DEF IInv, Coming
  <2>. QED  BY <2>1, <2>2
<1>5. /\ Total \in 1..Size /\ Size \in Nat /\ Len(master.job.data) = Total /\ memory \in [Addrs -> 0..255] /\ master.job.addr \in Nat
      /\ downRem \in Nat /\ program.rem \in Nat
  <2>1. Total \in 1..Size /\ Len(master.job.data) = Total /\ master.job.addr \in 1..Size
    <3>1. master.stage # "idle"
      BY Hearing
    <3>. QED  BY <3>1, JobFacts DEF IInv
  <2>2. Held /\ Size \in Nat
    BY Constants DEF IInv, Typed
  <2>3. memory \in [Addrs -> 0..255] /\ downRem \in Nat /\ program.rem \in Nat
    BY ONLY <2>2 DEF Held
  <2>4. master.job.addr \in Nat
    BY <2>1
  <2>. QED  BY <2>1, <2>2, <2>3, <2>4
<1>6. master.stage \in {"open", "answer"}
  BY <1>4 DEF Result
<1>7. upRem = 0 /\ downRem = 0 /\ program.rem = 0 /\ Left = 0
  <2>1. upRem = 0
    BY DEF IInv, Staged, Typed, Held
  <2>2. downRem = 0 /\ program.rem = 0
    BY <1>5, <1>6 DEF IInv, Staged, InBlock, Blockwise
  <2>. QED  BY <2>1, <2>2 DEF Left
<1>8. master.stage = "answer" => Kind \notin Blockwise
  BY DEF InBlock
\* The job goes on.
<1>9. CASE e.kind \in {"RES", "LENGTH"} /\ master.stage = "open"
  <2>1. master' = [job |-> master.job, stage |-> "run", pos |-> master.pos, got |-> master.got,
                   sync |-> FALSE, rem |-> 0, done |-> master.done]
    <3>1. master' = [master EXCEPT !.stage = "run"]
      BY <1>2, <1>9, Learned
    <3>. QED  BY <1>2, <1>3, <3>1
  <2>2. toSlave' = <<>>
    BY <1>2, <1>4, <1>9 DEF Broken, Refusals
  <2>3. Onward
    BY <1>2, <1>3, <1>6, <2>1 DEF Onward
  <2>4. /\ Typed' /\ Kind' = Kind /\ Total' = Total /\ Left' = Left /\ (OnJob' <=> OnJob)
    BY <2>3, OnwardFacts
  <2>5. /\ Kind \notin {"SHORT_UPLOAD", "PROGRAM_CLEAR", "PROGRAM_RESET"} /\ master.pos = 0
        /\ Kind # "PROGRAM" => OnJob
        /\ Kind \notin Blockwise => master.got = <<>> /\ Kind \in Bytewise \cup {"CHECKSUM"}
    <3>1. Kind \notin {"SHORT_UPLOAD", "PROGRAM_CLEAR", "PROGRAM_RESET"} /\ master.pos = 0
      BY <1>9 DEF IInv, Staged
    <3>2. Kind # "PROGRAM" => OnJob
      BY <1>4, <1>9 DEF Result, Refusals
    <3>3. Kind \notin Blockwise => master.got = <<>>
      BY <1>9 DEF IInv, Staged
    <3>4. Kind \notin Blockwise => Kind \in Bytewise \cup {"CHECKSUM"}
      BY <1>9, <3>1, JobFacts DEF IInv, Blockwise, Bytewise, TextJobs
    <3>. QED  BY <3>1, <3>2, <3>3, <3>4
  <2>6. Staged'
    BY <1>2, <1>4, <1>7, <2>1, <2>2, <2>4, <2>5 DEF Staged, Blockwise
  <2>7. Going'
    BY <1>5, <2>1, <2>2, <2>4, <2>5 DEF Going
  <2>8. Coming' /\ ~Uploading'
    BY <1>4, <2>1 DEF Coming, Uploading
  <2>9. ~(master'.done > master.done)
    BY <1>3, <2>1
  <2>. QED  BY <2>4, <2>6, <2>7, <2>8, <2>9 DEF IInv
\* The job is over.
<1>10. CASE e.kind = "DATA"
  <2>1. e.data = Slice(master.job.addr, Total) /\ Kind \in TextJobs \cup {"SHORT_UPLOAD"}
    BY <1>4, <1>10 DEF Result, Refusals
  <2>2. toSlave' = <<>>
    BY <1>2, <1>4, <1>10 DEF Broken, Refusals
  <2>3. master' = Finish(master, e.data)
    <3>1. CASE master.stage = "open"
      BY <1>2, <1>10, <3>1, Learned
    <3>2. CASE master.stage = "answer"
      <4>1. master.got = <<>>
        <5>1. Kind \notin Bytewise
          BY <1>3, <3>2 DEF Uploading
        <5>. QED  BY <1>8, <3>2, <5>1 DEF IInv, Staged
      <4>2. e.data \in Seq(0..255) /\ Len(e.data) = Total
        <5>1. PICK a \in Nat, n \in Nat : a = master.job.addr /\ n = Total
          BY <1>5
        <5>2. memory \in [Addrs -> 0..255]
          BY <1>5
        <5>3. Slice(a, n) \in Seq(0..255) /\ Len(Slice(a, n)) = n
          BY <5>2, SliceType
        <5>. QED  BY <2>1, <5>1, <5>3
      <4>3. master.got \o e.data = e.data
        <5>1. PICK x \in Seq(0..255) : x = e.data
          BY <4>2
        <5>2. <<>> \o x = x
          BY ConcatEmptySeq
        <5>. QED  BY <4>1, <5>1, <5>2
      <4>. QED  BY <1>2, <1>10, <3>2, <4>2, <4>3, Learned
    <3>. QED  BY <1>6, <3>1, <3>2
  <2>4. master' = [Finish(master, e.data) EXCEPT !.sync = FALSE] /\ master'.got = e.data
    BY <1>2, <1>3, <2>3 DEF Finish
  <2>5. IInv'
    BY <1>3, <1>4, <1>7, <2>2, <2>4, OverStep
  <2>. QED  BY <2>1, <2>4, <2>5
<1>11. CASE e.kind = "SUM"
  <2>1. master.stage = "answer" /\ Kind = "CHECKSUM"
    BY <1>4, <1>11 DEF Result, Refusals
  <2>2. toSlave' = <<>> /\ master' = Finish(master, <<e.sum>>)
    BY <1>2, <1>4, <1>11, <2>1, Learned DEF Broken, Refusals
  <2>3. master' = [Finish(master, <<e.sum>>) EXCEPT !.sync = FALSE]
    BY <1>2, <1>3, <2>2 DEF Finish
  <2>4. IInv'
    BY <1>3, <1>4, <1>7, <2>2, <2>3, OverStep
  <2>. QED  BY <2>1, <2>4
\* The job is refused.
<1>12. CASE e.kind \in Refusals /\ master.stage = "answer"
  <2>1. PICK c : c = [cmd |-> "SYNCH"]
    OBVIOUS
  <2>2. master' = [job |-> master.job, stage |-> "refused", pos |-> master.pos, got |-> master.got,
                   sync |-> TRUE, rem |-> 0, done |-> master.done]
    <3>1. master' = [master EXCEPT !.sync = TRUE, !.stage = "refused"]
      BY <1>2, <1>12, Learned
    <3>. QED  BY <1>2, <1>3, <3>1
  <2>3. toSlave' = Append(toSlave, c)
    BY <1>2, <1>12, <2>1 DEF Broken
  <2>4. DOMAIN toSlave' = {1} /\ toSlave'[1] = c /\ Len(toSlave') = 1
    <3>1. IsSequence(toSlave) /\ Len(toSlave) = 0
      BY <1>4, Nonempty DEF IInv, Typed
    <3>2. DOMAIN Append(toSlave, c) = {1} /\ Append(toSlave, c)[1] = c
      BY <3>1, PushedFirst
    <3>3. Len(Append(toSlave, c)) = Len(toSlave) + 1
      BY <3>1, Pushed
    <3>. QED  BY <2>3, <3>1, <3>2, <3>3
  <2>5. Onward
    BY <1>2, <1>3, <1>6, <2>2 DEF Onward
  <2>6. Typed' /\ Kind' = Kind /\ Left' = Left /\ (Stuck' <=> Stuck)
    BY <2>5, OnwardFacts
  <2>7. ~InBlock' /\ ~Uploading' /\ Kind \notin Blockwise
    BY <1>8, <1>12, <2>2, <2>6 DEF InBlock, Uploading
  <2>8. Stuck
    BY <1>7, <2>7 DEF Stuck, Blockwise
  <2>9. Staged'
    BY <1>2, <1>7, <2>2, <2>6, <2>7 DEF Staged
  <2>10. Going'
    BY <2>1, <2>2, <2>4, <2>7 DEF Going
  <2>11. Coming'
    BY <1>4, <2>2, <2>6, <2>7, <2>8 DEF Coming
  <2>12. ~(master'.done > master.done)
    BY <1>3, <2>2
  <2>. QED  BY <2>6, <2>7, <2>9, <2>10, <2>11, <2>12 DEF IInv
<1>. QED  BY <1>4, <1>6, <1>9, <1>10, <1>11, <1>12 DEF Result

LEMMA HearStep ==
  ASSUME IInv, Hear, Resume = TRUE
  PROVE  IInv'
BY BackStep, BlockHeard, UploadHeard, SingleHeard DEF Uploading

-----------------------------------------------------------------------------
(* The invariant holds                                                     *)

LEMMA Initially ==
  ASSUME Init
  PROVE  IInv
<1>1. memory \in [Addrs -> 0..255]
  <2>1. \A a \in Addrs : a % 256 \in 0..255
    BY Constants DEF Addrs
  <2>. QED  BY <2>1 DEF Init
<1>2. Held
  <2>1. Size \in Nat /\ MaxFaults \in Nat
    BY Constants
  <2>2. mta = [addr |-> mta.addr, ext |-> mta.ext] /\ mta.addr \in 0..Size + 1 /\ mta.ext \in {"NULL", "MEMORY", "FLASH"}
    BY <2>1 DEF Init
  <2>3. downRem \in 0..Size /\ upRem \in 0..Size /\ faults \in 0..MaxFaults
    BY <2>1 DEF Init
  <2>4. program \in [started : BOOLEAN, rem : 0..Size, counted : Seq(0..255)]
    <3>1. program = [started |-> FALSE, rem |-> 0, counted |-> <<>>] /\ <<>> \in Seq(0..255)
      BY DEF Init
    <3>. QED  BY <2>1, <3>1
  <2>5. worker = (upRem > 0)
    <3>1. worker = FALSE /\ upRem = 0
      BY DEF Init
    <3>2. (0 > 0) = FALSE
      OBVIOUS
    <3>. QED  BY <3>1, <3>2
  <2>. QED  BY <1>1, <2>2, <2>3, <2>4, <2>5 DEF Held
<1>3. master = [job |-> NoJob, stage |-> "idle", pos |-> 0, got |-> <<>>, sync |-> FALSE, rem |-> 0, done |-> 0]
  BY DEF Init, Between
<1>4. Minded /\ JobGood
  BY <1>3 DEF Minded, JobGood
<1>5. IsSequence(toSlave) /\ IsSequence(toMaster)
  BY EmptySeq DEF Init, IsSequence
<1>6. Staged /\ Going /\ Coming /\ ~Uploading
  BY <1>3 DEF Init, Staged, Going, Coming, Uploading, InBlock, Kind, NoJob, Blockwise
<1>. QED  BY <1>2, <1>4, <1>5, <1>6 DEF IInv, Typed

LEMMA NextStep ==
  ASSUME IInv, [Next]_vars, Resume = TRUE
  PROVE  IInv'
<1>1. CASE Work
  BY <1>1, WorkStep
<1>2. CASE SetMTA
  BY <1>2, SetMTAStep
<1>3. CASE Download \/ DownloadNext \/ Program \/ ProgramNext
  BY <1>3, FrameStep
<1>4. CASE Upload
  BY <1>4, UploadStep
<1>5. CASE ShortUpload
  BY <1>5, ShortUploadStep
<1>6. CASE BuildChecksum
  BY <1>6, BuildChecksumStep
<1>7. CASE GetId
  BY <1>7, GetIdStep
<1>8. CASE GetDaqEventInfo
  BY <1>8, GetDaqEventInfoStep
<1>9. CASE ProgramStart
  BY <1>9, ProgramStartStep
<1>10. CASE ProgramRefused("PROGRAM_CLEAR") \/ ProgramRefused("PROGRAM_RESET")
  BY <1>10, ProgramRefusedStep
<1>11. CASE Synch
  BY <1>11, SynchStep
<1>12. CASE Begin
  BY <1>12, BeginStep
<1>13. CASE Ask
  BY <1>13, OpenStep, OpenNotStep, SendBlockStep, AskStep DEF Ask
<1>14. CASE Hear
  BY <1>14, HearStep
<1>15. CASE Timeout
  BY <1>15, TimeoutStep
<1>16. CASE Lose
  BY <1>16, LoseStep
<1>17. CASE UNCHANGED <<state, toSlave, toMaster, master, faults>>
  BY <1>17, Same
<1>18. ReceiveStart \/ ReceiveEnd \/ UNCHANGED vars => UNCHANGED <<state, toSlave, toMaster, master, faults>>
  BY DEF ReceiveStart, ReceiveEnd, vars
<1>. QED
  BY <1>1, <1>2, <1>3, <1>4, <1>5, <1>6, <1>7, <1>8, <1>9, <1>10, <1>11, <1>12, <1>13, <1>14, <1>15, <1>16, <1>17, <1>18
  DEF Next, Slave

THEOREM Invariance ==
  ASSUME Resume = TRUE
  PROVE  Spec => []IInv
<1>1. Init => IInv
  BY Initially
<1>2. IInv /\ [Next]_vars => IInv'
  BY NextStep
<1>. QED  BY <1>1, <1>2, PTL DEF Spec

\* What Xcp_Mta, Xcp_Download, Xcp_Upload and Xcp_Program hold always fits, and
\* the worker of UPLOAD is installed exactly while bytes remain.
THEOREM TypeCorrect ==
  ASSUME Resume = TRUE
  PROVE  Spec => []TypeOK
<1>1. IInv => TypeOK
  BY DEF IInv, Typed, Held, TypeOK
<1>. QED  BY <1>1, Invariance, PTL

-----------------------------------------------------------------------------
(* How jobs end                                                            *)

\* A job ends when the master hears something, and nowhere else.
LEMMA EndsByHearing ==
  ASSUME IInv, [Next]_vars, master'.done > master.done
  PROVE  Hear
<1>1. master.done \in Nat
  BY MasterFields DEF IInv
<1>2. master'.done # master.done
  BY <1>1
<1>3. /\ master = [job |-> master.job, stage |-> master.stage, pos |-> master.pos, got |-> master.got,
                   sync |-> master.sync, rem |-> master.rem, done |-> master.done]
  BY DEF IInv, Typed, Minded
<1>4. ~UNCHANGED master
  BY <1>2
<1>5. ~Slave
  BY <1>4 DEF Slave, ReceiveStart, ReceiveEnd, Work, SetMTA, Download, DownloadNext, Upload, ShortUpload, BuildChecksum,
              GetId, GetDaqEventInfo, ProgramStart, Program, ProgramNext, ProgramRefused, Synch, Handle
<1>6. ~Begin
  <2>1. ASSUME NEW job, master' = [master EXCEPT !.job = job, !.stage = "start", !.pos = 0] PROVE FALSE
    BY <1>2, <1>3, <2>1
  <2>. QED  BY <2>1 DEF Begin
<1>7. ~Open
  BY <1>2, <1>3 DEF Open, Post
<1>8. ~OpenNot
  BY <1>2, <1>3 DEF OpenNot
<1>9. ~SendBlock
  <2>1. ASSUME SendBlock PROVE FALSE
    <3>1. PICK n : master' = [master EXCEPT !.pos = @ + n, !.stage = IF master.pos + n = Total THEN "answer" ELSE "run"]
      BY <2>1 DEF SendBlock, Post
    <3>. QED  BY <1>2, <1>3, <3>1
  <2>. QED  BY <2>1
<1>10. ~AskData /\ ~AskChecksum
  BY <1>2, <1>3 DEF AskData, AskChecksum, Post
<1>11. ~Timeout
  <2>1. ASSUME Timeout PROVE FALSE
    <3>1. PICK r : master' = [master EXCEPT !.sync = TRUE, !.rem = r]
      BY <2>1 DEF Timeout
    <3>. QED  BY <1>2, <1>3, <3>1
  <2>. QED  BY <2>1
<1>12. ~Lose
  BY <1>4 DEF Lose
<1>13. ~UNCHANGED vars
  BY <1>4 DEF vars
<1>. QED  BY <1>5, <1>6, <1>7, <1>8, <1>9, <1>10, <1>11, <1>12, <1>13 DEF Next, Ask

\* How a job of each kind ends.
LEMMA Ending ==
  ASSUME IInv, [Next]_vars, NEW kind, Ends(kind)
  PROVE  /\ kind \in Blockwise => Left = 0 /\ Has(Total)
         /\ kind \in Bytewise \cup {"SHORT_UPLOAD"} => master'.got = Slice(master.job.addr, Total)
         /\ Kind = kind /\ Total \in 1..Size /\ master.job.addr \in 1..Size /\ master.job.data \in Seq(0..255)
         /\ master.job.addr + Total - 1 <= Size /\ Len(master.job.data) = Total
<1>1. master'.done > master.done /\ master.stage # "refused" /\ Kind = kind
  BY DEF Ends, Kind
<1>2. Hear
  BY <1>1, EndsByHearing
<1>3. /\ Total \in 1..Size /\ master.job.addr \in 1..Size /\ master.job.data \in Seq(0..255)
      /\ master.job.addr + Total - 1 <= Size /\ Len(master.job.data) = Total
  <2>1. master.stage # "idle"
    BY <1>2, Hearing
  <2>. QED  BY <2>1, JobFacts DEF IInv
<1>4. ~master.sync
  <2>1. SUFFICES ASSUME master.sync PROVE ~(master'.done > master.done)
    BY <1>1
  <2>2. PICK e : e = toMaster[1]
    OBVIOUS
  <2>3. /\ master = [job |-> master.job, stage |-> master.stage, pos |-> master.pos, got |-> master.got,
                     sync |-> master.sync, rem |-> master.rem, done |-> master.done]
        /\ master' = Learn(e)
    BY <1>2, <2>2, Hearing
  <2>4. Learn(e) = master \/ Learn(e) = Again(master)
    BY <1>1, <2>1 DEF Learn
  <2>5. Again(master).done = master.done
    BY <2>3 DEF Again
  <2>6. master.done \in Nat
    BY MasterFields DEF IInv
  <2>. QED  BY <2>3, <2>4, <2>5, <2>6
<1>5. CASE InBlock
  <2>1. Left = 0 /\ Has(Total) /\ Kind \in Blockwise
    BY <1>1, <1>2, <1>4, <1>5, BlockHeard DEF InBlock
  <2>. QED  BY <1>1, <1>3, <2>1 DEF Blockwise, Bytewise, TextJobs
<1>6. CASE Uploading
  <2>1. master'.got = Slice(master.job.addr, Total) /\ Kind \in Bytewise
    BY <1>1, <1>2, <1>6, UploadHeard DEF Uploading
  <2>. QED  BY <1>1, <1>3, <2>1 DEF Blockwise, Bytewise, TextJobs
<1>7. CASE ~InBlock /\ ~Uploading
  <2>1. \/ Kind \in TextJobs \cup {"SHORT_UPLOAD"} /\ master'.got = Slice(master.job.addr, Total)
        \/ Kind = "CHECKSUM"
    BY <1>1, <1>2, <1>4, <1>7, SingleHeard
  <2>. QED  BY <1>1, <1>3, <2>1 DEF Blockwise, Bytewise, TextJobs
<1>. QED  BY <1>5, <1>6, <1>7

\* All the bytes of a block, one by one, are the block.
LEMMA Whole ==
  ASSUME NEW x \in Seq(0..255), NEW y \in Seq(0..255), Len(x) = Len(y), \A i \in 1..Len(x) : x[i] = y[i]
  PROVE  x = y
BY SeqEqual

\* A DOWNLOAD that was answered is in memory at its place, and the bytes that
\* PROGRAM has counted are those of the block, each once and in order, whatever
\* was lost and repeated on the way.
THEOREM BlocksIntact ==
  ASSUME Resume = TRUE
  PROVE  Spec => BlockIntact
<1>1. ASSUME IInv, [Next]_vars, Ends("DOWNLOAD") PROVE Slice(master.job.addr, Total) = master.job.data
  <2>1. /\ Has(Total) /\ Kind = "DOWNLOAD" /\ Total \in 1..Size /\ master.job.addr \in 1..Size
        /\ master.job.data \in Seq(0..255) /\ master.job.addr + Total - 1 <= Size /\ Len(master.job.data) = Total
    BY <1>1, Ending DEF Blockwise
  <2>2. \A i \in 1..Total : memory[master.job.addr + i - 1] = master.job.data[i]
    BY <2>1 DEF Has
  <2>3. Size \in Nat /\ memory \in [Addrs -> 0..255]
    BY <1>1, Constants DEF IInv, Typed, Held
  <2>4. PICK a \in Nat, n \in Nat : a = master.job.addr /\ n = Total
    BY <2>1, <2>3
  <2>5. memory \in [Addrs -> 0..255]
    BY <2>3
  <2>6. /\ Slice(a, n) \in Seq(0..255) /\ Len(Slice(a, n)) = n
        /\ \A i \in 1..n : a + i - 1 \in Addrs => Slice(a, n)[i] = memory[a + i - 1]
    BY <2>5, SliceType
  <2>7. PICK x \in Seq(0..255), y \in Seq(0..255) : x = Slice(a, n) /\ y = master.job.data
    BY <2>1, <2>6
  <2>8. Len(x) = Len(y) /\ Len(x) = n
    BY <2>1, <2>4, <2>6, <2>7
  <2>9. \A i \in 1..Len(x) : x[i] = y[i]
    <3>1. \A i \in 1..n : a + i - 1 \in Addrs
      <4>1. a \in 1..Size /\ a + n - 1 <= Size
        BY <2>1, <2>4
      <4>2. \A i \in 1..n : a + i - 1 \in 1..Size
        BY ONLY <4>1, <2>3
      <4>. QED  BY <4>2 DEF Addrs
    <3>2. \A i \in 1..n : x[i] = memory[a + i - 1]
      BY <2>6, <2>7, <3>1
    <3>3. \A i \in 1..n : memory[a + i - 1] = y[i]
      BY <2>2, <2>4, <2>7
    <3>. QED  BY ONLY <2>8, <3>2, <3>3
  <2>10. x = y
    BY <2>8, <2>9, Whole
  <2>. QED  BY <2>4, <2>7, <2>10
<1>2. ASSUME IInv, [Next]_vars, Ends("PROGRAM") PROVE program.counted = master.job.data
  <2>1. /\ Has(Total) /\ Kind = "PROGRAM" /\ master.job.data \in Seq(0..255) /\ Len(master.job.data) = Total
    BY <1>2, Ending DEF Blockwise
  <2>2. program.counted \in Seq(0..255)
    BY <1>2 DEF IInv, Typed, Held
  <2>3. PICK x \in Seq(0..255), y \in Seq(0..255) : x = program.counted /\ y = master.job.data
    BY <2>1, <2>2
  <2>4. Len(x) = Len(y) /\ \A i \in 1..Len(x) : x[i] = y[i]
    BY <2>1, <2>3 DEF Has
  <2>5. x = y
    BY <2>4, Whole
  <2>. QED  BY <2>3, <2>5
<1>3. IInv /\ [Next]_vars =>
        [/\ Ends("DOWNLOAD") => Slice(master.job.addr, Total) = master.job.data
         /\ Ends("PROGRAM") => program.counted = master.job.data]_vars
  BY <1>1, <1>2
<1>. QED  BY <1>3, Invariance, PTL DEF Spec, BlockIntact

\* DOWNLOAD writes only into the area of its block, and nothing through the
\* FLASH extension; no other command writes.
THEOREM WritesInside ==
  ASSUME Resume = TRUE
  PROVE  Spec => WritesStayInside
<1>1. ASSUME IInv, [Next]_vars PROVE \A a \in Addrs : memory'[a] # memory[a] => a \in Written
  <2>1. CASE Download \/ DownloadNext \/ Program \/ ProgramNext
    BY <1>1, <2>1, FrameOutcome
  <2>2. CASE UNCHANGED memory
    BY <2>2
  <2>3. \/ Download \/ DownloadNext \/ Program \/ ProgramNext
        \/ UNCHANGED memory
    <3>1. Slave => (Download \/ DownloadNext \/ Program \/ ProgramNext) \/ UNCHANGED memory
      BY DEF Slave, ReceiveStart, ReceiveEnd, Work, SetMTA, Upload, ShortUpload, BuildChecksum, GetId, GetDaqEventInfo,
             ProgramStart, ProgramRefused, Synch, state
    <3>2. Ask => UNCHANGED memory
      BY DEF Ask, Open, OpenNot, SendBlock, AskData, AskChecksum, Post, state
    <3>3. Begin \/ Hear \/ Timeout \/ Lose \/ UNCHANGED vars => UNCHANGED memory
      BY DEF Begin, Hear, Timeout, Lose, vars, state
    <3>. QED  BY <1>1, <3>1, <3>2, <3>3 DEF Next
  <2>. QED  BY <2>1, <2>2, <2>3
<1>2. IInv /\ [Next]_vars => [\A a \in Addrs : memory'[a] # memory[a] => a \in Written]_vars
  BY <1>1
<1>. QED  BY <1>2, Invariance, PTL DEF Spec, WritesStayInside

\* What UPLOAD and SHORT_UPLOAD bring is the memory, and what GET_ID and
\* GET_DAQ_EVENT_INFO lead to is the name asked for, in as many frames as it
\* takes and whatever is lost.
THEOREM UploadsIntact ==
  ASSUME Resume = TRUE
  PROVE  Spec => UploadIntact
<1>1. ASSUME IInv, [Next]_vars, NEW kind \in {"UPLOAD", "SHORT_UPLOAD"} \cup TextJobs, Ends(kind)
      PROVE  master'.got = Slice(master.job.addr, Total)
  <2>1. kind \in Bytewise \cup {"SHORT_UPLOAD"}
    BY <1>1 DEF Bytewise
  <2>. QED  BY <1>1, <2>1, Ending
<1>2. IInv /\ [Next]_vars =>
        [\A kind \in {"UPLOAD", "SHORT_UPLOAD"} \cup TextJobs :
           Ends(kind) => master'.got = Slice(master.job.addr, Total)]_vars
  BY <1>1
<1>. QED  BY <1>2, Invariance, PTL DEF Spec, UploadIntact
==============================================================================
