----------------------------- MODULE XcpTransfer -----------------------------
(***************************************************************************)
(* Memory access through the MTA (Xcp.c, Xcp_Memory.c): SET_MTA, DOWNLOAD  *)
(* and DOWNLOAD_NEXT in block mode, UPLOAD with its worker, SHORT_UPLOAD,  *)
(* BUILD_CHECKSUM, the names that GET_ID and GET_DAQ_EVENT_INFO put the    *)
(* MTA on, SYNCH, and the programming commands (Xcp_Program.c).  One       *)
(* transfer takes several frames and the slave keeps count of the bytes    *)
(* that remain; frames are dropped when the pool is empty and lost on the  *)
(* way, and the master repeats.                                            *)
(*                                                                         *)
(* The slave is translated from the code, XCP_ELEMENT_SIZE 1.  The master  *)
(* is external: it does one job after the other, sends the frames of a     *)
(* block without waiting, flushes with SYNCH when something went wrong and *)
(* takes the job up again.                                                 *)
(***************************************************************************)
EXTENDS Integers, Sequences, FiniteSets, Functions

CONSTANTS Size,         \* the memory has the addresses 1..Size
          ReadOnly,     \* the addresses the master reaches as XCP_MTA_EXTENSION_FLASH
          Texts,        \* the names in memory, each the set of its addresses
          DownChunk,    \* XCP_MAX_CTO - 2: bytes of a DOWNLOAD or PROGRAM frame
          UpChunk,      \* XCP_MAX_CTO - 1: bytes of an UPLOAD response
          Inline,       \* XCP_MAX_CTO - 9: bytes of a name in the response of GET_ID
          JobKinds,     \* what the master does
          JobSizes,     \* how many bytes at once
          Resume,       \* TRUE: a block is taken up where the slave lost it
          MaxJobs,      \* bound: jobs
          MaxFaults     \* bound: lost and dropped frames

Addrs == 1..Size
MemoryJobs == {"DOWNLOAD", "UPLOAD", "CHECKSUM", "SHORT_UPLOAD"}
TextJobs == {"GET_ID", "GET_DAQ_EVENT_INFO"}
ProgramJobs == {"PROGRAM", "PROGRAM_CLEAR", "PROGRAM_RESET"}

ASSUME TransferAssumption ==
  /\ Size \in Nat \ {0} /\ ReadOnly \subseteq Addrs
  /\ \A text \in Texts : \E a, b \in Addrs : a <= b /\ text = a..b
  /\ DownChunk \in Nat \ {0} /\ UpChunk \in Nat \ {0} /\ Inline \in Nat
  /\ JobKinds \subseteq MemoryJobs \cup TextJobs \cup ProgramJobs
  /\ JobSizes \subseteq Addrs
  /\ Resume \in BOOLEAN /\ MaxJobs \in Nat /\ MaxFaults \in Nat

VARIABLES
  memory,     \* a byte at every address
  mta,        \* Xcp_Mta: address and extension
  downRem,    \* Xcp_Download.rem
  upRem,      \* Xcp_Upload.rem
  worker,     \* Xcp_Worker = Xcp_CmdUpload_Worker
  program,    \* Xcp_Program: started and rem; and the bytes it has counted
  receiving,  \* the loop of Xcp_Recieve_Main is running
  toSlave,    \* commands on their way or in Xcp_FifoRx
  toMaster,   \* responses in Xcp_FifoTx or on their way
  master,     \* the job of the master and how far it is
  faults      \* how much has gone wrong so far

state == <<memory, mta, downRem, upRem, worker, program>>
vars == <<state, receiving, toSlave, toMaster, master, faults>>

Least(i, j) == IF i <= j THEN i ELSE j
\* The n bytes from address a on; beyond the memory the model reads 0.
Slice(a, n) == [i \in 1..n |-> IF a + i - 1 \in Addrs THEN memory[a + i - 1] ELSE 0]

NoJob == [kind |-> "NONE", addr |-> 1, data |-> <<>>]
Between == [job |-> NoJob, stage |-> "idle", pos |-> 0, got |-> <<>>,
            sync |-> FALSE, rem |-> 0, done |-> 0]

Init == /\ memory = [a \in Addrs |-> a % 256]
        /\ mta = [addr |-> 0, ext |-> "NULL"]
        /\ downRem = 0 /\ upRem = 0 /\ worker = FALSE
        /\ program = [started |-> FALSE, rem |-> 0, counted |-> <<>>]
        /\ receiving = FALSE /\ toSlave = <<>> /\ toMaster = <<>>
        /\ master = Between /\ faults = 0

Fault == faults < MaxFaults /\ faults' = faults + 1

-----------------------------------------------------------------------------
(* The slave                                                               *)

Command == Head(toSlave)

\* Xcp_Recieve_Main: a command of the queue; those that come during the loop
\* are handled by it too.
Handle(cmd) == /\ receiving /\ toSlave # <<>> /\ Command.cmd = cmd
               /\ toSlave' = Tail(toSlave)
               /\ UNCHANGED <<receiving, master>>

Queued(e) == toMaster' = Append(toMaster, e) /\ UNCHANGED faults
Unqueued == Fault /\ UNCHANGED toMaster
Answer(e) == Queued(e) \/ Unqueued

\* Xcp_MainFunction: the worker if there is one, else the received commands.
ReceiveStart == /\ ~receiving /\ ~worker /\ toSlave # <<>>
                /\ receiving' = TRUE
                /\ UNCHANGED <<state, toSlave, toMaster, master, faults>>

ReceiveEnd == /\ receiving /\ toSlave = <<>>
              /\ receiving' = FALSE
              /\ UNCHANGED <<state, toSlave, toMaster, master, faults>>

\* The functions of Xcp_Mta behind an extension.
Readable == mta.ext # "NULL"
Writable == mta.ext = "MEMORY"

\* Xcp_MtaInit
MtaInit(a, ext) == mta' = [addr |-> a, ext |-> ext]
Advance(n) == mta' = [mta EXCEPT !.addr = @ + n]

SetMTA == /\ Handle("SET_MTA")
          /\ MtaInit(Command.addr, Command.ext)
          /\ Answer([kind |-> "RES"])
          /\ UNCHANGED <<memory, downRem, upRem, worker, program>>

\* Xcp_MtaWriteMemory
Write(data, n) ==
  /\ memory' = [a \in Addrs |-> LET i == a - mta.addr + 1
                                IN IF i \in 1..n THEN data[i] ELSE memory[a]]
  /\ Advance(n)

Refused == ~Writable /\ Answer([kind |-> "ERR_OUT_OF_RANGE"]) /\ UNCHANGED <<memory, mta, downRem>>

\* Fault: all bytes of a frame are written, those that fill it up too.
AcceptWholeFrame(rem) ==
  LET n == Len(Command.data)
  IN /\ Write(Command.data, n)
     /\ downRem' = rem - Least(rem, n)
     /\ IF rem <= n THEN Answer([kind |-> "RES"]) ELSE UNCHANGED <<toMaster, faults>>

\* The part of the block that this frame brings, of the rem bytes expected.
Accept(rem) ==
  LET n == Least(rem, Len(Command.data))
  IN /\ Write(Command.data, n)
     /\ downRem' = rem - n
     /\ IF rem = n THEN Answer([kind |-> "RES"]) ELSE UNCHANGED <<toMaster, faults>>

\* Fault: the count of the block before is kept.
DownloadKeepsCount ==
  /\ Handle("DOWNLOAD")
  /\ \/ Refused
     \/ /\ Writable /\ Command.rem # downRem
        /\ Answer([kind |-> "ERR_SEQUENCE", rem |-> downRem])
        /\ UNCHANGED <<memory, mta, downRem>>
     \/ Writable /\ Command.rem = downRem /\ Accept(downRem)
  /\ UNCHANGED <<upRem, worker, program>>

\* Xcp_CmdDownload for DOWNLOAD: the count starts anew.
Download == /\ Handle("DOWNLOAD")
            /\ \/ Refused
               \/ Writable /\ Accept(Command.rem)
            /\ UNCHANGED <<upRem, worker, program>>

\* Fault: no check for a sequence error.
DownloadNextUnchecked == /\ Handle("DOWNLOAD_NEXT")
                         /\ \/ Refused
                            \/ Writable /\ Accept(Command.rem)
                         /\ UNCHANGED <<upRem, worker, program>>

\* Xcp_CmdDownload for DOWNLOAD_NEXT: what remains must match.
DownloadNext ==
  /\ Handle("DOWNLOAD_NEXT")
  /\ \/ Refused
     \/ /\ Writable /\ Command.rem # downRem
        /\ Answer([kind |-> "ERR_SEQUENCE", rem |-> downRem])
        /\ UNCHANGED <<memory, mta, downRem>>
     \/ Writable /\ Command.rem = downRem /\ Accept(downRem)
  /\ UNCHANGED <<upRem, worker, program>>

\* Fault: the worker stays installed.
SentKeepsWorker(rem) ==
  LET n == Least(rem, UpChunk)
  IN /\ \/ Queued([kind |-> "DATA", data |-> Slice(mta.addr, n)]) /\ Advance(n)
        \/ Unqueued /\ UNCHANGED mta
     /\ upRem' = rem - n
     /\ worker' = TRUE

\* Fault: reading leaves the address alone.
SentInPlace(rem) ==
  LET n == Least(rem, UpChunk)
  IN /\ Answer([kind |-> "DATA", data |-> Slice(mta.addr, n)])
     /\ upRem' = rem - n
     /\ worker' = (rem # n)
     /\ UNCHANGED mta

\* Xcp_CmdUpload_Worker: a frame of the block. Without a buffer nothing is
\* read, but the bytes count as sent.
Sent(rem) ==
  LET n == Least(rem, UpChunk)
  IN /\ \/ Queued([kind |-> "DATA", data |-> Slice(mta.addr, n)]) /\ Advance(n)
        \/ Unqueued /\ UNCHANGED mta
     /\ upRem' = rem - n
     /\ worker' = (rem # n)

Work == /\ ~receiving /\ worker
        /\ Sent(upRem)
        /\ UNCHANGED <<memory, downRem, program, receiving, toSlave, master>>

\* Xcp_CmdUpload: the worker sends the first frame at once.  Xcp_Mta.get is
\* not checked: if it is NULL, nothing happens any more.
Upload == /\ Handle("UPLOAD") /\ Readable
          /\ Sent(Command.size)
          /\ UNCHANGED <<memory, downRem, program>>

ShortUpload ==
  /\ Handle("SHORT_UPLOAD")
  /\ LET n == Command.size
     IN IF n > UpChunk
        THEN Answer([kind |-> "ERR_CMD_SYNTAX"]) /\ UNCHANGED mta
        ELSE \/ /\ Queued([kind |-> "DATA", data |-> Slice(Command.addr, n)])
                /\ MtaInit(Command.addr + n, Command.ext)
             \/ Unqueued /\ MtaInit(Command.addr, Command.ext)
  /\ UNCHANGED <<memory, downRem, upRem, worker, program>>

\* Fault: the first byte is left out.
ChecksumSkipsFirst(a, n) ==
  LET res[i \in 1..n] == IF i = 1 THEN 0 ELSE (res[i - 1] + Slice(a, n)[i]) % 256
  IN res[n]

\* Xcp_CmdBuildChecksum_Add11: byte after byte is added to a uint8.
Checksum(a, n) ==
  LET res[i \in 0..n] == IF i = 0 THEN 0 ELSE (res[i - 1] + Slice(a, n)[i]) % 256
  IN res[n]

BuildChecksum ==
  /\ Handle("BUILD_CHECKSUM")
  /\ IF Readable
     THEN /\ Answer([kind |-> "SUM", sum |-> Checksum(mta.addr, Command.size)])
          /\ Advance(Command.size)
     ELSE Answer([kind |-> "ERR_OUT_OF_RANGE"]) /\ UNCHANGED mta
  /\ UNCHANGED <<memory, downRem, upRem, worker, program>>

\* Xcp_CmdGetId: a short name goes into the response, for a long one the MTA
\* is put on it.
GetId == /\ Handle("GET_ID")
         /\ IF Command.size <= Inline
            THEN Answer([kind |-> "DATA", data |-> Slice(Command.addr, Command.size)]) /\ UNCHANGED mta
            ELSE Answer([kind |-> "LENGTH"]) /\ MtaInit(Command.addr, "MEMORY")
         /\ UNCHANGED <<memory, downRem, upRem, worker, program>>

\* Xcp_CmdGetDaqEventInfo of a channel that has a name.
GetDaqEventInfo == /\ Handle("GET_DAQ_EVENT_INFO")
                   /\ MtaInit(Command.addr, "MEMORY")
                   /\ Answer([kind |-> "LENGTH"])
                   /\ UNCHANGED <<memory, downRem, upRem, worker, program>>

\* Xcp_Program.c.  Programming is started once and for all.
ProgramStart == /\ Handle("PROGRAM_START")
                /\ program' = [program EXCEPT !.started = TRUE]
                /\ Answer([kind |-> "RES"])
                /\ UNCHANGED <<memory, mta, downRem, upRem, worker>>

NotStarted == /\ ~program.started
              /\ Answer([kind |-> "ERR_GENERIC"])
              /\ UNCHANGED program

\* The bytes of this frame are counted; writing them is still to be done in
\* the code.
Credit(rem, before) ==
  LET n == Least(rem, Len(Command.data))
  IN /\ program' = [program EXCEPT !.rem = rem - n, !.counted = before \o SubSeq(Command.data, 1, n)]
     /\ IF rem = n THEN Answer([kind |-> "RES"]) ELSE UNCHANGED <<toMaster, faults>>

Program == /\ Handle("PROGRAM")
           /\ \/ NotStarted
              \/ program.started /\ Credit(Command.rem, <<>>)
           /\ UNCHANGED <<memory, mta, downRem, upRem, worker>>

ProgramNext ==
  /\ Handle("PROGRAM_NEXT")
  /\ \/ NotStarted
     \/ /\ program.started /\ Command.rem # program.rem
        /\ Answer([kind |-> "ERR_SEQUENCE", rem |-> program.rem])
        /\ UNCHANGED program
     \/ program.started /\ Command.rem = program.rem /\ Credit(program.rem, program.counted)
  /\ UNCHANGED <<memory, mta, downRem, upRem, worker>>

\* Xcp_CmdProgramClear and Xcp_CmdProgramReset, which are not implemented.
ProgramRefused(cmd) ==
  /\ Handle(cmd)
  /\ \/ NotStarted
     \/ program.started /\ Answer([kind |-> "ERR_CMD_UNKNOWN"]) /\ UNCHANGED program
  /\ UNCHANGED <<memory, mta, downRem, upRem, worker>>

Synch == /\ Handle("SYNCH")
         /\ Answer([kind |-> "ERR_SYNCH"])
         /\ UNCHANGED state

Slave == \/ ReceiveStart \/ ReceiveEnd \/ Work
         \/ SetMTA \/ Download \/ DownloadNext \/ Upload \/ ShortUpload
         \/ BuildChecksum \/ GetId \/ GetDaqEventInfo
         \/ ProgramStart \/ Program \/ ProgramNext
         \/ ProgramRefused("PROGRAM_CLEAR") \/ ProgramRefused("PROGRAM_RESET") \/ Synch

-----------------------------------------------------------------------------
(* The master                                                              *)

Extension(a) == IF a \in ReadOnly THEN "FLASH" ELSE "MEMORY"
Total == Len(master.job.data)
Post(cmd, m) == /\ toSlave' = Append(toSlave, cmd)
                /\ master' = m
                /\ UNCHANGED <<state, receiving, toMaster, faults>>

\* The bytes of a download tell the jobs and the places apart.
Fresh(n) == [i \in 1..n |-> (100 * (master.done + 1) + i) % 256]

Blocks == {b \in {a..a + n - 1 : a \in Addrs, n \in JobSizes} : b \subseteq Addrs}
\* Where a job works: on memory of one kind, or on a name.
Places(kind) == IF kind \in TextJobs THEN Texts
                ELSE {b \in Blocks : b \subseteq ReadOnly \/ b \cap ReadOnly = {}}
First(block) == CHOOSE a \in block : \A b \in block : a <= b

Begin ==
  /\ master.stage = "idle" /\ master.done < MaxJobs
  /\ \E kind \in JobKinds : \E block \in Places(kind) :
       master' = [master EXCEPT !.job = [kind |-> kind, addr |-> First(block),
                                         data |-> Fresh(Cardinality(block))],
                                !.stage = "start", !.pos = 0]
  /\ UNCHANGED <<state, receiving, toSlave, toMaster, faults>>

\* The first command of a job, of some the only one.
Opening(job, n) ==
  CASE job.kind \in {"DOWNLOAD", "UPLOAD", "CHECKSUM"} ->
         [cmd |-> "SET_MTA", addr |-> job.addr, ext |-> Extension(job.addr)]
    [] job.kind = "PROGRAM" -> [cmd |-> "PROGRAM_START"]
    [] job.kind \in {"PROGRAM_CLEAR", "PROGRAM_RESET"} -> [cmd |-> job.kind]
    [] OTHER -> [cmd |-> job.kind, addr |-> job.addr, size |-> n, ext |-> Extension(job.addr)]

Open == /\ master.stage = "start" /\ ~master.sync
        /\ Post(Opening(master.job, Total),
                [master EXCEPT !.stage = IF master.job.kind \in {"SHORT_UPLOAD", "PROGRAM_CLEAR", "PROGRAM_RESET"}
                                         THEN "answer" ELSE "open",
                               !.pos = 0, !.got = <<>>])

\* Programming without PROGRAM_START.
OpenNot == /\ master.stage = "start" /\ ~master.sync /\ master.job.kind = "PROGRAM"
           /\ master' = [master EXCEPT !.stage = "run"]
           /\ UNCHANGED <<state, receiving, toSlave, toMaster, faults>>

NextOf == [DOWNLOAD |-> "DOWNLOAD_NEXT", PROGRAM |-> "PROGRAM_NEXT"]

\* The next frame of a block, which may be filled up to its full size.
SendBlock ==
  /\ master.stage = "run" /\ master.job.kind \in {"DOWNLOAD", "PROGRAM"} /\ ~master.sync
  /\ LET n == Least(DownChunk, Total - master.pos)
     IN \E size \in {n, DownChunk} :
        Post([cmd |-> IF master.pos = 0 THEN master.job.kind ELSE NextOf[master.job.kind],
              rem |-> Total - master.pos,
              data |-> [i \in 1..size |-> IF i <= n THEN master.job.data[master.pos + i] ELSE 255]],
             [master EXCEPT !.pos = @ + n,
                            !.stage = IF master.pos + n = Total THEN "answer" ELSE "run"])

AskData == /\ master.stage = "run" /\ master.job.kind \in {"UPLOAD"} \cup TextJobs
           /\ Post([cmd |-> "UPLOAD", size |-> Total], [master EXCEPT !.stage = "answer"])

AskChecksum == /\ master.stage = "run" /\ master.job.kind = "CHECKSUM"
               /\ Post([cmd |-> "BUILD_CHECKSUM", size |-> Total], [master EXCEPT !.stage = "answer"])

\* Back in step after a SYNCH: go on where the slave is, or start again.
Again(m) == IF Resume /\ m.rem \in 1..Total - 1
            THEN [m EXCEPT !.sync = FALSE, !.stage = "run", !.pos = Total - m.rem, !.rem = 0]
            ELSE [m EXCEPT !.sync = FALSE, !.stage = "start", !.pos = 0, !.rem = 0]

Finish(m, data) == [m EXCEPT !.stage = "idle", !.done = @ + 1, !.got = data]

\* After a response: TRUE if SYNCH is to follow.
Refusals == {"ERR_OUT_OF_RANGE", "ERR_CMD_SYNTAX", "ERR_GENERIC", "ERR_CMD_UNKNOWN"}
Broken(e) == e.kind \in Refusals \cup {"ERR_SEQUENCE"}

Learn(e) ==
  LET m == master
  IN IF m.sync THEN IF e.kind = "ERR_SYNCH"
                    THEN IF m.stage = "refused" THEN [Finish(m, <<>>) EXCEPT !.sync = FALSE]
                         ELSE Again(m)
                    ELSE m
     ELSE CASE e.kind = "ERR_SEQUENCE" -> [m EXCEPT !.sync = TRUE, !.rem = e.rem]
            [] e.kind \in Refusals -> [m EXCEPT !.sync = TRUE, !.stage = "refused"]
            [] e.kind \in {"RES", "LENGTH"} /\ m.stage = "open" -> [m EXCEPT !.stage = "run"]
            [] e.kind = "DATA" /\ m.stage = "open" -> Finish(m, e.data)
            [] e.kind = "RES" /\ m.stage = "answer" -> Finish(m, <<>>)
            [] e.kind = "SUM" /\ m.stage = "answer" -> Finish(m, <<e.sum>>)
            [] e.kind = "DATA" /\ m.stage = "answer" ->
                 IF Len(m.got \o e.data) = Total THEN Finish(m, m.got \o e.data)
                 ELSE [m EXCEPT !.got = @ \o e.data]
            [] OTHER -> m

Hear == /\ toMaster # <<>>
        /\ toMaster' = Tail(toMaster)
        /\ master' = Learn(Head(toMaster))
        /\ toSlave' = IF ~master.sync /\ Broken(Head(toMaster))
                      THEN Append(toSlave, [cmd |-> "SYNCH"]) ELSE toSlave
        /\ UNCHANGED <<state, receiving, faults>>

\* Nothing came and nothing will: the timeout is longer than a transfer. To
\* find out how far a block came, the last frame of it is repeated.
Timeout ==
  /\ toSlave = <<>> /\ toMaster = <<>> /\ ~worker
  /\ master.sync \/ master.stage \in {"open", "answer"}
  /\ toSlave' = <<[cmd |-> "SYNCH"]>>
  /\ master' = [master EXCEPT !.sync = TRUE,
                  !.rem = IF ~master.sync /\ master.stage = "answer" /\ master.job.kind \in DOMAIN NextOf
                          THEN ((Total - 1) % DownChunk) + 1 ELSE @]
  /\ UNCHANGED <<state, receiving, toMaster, faults>>

\* No buffer for a command, or a frame lost on the way.
Lose == /\ Fault
        /\ \/ toSlave # <<>> /\ toSlave' = Tail(toSlave) /\ UNCHANGED toMaster
           \/ toMaster # <<>> /\ toMaster' = Tail(toMaster) /\ UNCHANGED toSlave
        /\ UNCHANGED <<state, receiving, master>>

Ask == Open \/ OpenNot \/ SendBlock \/ AskData \/ AskChecksum

Next == Slave \/ Begin \/ Ask \/ Hear \/ Timeout \/ Lose

Spec == Init /\ [][Next]_vars

\* Xcp_MainFunction is called again and again, the master goes on with a job.
LiveSpec == Spec /\ WF_vars(Slave) /\ WF_vars(Ask) /\ WF_vars(Hear) /\ WF_vars(Timeout)

-----------------------------------------------------------------------------
(* Properties                                                              *)

\* What Xcp_Mta, Xcp_Download and Xcp_Upload hold; the worker is installed
\* exactly while an upload has bytes left.
TypeOK ==
  /\ memory \in [Addrs -> 0..255]
  /\ mta.addr \in 0..Size + 1 /\ mta.ext \in {"NULL", "MEMORY", "FLASH"}
  /\ downRem \in 0..Size /\ upRem \in 0..Size
  /\ program \in [started : BOOLEAN, rem : 0..Size, counted : Seq(0..255)]
  /\ worker = (upRem > 0)
  /\ faults \in 0..MaxFaults

\* The job of the master ends in this step, and has not been refused.
Ends(kind) == /\ master'.done > master.done /\ master.stage # "refused"
              /\ master.job.kind = kind

\* A download that was answered is in memory at its place (Xcp_CmdDownload),
\* and the bytes counted as programmed are those of the block, each once and
\* in order (Xcp_CmdProgram), whatever was lost and repeated on the way.
BlockIntact ==
  [][/\ Ends("DOWNLOAD") => Slice(master.job.addr, Total) = master.job.data
     /\ Ends("PROGRAM") => program.counted = master.job.data]_vars

\* The area that the job in hand may write.
Written == IF master.job.kind = "DOWNLOAD" /\ master.stage # "idle"
           THEN {master.job.addr + i - 1 : i \in 1..Total} \ ReadOnly ELSE {}

\* No byte outside the block is ever written, and none through the FLASH
\* extension, which has no write function (Xcp_MtaInit).
WritesStayInside == [][\A a \in Addrs : memory'[a] # memory[a] => a \in Written]_vars

\* What an upload brought, in as many frames as it takes, is the memory; and
\* what GET_ID and GET_DAQ_EVENT_INFO lead to is the name asked for.
UploadIntact ==
  [][\A kind \in {"UPLOAD", "SHORT_UPLOAD"} \cup TextJobs :
       Ends(kind) => master'.got = Slice(master.job.addr, Total)]_vars

\* The checksum the master takes is that of its block, not of another one.
ChecksumTrue ==
  [][Ends("CHECKSUM") =>
       master'.got = <<FoldFunction(+, 0, Slice(master.job.addr, Total)) % 256>>]_vars

\* Each job ends, although frames are lost; and so no UPLOAD runs on an MTA
\* that was not set, as the slave would not survive it.
JobsEnd == master.stage # "idle" ~> master.stage = "idle"
=============================================================================
