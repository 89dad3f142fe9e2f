-------------------------------- MODULE XcpMta --------------------------------
(***************************************************************************)
(* The memory transfer address (Xcp_Memory.c): what reading and writing    *)
(* through each address extension does.  A store holds the bytes of the    *)
(* memory, the levels of the DIO channels and those of the DIO ports.  The *)
(* debug memory is the part of the memory from DebugBase on.               *)
(***************************************************************************)
EXTENDS Integers, Sequences

CONSTANTS PortSize,   \* sizeof(Dio_PortLevelType)
          DebugBase   \* the address of g_XcpDebugMemory

ASSUME MtaAssumption == PortSize \in 1..2 /\ DebugBase \in Nat

\* Byte k of a level, counted from the least significant one on.
Byte(level, k) == (level \div 256^k) % 256

-----------------------------------------------------------------------------
(* Reading                                                                 *)

Port(mta) == mta.addr \div PortSize
Offset(mta) == mta.addr % PortSize

\* Xcp_MtaGetMemory, Xcp_MtaGetDioChan and Xcp_MtaGetDioPort, which reads the
\* port only at its first byte.
Get(store, mta) ==
  LET buffer == IF mta.ext = "DIO_PORT" /\ Offset(mta) = 0 THEN store.port[Port(mta)] ELSE mta.buffer
  IN [mta EXCEPT !.addr = @ + 1, !.buffer = buffer,
                 !.got = CASE mta.ext = "DIO_PORT" -> Byte(buffer, Offset(mta))
                           [] mta.ext = "DIO_CHAN" -> store.chan[mta.addr]
                           [] OTHER -> store.mem[mta.addr]]

\* The MTA after n reads, and the bytes read.
After(store, mta, n) ==
  LET steps[i \in 0..n] == IF i = 0 THEN mta ELSE Get(store, steps[i - 1])
  IN steps
Read(store, mta, n) == [i \in 1..n |-> After(store, mta, n)[i].got]

\* Fault: a port is read from the address on.
MtaInitUnread(store, addr, ext, junk) ==
  [ext |-> ext, buffer |-> junk, got |-> 0, addr |-> IF ext = "DEBUG" THEN DebugBase + addr ELSE addr]

\* Xcp_MtaInit.  The buffer starts with what is on the stack; a port is read
\* from its first byte up to the address.
MtaInit(store, addr, ext, junk) ==
  LET start == [ext |-> ext, buffer |-> junk, got |-> 0,
                addr |-> IF ext = "DIO_PORT" THEN addr - (addr % PortSize)
                         ELSE IF ext = "DEBUG" THEN DebugBase + addr ELSE addr]
  IN IF ext = "DIO_PORT" THEN After(store, start, addr % PortSize)[addr % PortSize] ELSE start

-----------------------------------------------------------------------------
(* Writing                                                                 *)

\* FLASH has no function to write.
CanWrite(ext) == ext \in {"MEMORY", "DEBUG", "DIO_PORT", "DIO_CHAN"}

\* Xcp_MtaFlushDioPort: the port of the address reached gets the buffer.
FlushPort(s) == [store |-> [s.store EXCEPT !.port[Port(s.mta)] = s.mta.buffer % 256^PortSize],
                 mta |-> [s.mta EXCEPT !.buffer = 0]]

\* Xcp_MtaPutDioPort: eight bits of the buffer are replaced, from the one on
\* that has the offset's number; after the first byte of a port it is flushed.
PutPort(s, val) ==
  LET low == 2^Offset(s.mta)
      mask == low * 256
      b == s.mta.buffer
      t == [s EXCEPT !.mta.buffer = ((b \div mask) * mask) + (val * low) + (b % low), !.mta.addr = @ + 1]
  IN IF Offset(s.mta) = 0 THEN FlushPort(t) ELSE t

\* Xcp_MtaPutMemory, Xcp_MtaPutDioChan: a channel is high only for a 1.
Put(s, val) ==
  CASE s.mta.ext = "DIO_PORT" -> PutPort(s, val)
    [] s.mta.ext = "DIO_CHAN" -> [store |-> [s.store EXCEPT !.chan[s.mta.addr] = IF val = 1 THEN 1 ELSE 0],
                                  mta |-> [s.mta EXCEPT !.addr = @ + 1]]
    [] OTHER -> [store |-> [s.store EXCEPT !.mem[s.mta.addr] = val],
                 mta |-> [s.mta EXCEPT !.addr = @ + 1]]

\* Xcp_MtaWrite and Xcp_MtaFlush: the store after the bytes were written.
Write(store, mta, data) ==
  LET steps[i \in 0..Len(data)] == IF i = 0 THEN [store |-> store, mta |-> mta] ELSE Put(steps[i - 1], data[i])
      last == steps[Len(data)]
  IN IF mta.ext = "DIO_PORT" THEN FlushPort(last).store ELSE last.store
================================================================================
