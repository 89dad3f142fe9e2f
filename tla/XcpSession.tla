----------------------------- MODULE XcpSession -----------------------------
(***************************************************************************)
(* Sessions and Seed & Key (Xcp.c): CONNECT, DISCONNECT, SYNCH, GET_STATUS,*)
(* GET_SEED and UNLOCK, against a master that reaches the slave over two   *)
(* ordered channels on which frames are lost and answers come late.  Seed  *)
(* and key are longer than a frame, so both sides keep count of the bytes  *)
(* that remain, across lost answers, retries and sessions that end midway. *)
(*                                                                         *)
(* The slave is translated from the code.  The master is external: it asks *)
(* for a resource, collects the seed, sends it back as the key (the        *)
(* example of README.txt), and resynchronises with SYNCH after a timeout.  *)
(***************************************************************************)
EXTENDS Integers, Sequences, FiniteSets, Functions

CONSTANTS Resources,  \* what can be locked: XCP_PROTECT_CALPAG, _DAQ, ...
          None,       \* XCP_PROTECT_NONE
          Protected,  \* XcpProtect of the configuration
          Goal,       \* the resources the master wants to use
          SeedLens,   \* the lengths XcpSeedFn may return
          SeedValues, \* tells the seeds XcpSeedFn returns apart
          Chunk,      \* XCP_MAX_CTO - 2: seed or key bytes of one frame
          MaxFaults   \* bound: losses, early timeouts, changes of mind

ASSUME SessionAssumption ==
  /\ IsFiniteSet(Resources) /\ None \notin Resources
  /\ Protected \subseteq Resources /\ Goal \subseteq Protected
  /\ SeedLens \subseteq Nat \ {0} /\ IsFiniteSet(SeedLens) /\ SeedLens # {}
  /\ SeedValues # {}
  /\ Chunk \in Nat \ {0}
  /\ MaxFaults \in Nat

VARIABLES
  connected,  \* Xcp_Connected
  protect,    \* Xcp_Config.XcpProtect
  unlock,     \* Xcp_Unlock
  toSlave,    \* the commands on their way
  toMaster,   \* the answers and events on their way
  master,     \* what the master knows and waits for
  faults      \* how much has gone wrong so far

slave == <<connected, protect, unlock>>
vars == <<slave, toSlave, toMaster, master, faults>>

Pad == <<None, 0, 0>>
Least(i, j) == IF i <= j THEN i ELSE j
KeyMax == CHOOSE n \in SeedLens : \A k \in SeedLens : k <= n

\* XcpSeedFn, and XcpUnlockFn as in README.txt: the key is the seed.
Seed(res, v, n) == [i \in 1..n |-> <<res, v, i>>]
Opens(u) == u.key_len = Len(u.seed) /\ \A i \in 1..u.key_len : u.key[i] = u.seed[i]

NoUnlock == [res |-> None, seed |-> <<>>, seed_rem |-> 0,
             key |-> [i \in 1..KeyMax |-> Pad], key_len |-> 0, key_rem |-> 0]

\* The master between two exchanges.
Idle == [on |-> FALSE, open |-> {}, want |-> None, total |-> 0, asm |-> <<>>,
         sent |-> 0, wait |-> "none", sync |-> FALSE]

Init == /\ connected = FALSE /\ protect = Protected /\ unlock = NoUnlock
        /\ toSlave = <<>> /\ toMaster = <<>>
        /\ master = Idle /\ faults = 0

Fault == faults < MaxFaults /\ faults' = faults + 1

-----------------------------------------------------------------------------
(* The slave: one command each time, answered if a buffer is free          *)

Command == Head(toSlave)

Handle(cmd) == /\ toSlave # <<>> /\ Command.cmd = cmd
               /\ connected \/ cmd = "CONNECT"
               /\ toSlave' = Tail(toSlave)
               /\ UNCHANGED master

Queued(e) == toMaster' = Append(toMaster, e) /\ UNCHANGED faults
Unqueued == Fault /\ UNCHANGED toMaster
Answer(e) == Queued(e) \/ Unqueued

\* Xcp_Recieve_Main: before a connection everything else is ignored.
Ignore == /\ toSlave # <<>> /\ ~connected /\ Command.cmd # "CONNECT"
          /\ toSlave' = Tail(toSlave)
          /\ UNCHANGED <<slave, toMaster, master, faults>>

\* Xcp_CmdConnect: the protection is restored if Xcp_Connected is 0, which
\* it no longer is.
Connect == /\ Handle("CONNECT")
           /\ connected' = TRUE
           /\ protect' = IF connected' THEN protect ELSE Protected
           /\ Answer([kind |-> "CONNECTED"])
           /\ UNCHANGED unlock

Disconnect == /\ Handle("DISCONNECT")
              /\ connected' = FALSE
              /\ Answer([kind |-> "RES"])
              /\ UNCHANGED <<protect, unlock>>

Synch == /\ Handle("SYNCH")
         /\ Answer([kind |-> "ERR_SYNCH"])
         /\ UNCHANGED slave

GetStatus == /\ Handle("GET_STATUS")
             /\ Answer([kind |-> "STATUS", protect |-> protect])
             /\ UNCHANGED slave

\* Xcp_Disconnect: the application ends the session.
Terminate == /\ connected /\ Fault
             /\ connected' = FALSE
             /\ toMaster' = Append(toMaster, [kind |-> "EV"])
             /\ UNCHANGED <<protect, unlock, toSlave, master>>

\* The next part of the seed. Without a buffer the part is not taken.
SendSeed(u) ==
  LET rem  == Least(u.seed_rem, Chunk)
      from == Len(u.seed) - u.seed_rem
      part == SubSeq(u.seed, from + 1, from + rem)
  IN \/ /\ Queued([kind |-> "SEED", rem |-> u.seed_rem, data |-> part])
        /\ unlock' = [u EXCEPT !.seed_rem = @ - rem]
     \/ Unqueued /\ unlock' = u

\* Fault: the key of the exchange before is not reset.
GetSeedKeepsKey ==
  /\ Handle("GET_SEED") /\ Command.mode = 0
  /\ \E n \in SeedLens, v \in SeedValues :
       SendSeed([unlock EXCEPT !.res = Command.res, !.seed = Seed(Command.res, v, n),
                               !.seed_rem = n])
  /\ UNCHANGED <<connected, protect>>

\* Xcp_CmdGetSeed, mode 0: a new seed, and no key bytes yet.
GetSeed ==
  /\ Handle("GET_SEED") /\ Command.mode = 0
  /\ \E n \in SeedLens, v \in SeedValues :
       SendSeed([unlock EXCEPT !.res = Command.res, !.seed = Seed(Command.res, v, n),
                               !.seed_rem = n, !.key_len = 0, !.key_rem = 0])
  /\ UNCHANGED <<connected, protect>>

\* Xcp_CmdGetSeed, mode 1: the rest of it.
GetSeedRest ==
  /\ Handle("GET_SEED") /\ Command.mode = 1
  /\ IF unlock.res = None
     THEN Answer([kind |-> "ERR_SEQUENCE", rem |-> 0]) /\ UNCHANGED unlock
     ELSE SendSeed(unlock)
  /\ UNCHANGED <<connected, protect>>

\* The first UNLOCK after a seed says how long the key is.
Started(rem) == IF unlock.key_len = 0
                THEN [unlock EXCEPT !.key_len = rem, !.key_rem = rem]
                ELSE unlock

\* The bytes of a command behind those that came before.
Filled(u, n) == [i \in 1..KeyMax |->
                   LET k == i - (u.key_len - u.key_rem)
                   IN IF k \in 1..n THEN Command.key[k] ELSE u.key[i]]

\* Fault: a command out of sequence is taken as the next part.
UnlockUnchecked ==
  /\ Handle("UNLOCK") /\ unlock.res # None
  /\ LET u == Started(Command.rem)
         n == Least(u.key_rem, Len(Command.key))
         w == [u EXCEPT !.key = Filled(u, n), !.key_rem = @ - n]
     IN /\ unlock' = w
        /\ IF w.key_rem = 0 /\ Opens(w)
           THEN protect' = protect \ {w.res} /\ Answer([kind |-> "RES"])
           ELSE /\ UNCHANGED protect
                /\ Answer([kind |-> IF w.key_rem = 0 THEN "ERR_ACCESS_LOCKED" ELSE "RES"])
  /\ UNCHANGED connected

\* Fault: every byte of the frame counts as a part of the key.
UnlockPadded ==
  /\ Handle("UNLOCK") /\ unlock.res # None
  /\ LET u == Started(Command.rem)
         n == Len(Command.key)
     IN IF u.key_rem # Command.rem
        THEN UNCHANGED unlock /\ Answer([kind |-> "ERR_SEQUENCE", rem |-> u.key_rem])
        ELSE /\ unlock' = [u EXCEPT !.key = Filled(u, n), !.key_rem = @ - n]
             /\ Answer([kind |-> "RES"])
  /\ UNCHANGED <<connected, protect>>

\* Fault: the resource is not taken out of XcpProtect.
UnlockForgets ==
  /\ Handle("UNLOCK") /\ unlock.res # None
  /\ LET u == Started(Command.rem)
         n == Least(Command.rem, Len(Command.key))
     IN IF u.key_rem # Command.rem
        THEN UNCHANGED unlock /\ Answer([kind |-> "ERR_SEQUENCE", rem |-> u.key_rem])
        ELSE /\ unlock' = [u EXCEPT !.key = Filled(u, n), !.key_rem = @ - n]
             /\ Answer([kind |-> "RES"])
  /\ UNCHANGED <<connected, protect>>

\* Xcp_CmdUnlock: a part of the key, checked when it is the last one.
Unlock ==
  /\ Handle("UNLOCK") /\ unlock.res # None
  /\ LET u == Started(Command.rem)
         n == Least(Command.rem, Len(Command.key))
         w == [u EXCEPT !.key = Filled(u, n), !.key_rem = @ - n]
     IN IF u.key_rem # Command.rem
        THEN /\ Answer([kind |-> "ERR_SEQUENCE", rem |-> u.key_rem])
             /\ UNCHANGED <<protect, unlock>>
        ELSE /\ unlock' = w
             /\ IF w.key_rem = 0 /\ Opens(w)
                THEN protect' = protect \ {w.res} /\ Answer([kind |-> "RES"])
                ELSE /\ UNCHANGED protect
                     /\ Answer([kind |-> IF w.key_rem = 0 THEN "ERR_ACCESS_LOCKED" ELSE "RES"])
  /\ UNCHANGED connected

UnlockEarly == /\ Handle("UNLOCK") /\ unlock.res = None
               /\ Answer([kind |-> "ERR_SEQUENCE", rem |-> 0])
               /\ UNCHANGED slave

Slave == \/ Ignore \/ Connect \/ Disconnect \/ Synch \/ GetStatus
         \/ GetSeed \/ GetSeedRest \/ Unlock \/ UnlockEarly

-----------------------------------------------------------------------------
(* The master: one command at a time                                       *)

Send(cmd, m) == /\ master.wait = "none"
                /\ toSlave' = Append(toSlave, cmd)
                /\ master' = m
                /\ UNCHANGED <<slave, toMaster>>

AskConnect == /\ ~master.on
              /\ Send([cmd |-> "CONNECT"], [master EXCEPT !.wait = "connect"])
              /\ UNCHANGED faults

\* The first part of a seed; giving up another exchange counts as a fault.
AskSeed(r) ==
  /\ master.on /\ r \notin master.open
  /\ \/ /\ master.want = None \/ (master.want = r /\ master.total = 0)
        /\ UNCHANGED faults
     \/ master.want \notin {None, r} /\ Fault
  /\ Send([cmd |-> "GET_SEED", mode |-> 0, res |-> r],
          [master EXCEPT !.want = r, !.total = 0, !.asm = <<>>, !.sent = 0, !.wait = "seed"])

AskRest == /\ Len(master.asm) < master.total
           /\ Send([cmd |-> "GET_SEED", mode |-> 1], [master EXCEPT !.wait = "rest"])
           /\ UNCHANGED faults

\* A part of the key, in a frame that may be filled up to its full size.
SendKey ==
  /\ master.total > 0 /\ Len(master.asm) = master.total /\ master.sent < master.total
  /\ LET n == Least(Chunk, master.total - master.sent)
     IN \E size \in {n, Chunk} :
          Send([cmd |-> "UNLOCK", rem |-> master.total - master.sent,
                key |-> [i \in 1..size |-> IF i <= n THEN master.asm[master.sent + i] ELSE Pad]],
               [master EXCEPT !.wait = "key"])
  /\ UNCHANGED faults

AskStatus == /\ master.total > 0 /\ master.sent = master.total
             /\ Send([cmd |-> "GET_STATUS"], [master EXCEPT !.wait = "status"])
             /\ UNCHANGED faults

AskDisconnect == /\ master.on /\ Fault
                 /\ Send([cmd |-> "DISCONNECT"], [master EXCEPT !.wait = "bye"])

\* A command that belongs to no exchange.
Stray == /\ master.on /\ master.want = None /\ Fault
         /\ \E c \in {[cmd |-> "GET_SEED", mode |-> 1]} \cup
                     [cmd : {"UNLOCK"}, rem : 0..KeyMax, key : {<<Pad>>}] :
              Send(c, [master EXCEPT !.wait = "stray"])

\* The answer that is waited for, or none.
Done(m) == [m EXCEPT !.wait = "none"]
Restart(m) == [m EXCEPT !.wait = "none", !.want = None, !.total = 0, !.asm = <<>>, !.sent = 0]
Opened(m) == [Restart(m) EXCEPT !.open = @ \cup {m.want}]

Learn(m, e) ==
  CASE e.kind = "EV" /\ m.wait # "connect" -> Idle
    [] m.sync /\ e.kind # "EV" -> IF e.kind = "ERR_SYNCH" THEN [Done(m) EXCEPT !.sync = FALSE] ELSE m
    [] ~m.sync /\ m.wait = "connect" /\ e.kind = "CONNECTED" -> [Idle EXCEPT !.on = TRUE]
    [] ~m.sync /\ m.wait = "seed" /\ e.kind = "SEED" ->
         [Done(m) EXCEPT !.total = e.rem, !.asm = e.data]
    [] ~m.sync /\ m.wait = "rest" /\ e.kind = "SEED" ->
         IF e.rem = m.total - Len(m.asm) THEN [Done(m) EXCEPT !.asm = @ \o e.data] ELSE Restart(m)
    [] ~m.sync /\ m.wait = "key" /\ e.kind = "RES" ->
         IF m.total - m.sent <= Chunk THEN Opened(m) ELSE [Done(m) EXCEPT !.sent = @ + Chunk]
    [] ~m.sync /\ m.wait = "key" /\ e.kind = "ERR_SEQUENCE" ->
         IF e.rem <= m.total THEN [Done(m) EXCEPT !.sent = m.total - e.rem] ELSE Restart(m)
    [] ~m.sync /\ m.wait = "key" /\ e.kind = "ERR_ACCESS_LOCKED" -> Restart(m)
    [] ~m.sync /\ m.wait = "status" /\ e.kind = "STATUS" ->
         IF m.want \in e.protect THEN Restart(m) ELSE Opened(m)
    [] ~m.sync /\ m.wait = "bye" /\ e.kind = "RES" -> Idle
    [] ~m.sync /\ m.wait = "stray" /\ e.kind # "EV" -> Done(m)
    [] OTHER -> m

Hear == /\ toMaster # <<>>
        /\ toMaster' = Tail(toMaster)
        /\ master' = Learn(master, Head(toMaster))
        /\ UNCHANGED <<slave, toSlave, faults>>

\* No answer: SYNCH, and if that is not answered either a new session. The
\* answer may still be on its way, and will come too late; for CONNECT and
\* SYNCH themselves the master is patient.
Timeout ==
  /\ master.wait # "none"
  /\ IF toSlave = <<>> /\ toMaster = <<>> THEN UNCHANGED faults
     ELSE master.wait # "connect" /\ ~master.sync /\ Fault
  /\ IF master.wait = "connect" \/ master.sync
     THEN master' = Idle /\ UNCHANGED toSlave
     ELSE /\ master' = [master EXCEPT !.sync = TRUE]
          /\ toSlave' = Append(toSlave, [cmd |-> "SYNCH"])
  /\ UNCHANGED <<slave, toMaster>>

\* No buffer for a command (Xcp_RxIndication), or an answer lost on the way.
Lose == /\ Fault
        /\ \/ toSlave # <<>> /\ toSlave' = Tail(toSlave) /\ UNCHANGED toMaster
           \/ toMaster # <<>> /\ toMaster' = Tail(toMaster) /\ UNCHANGED toSlave
        /\ UNCHANGED <<slave, master>>

Ask == \/ AskConnect \/ (\E r \in Goal : AskSeed(r)) \/ AskRest
       \/ SendKey \/ AskStatus

Next == \/ Slave \/ Terminate
        \/ Ask \/ AskDisconnect \/ Stray \/ Hear \/ Timeout \/ Lose

Spec == Init /\ [][Next]_vars

\* Xcp_MainFunction is called again and again; the master does not give up.
LiveSpec == Spec /\ WF_vars(Slave) /\ WF_vars(Ask) /\ WF_vars(Hear) /\ WF_vars(Timeout)

-----------------------------------------------------------------------------
(* Properties                                                              *)

\* The values of Xcp_Unlock, and what remains is never more than the whole.
TypeOK ==
  /\ connected \in BOOLEAN /\ protect \subseteq Protected
  /\ unlock.res \in Resources \cup {None}
  /\ unlock.seed_rem \in 0..Len(unlock.seed)
  /\ unlock.key_rem \in 0..unlock.key_len /\ unlock.key_len \in 0..KeyMax
  /\ DOMAIN unlock.key = 1..KeyMax
  /\ faults \in 0..MaxFaults

\* The last part of a key is handled.
Completes == /\ toSlave # <<>> /\ toSlave' = Tail(toSlave)
             /\ Command.cmd = "UNLOCK" /\ Command.key[1] # Pad
             /\ unlock' # unlock /\ unlock'.key_rem = 0

\* The parts of a key add up to the key the master computed, whatever was
\* lost, repeated or left over from an earlier exchange: a right key opens.
KeysArriveWhole == [][Completes => unlock.res \notin protect']_vars

\* What the master believes to be open is open.
BeliefTrue == master.open \cap protect = {}

\* The resources the master needs are opened in the end, although frames are
\* lost and sessions ended.
GoalReached == <>[](Goal \subseteq master.open)

\* An unlocked resource is unlocked "during this session" (README.txt): the
\* next session starts with the configured protection ("restore varius state
\* on a new connections").
SessionLocks == [][~connected /\ connected' => protect' = Protected]_vars
=============================================================================
