--------------------------- MODULE XcpSessionProofs ---------------------------
(***************************************************************************)
(* Proofs about XcpSession, for every set of resources, every length of    *)
(* seeds and frames, and however many frames are lost or late.             *)
(*                                                                         *)
(* The argument is about what is under way.  While the master waits for an *)
(* answer, what is on its way is that command or its answer and nothing    *)
(* older; while it resynchronises or connects, whatever is older is in     *)
(* front of the one answer that ends it.  So every part of a seed or key   *)
(* that is taken belongs to the exchange the master is in.                 *)
(***************************************************************************)
EXTENDS XcpSession, QueueLemmas, FiniteSetTheorems

-----------------------------------------------------------------------------
(* What travels                                                            *)

Bytes == (Resources \cup {None}) \X (SeedValues \cup {0}) \X Nat

Commands ==
  [cmd : {"CONNECT", "DISCONNECT", "SYNCH", "GET_STATUS"}]
  \cup [cmd : {"GET_SEED"}, mode : {0}, res : Resources] \cup [cmd : {"GET_SEED"}, mode : {1}]
  \cup [cmd : {"UNLOCK"}, rem : 0..KeyMax, key : Seq(Bytes) \ {<<>>}]

Answers ==
  [kind : {"CONNECTED", "RES", "ERR_SYNCH", "EV", "ERR_ACCESS_LOCKED"}]
  \cup [kind : {"STATUS"}, protect : SUBSET Protected]
  \cup [kind : {"SEED"}, rem : 0..KeyMax, data : Seq(Bytes)]
  \cup [kind : {"ERR_SEQUENCE"}, rem : 0..KeyMax]

Waits == {"none", "connect", "seed", "rest", "key", "status", "bye", "stray"}

Masters == [on : BOOLEAN, open : SUBSET Resources, want : Resources \cup {None},
            total : 0..KeyMax, asm : Seq(Bytes), sent : Nat, wait : Waits, sync : BOOLEAN]

UnlockType(u) ==
  /\ u \in [res : Resources \cup {None}, seed : Seq(Bytes), seed_rem : Nat,
            key : [1..KeyMax -> Bytes], key_len : 0..KeyMax, key_rem : Nat]
  /\ Len(u.seed) <= KeyMax /\ u.seed_rem <= Len(u.seed) /\ u.key_rem <= u.key_len

Typed ==
  /\ connected \in BOOLEAN /\ protect \in SUBSET Protected
  /\ UnlockType(unlock)
  /\ IsSequence(toSlave) /\ \A i \in DOMAIN toSlave : toSlave[i] \in Commands
  /\ IsSequence(toMaster) /\ \A i \in DOMAIN toMaster : toMaster[i] \in Answers
  /\ master \in Masters
  /\ faults \in 0..MaxFaults

\* What the master has to be in to wait for what it waits for.
Waiting ==
  /\ ~master.on => /\ master.want = None /\ master.total = 0 /\ master.open = {} /\ ~master.sync
                   /\ master.wait \in {"none", "connect"}
  /\ master.wait = "connect" => ~master.on
  /\ master.wait = "none" => ~master.sync
  /\ Len(master.asm) <= master.total /\ master.sent <= master.total
  /\ master.total > 0 => master.want # None
  /\ master.wait = "seed" => master.total = 0 /\ master.want # None
  /\ master.wait = "rest" => Len(master.asm) < master.total
  /\ master.wait = "key" => Len(master.asm) = master.total /\ master.sent < master.total
  /\ master.wait = "status" => master.total > 0
  /\ master.wait = "stray" => master.want = None

-----------------------------------------------------------------------------
(* What is under way                                                       *)

OnlyEvents == \A i \in DOMAIN toMaster : toMaster[i].kind = "EV"

\* The command that is waited for, and what answers it.
Asked(wait, cmd) ==
  \/ (wait \in {"seed", "rest"} /\ cmd = "GET_SEED")
  \/ (wait = "key" /\ cmd = "UNLOCK")
  \/ (wait = "status" /\ cmd = "GET_STATUS")
  \/ (wait = "bye" /\ cmd = "DISCONNECT")
  \/ (wait = "stray" /\ cmd \in {"GET_SEED", "UNLOCK"})

\* The command or the answer that ends a wait is the last one under way.
Last(cmd, kind) ==
  /\ \A i \in DOMAIN toSlave : toSlave[i].cmd = cmd =>
       i = Len(toSlave) /\ \A j \in DOMAIN toMaster : toMaster[j].kind # kind
  /\ \A i \in DOMAIN toMaster : toMaster[i].kind = kind =>
       toSlave = <<>> /\ \A j \in DOMAIN toMaster : j > i => toMaster[j].kind = "EV"

Exchange == master.wait \notin {"none", "connect"} /\ ~master.sync

Pipe ==
  /\ \A i \in DOMAIN toSlave : i > 1 => toSlave[i].cmd \in {"SYNCH", "CONNECT"}
  /\ master.wait = "none" /\ master.on => toSlave = <<>> /\ OnlyEvents
  /\ Exchange =>
       /\ \A i \in DOMAIN toSlave : i = 1 /\ Asked(master.wait, toSlave[i].cmd) /\ OnlyEvents
       /\ \A i, j \in DOMAIN toMaster : toMaster[i].kind # "EV" /\ toMaster[j].kind # "EV" => i = j
       /\ \A i \in DOMAIN toMaster : toMaster[i].kind # "ERR_SYNCH"
  /\ master.sync => Last("SYNCH", "ERR_SYNCH")
  /\ master.wait = "connect" => Last("CONNECT", "CONNECTED")
  /\ master.wait # "connect" => /\ \A i \in DOMAIN toSlave : toSlave[i].cmd # "CONNECT"
                                /\ \A i \in DOMAIN toMaster : toMaster[i].kind # "CONNECTED"

-----------------------------------------------------------------------------
(* Seeds and keys                                                          *)

\* The key so far is the beginning of the seed.
KeyGood(u) == /\ u.key_len \in {0, Len(u.seed)}
              /\ \A i \in 1..u.key_len - u.key_rem : u.key[i] = u.seed[i]

\* A command brings the part of the seed that it says.
Right(c, u) == /\ c.rem \in 1..Len(u.seed)
               /\ \A i \in 1..Len(c.key) : i <= c.rem => c.key[i] = u.seed[Len(u.seed) - c.rem + i]
               /\ u.key_len = 0 => c.rem = Len(u.seed)

\* So does an answer.
Part(e, seed) == /\ e.rem <= Len(seed) /\ Len(e.data) <= e.rem
                 /\ \A i \in 1..Len(e.data) : e.data[i] = seed[Len(seed) - e.rem + i]

Seeds ==
  /\ master.total > 0 =>
       /\ unlock.res = master.want /\ master.total = Len(unlock.seed) /\ KeyGood(unlock)
       /\ \A i \in 1..Len(master.asm) : master.asm[i] = unlock.seed[i]
       /\ unlock.key_len = 0 => master.sent = 0
  /\ \A i \in DOMAIN toSlave : toSlave[i].cmd = "GET_SEED" /\ toSlave[i].mode = 0 =>
       /\ master.total = 0
       /\ master.wait = "seed" /\ ~master.sync => toSlave[i].res = master.want
  /\ \A i \in DOMAIN toSlave : toSlave[i].cmd = "GET_SEED" =>
       (master.wait = "seed" /\ ~master.sync => toSlave[i].mode = 0)
  /\ ~master.sync => \A i \in DOMAIN toMaster : toMaster[i].kind = "SEED" =>
       /\ master.wait \in {"seed", "rest"} => Part(toMaster[i], unlock.seed)
       /\ master.wait = "seed" => /\ unlock.res = master.want /\ toMaster[i].rem = Len(unlock.seed)
                                  /\ Len(unlock.seed) > 0 /\ unlock.key_len = 0 /\ unlock.key_rem = 0

Keys ==
  /\ \A i \in DOMAIN toSlave : toSlave[i].cmd = "UNLOCK" =>
       /\ \/ Right(toSlave[i], unlock) /\ KeyGood(unlock)
          \/ toSlave[i].key = <<Pad>> /\ master.total = 0
       /\ master.wait = "key" /\ ~master.sync =>
            toSlave[i].rem = master.total - master.sent
            /\ Len(toSlave[i].key) >= Least(Chunk, toSlave[i].rem)
  /\ master.wait = "key" /\ ~master.sync => \A i \in DOMAIN toMaster :
       /\ toMaster[i].kind \in {"RES", "ERR_SEQUENCE"} => unlock.key_len # 0
       /\ toMaster[i].kind = "RES" /\ master.total - master.sent <= Chunk => master.want \notin protect

Statuses == \A i \in DOMAIN toMaster : toMaster[i].kind = "STATUS" => protect \subseteq toMaster[i].protect

IInv == Typed /\ Waiting /\ Pipe /\ Seeds /\ Keys /\ Statuses /\ BeliefTrue

-----------------------------------------------------------------------------
(* Lengths, and what the queues hold                                       *)

LEMMA KeyMaxType == KeyMax \in SeedLens /\ KeyMax \in Nat \ {0} /\ \A k \in SeedLens : k <= KeyMax
<1>1. SeedLens \in SUBSET Nat /\ SeedLens # {} /\ IsFiniteSet(SeedLens) /\ 0 \notin SeedLens
  BY SessionAssumption
<1>2. \E n \in SeedLens : \A k \in SeedLens : k <= n
  BY <1>1, GreatestNumber
<1>3. KeyMax \in SeedLens /\ \A k \in SeedLens : k <= KeyMax
  BY <1>2, Zenon DEF KeyMax
<1>. QED  BY <1>1, <1>3

LEMMA LeastType ==
  ASSUME NEW i \in Nat, NEW j \in Nat
  PROVE  /\ Least(i, j) \in Nat /\ Least(i, j) <= i /\ Least(i, j) <= j
         /\ Least(i, j) = i \/ Least(i, j) = j
BY DEF Least

\* Only events go before the answer to what the master waits for.
LEMMA AskedFor ==
  ASSUME IInv, toSlave # <<>>
  PROVE  /\ 1 \in DOMAIN toSlave /\ Command = toSlave[1] /\ Command \in Commands
         /\ Exchange => /\ Asked(master.wait, Command.cmd) /\ OnlyEvents /\ Len(toSlave) = 1
         /\ master.wait = "none" => ~master.on
<1>1. Typed /\ Pipe /\ IsSequence(toSlave)
  BY DEF IInv, Typed
<1>2. 1 \in DOMAIN toSlave /\ Command = toSlave[1] /\ Len(toSlave) \in Nat \ {0} /\ DOMAIN toSlave = 1..Len(toSlave)
  BY <1>1, Popped DEF Command
<1>3. Exchange => Asked(master.wait, Command.cmd) /\ OnlyEvents /\ \A i \in DOMAIN toSlave : i = 1
  BY <1>1, <1>2 DEF Pipe
<1>4. (\A i \in DOMAIN toSlave : i = 1) => Len(toSlave) = 1
  BY <1>2
<1>. QED  BY <1>1, <1>2, <1>3, <1>4 DEF Pipe, Typed

\* A command is taken, and its answer queued, lost, or there is none.
Took == toSlave # <<>> /\ toSlave' = Tail(toSlave)
Told(e) == toMaster' = toMaster \/ toMaster' = Append(toMaster, e)

LEMMA TookQueue ==
  ASSUME IInv, Took
  PROVE  /\ IsSequence(toSlave') /\ Len(toSlave) \in Nat \ {0} /\ Len(toSlave') = Len(toSlave) - 1
         /\ \A i \in DOMAIN toSlave' : i + 1 \in DOMAIN toSlave /\ toSlave'[i] = toSlave[i + 1] /\ i \in Nat \ {0}
         /\ \A i \in DOMAIN toSlave' : toSlave'[i].cmd \in {"SYNCH", "CONNECT"} /\ toSlave'[i] \in Commands
<1>1. IsSequence(toSlave) /\ Pipe /\ \A i \in DOMAIN toSlave : toSlave[i] \in Commands
  BY DEF IInv, Typed
<1>2. /\ IsSequence(toSlave') /\ Len(toSlave) \in Nat \ {0} /\ Len(toSlave') = Len(toSlave) - 1
      /\ DOMAIN toSlave' = 1..Len(toSlave) - 1
      /\ \A i \in DOMAIN toSlave' : i + 1 \in DOMAIN toSlave /\ toSlave'[i] = toSlave[i + 1]
  BY <1>1, Popped DEF Took
<1>3. \A i \in DOMAIN toSlave' : i \in Nat \ {0} /\ i + 1 > 1
  BY <1>2
<1>. QED  BY <1>1, <1>2, <1>3 DEF Pipe

LEMMA ToldQueue ==
  ASSUME IInv, NEW e \in Answers, Told(e)
  PROVE  /\ IsSequence(toMaster') /\ Len(toMaster) \in Nat /\ DOMAIN toMaster = 1..Len(toMaster)
         /\ \A i \in DOMAIN toMaster' : i \in Nat /\ i <= Len(toMaster) + 1 /\ toMaster'[i] \in Answers
         /\ \A i \in DOMAIN toMaster' : \/ i \in DOMAIN toMaster /\ toMaster'[i] = toMaster[i]
                                        \/ i = Len(toMaster) + 1 /\ i \notin DOMAIN toMaster /\ toMaster'[i] = e
<1>1. IsSequence(toMaster) /\ \A i \in DOMAIN toMaster : toMaster[i] \in Answers
  BY DEF IInv, Typed
<1>2. Len(toMaster) \in Nat /\ DOMAIN toMaster = 1..Len(toMaster)
  BY <1>1, Nonempty
<1>3. CASE toMaster' = toMaster
  BY <1>1, <1>2, <1>3
<1>4. CASE toMaster' = Append(toMaster, e)
  <2>1. /\ IsSequence(toMaster') /\ DOMAIN toMaster' = 1..Len(toMaster) + 1
        /\ \A i \in DOMAIN toMaster : toMaster'[i] = toMaster[i]
        /\ toMaster'[Len(toMaster) + 1] = e
    BY <1>1, <1>4, Pushed
  <2>2. \A i \in DOMAIN toMaster' : i \in DOMAIN toMaster \/ (i = Len(toMaster) + 1 /\ i \notin DOMAIN toMaster)
    BY <1>2, <2>1
  <2>3. \A i \in DOMAIN toMaster' : i \in Nat /\ i <= Len(toMaster) + 1
    BY <1>2, <2>1
  <2>. QED  BY <1>1, <1>2, <2>1, <2>2, <2>3
<1>. QED  BY <1>3, <1>4 DEF Told

\* The end of a wait stays the last under way.
LEMMA LastKept ==
  ASSUME IInv, Took, NEW e \in Answers, Told(e), NEW cmd, NEW kind, Last(cmd, kind),
         kind # "EV", e.kind = kind => Command.cmd = cmd
  PROVE  Last(cmd, kind)'
<1>1. /\ IsSequence(toSlave') /\ Len(toSlave) \in Nat \ {0} /\ Len(toSlave') = Len(toSlave) - 1
      /\ \A i \in DOMAIN toSlave' : i + 1 \in DOMAIN toSlave /\ toSlave'[i] = toSlave[i + 1] /\ i \in Nat \ {0}
      /\ toSlave # <<>> /\ 1 \in DOMAIN toSlave /\ Command = toSlave[1]
  BY TookQueue, AskedFor DEF Took
<1>2. /\ Len(toMaster) \in Nat /\ DOMAIN toMaster = 1..Len(toMaster)
      /\ \A i \in DOMAIN toMaster' : i \in Nat /\ i <= Len(toMaster) + 1
      /\ \A i \in DOMAIN toMaster' : \/ i \in DOMAIN toMaster /\ toMaster'[i] = toMaster[i]
                                     \/ i = Len(toMaster) + 1 /\ i \notin DOMAIN toMaster /\ toMaster'[i] = e
  BY ToldQueue
<1>3. \A i \in DOMAIN toMaster : toMaster[i].kind # kind
  BY <1>1 DEF Last
<1>4. Command.cmd = cmd => toSlave' = <<>> /\ DOMAIN toSlave' = {}
  <2>1. Command.cmd = cmd => Len(toSlave') = 0
    BY <1>1 DEF Last
  <2>. QED  BY <1>1, <2>1, Nonempty
<1>5. ASSUME NEW i \in DOMAIN toSlave', toSlave'[i].cmd = cmd
      PROVE  i = Len(toSlave') /\ \A j \in DOMAIN toMaster' : toMaster'[j].kind # kind
  <2>1. i + 1 = Len(toSlave)
    BY <1>1, <1>5 DEF Last
  <2>2. Command.cmd # cmd
    BY <1>4, <1>5
  <2>. QED  BY <1>1, <1>2, <1>3, <2>1, <2>2
<1>6. ASSUME NEW i \in DOMAIN toMaster', toMaster'[i].kind = kind
      PROVE  toSlave' = <<>> /\ \A j \in DOMAIN toMaster' : j > i => toMaster'[j].kind = "EV"
  <2>1. toMaster'[i] = e /\ i = Len(toMaster) + 1
    BY <1>2, <1>3, <1>6
  <2>2. toSlave' = <<>>
    BY <1>4, <1>6, <2>1
  <2>. QED  BY <1>2, <2>1, <2>2
<1>. QED  BY <1>5, <1>6 DEF Last

\* So taking a command leaves nothing older behind its answer.
LEMMA TookPipe ==
  ASSUME IInv, Took, UNCHANGED master, NEW e \in Answers, Told(e), e.kind # "EV",
         e.kind = "ERR_SYNCH" => Command.cmd = "SYNCH",
         e.kind = "CONNECTED" => Command.cmd = "CONNECT"
  PROVE  Waiting' /\ Pipe'
<1>1. Waiting /\ Pipe /\ toSlave # <<>>
  BY DEF IInv, Took
<1>2. \A i \in DOMAIN toSlave' : toSlave'[i].cmd \in {"SYNCH", "CONNECT"} /\ i + 1 \in DOMAIN toSlave
                                 /\ toSlave'[i] = toSlave[i + 1] /\ i \in Nat \ {0}
  BY TookQueue
<1>3. \A i \in DOMAIN toMaster' : \/ i \in DOMAIN toMaster /\ toMaster'[i] = toMaster[i]
                                  \/ i = Len(toMaster) + 1 /\ i \notin DOMAIN toMaster /\ toMaster'[i] = e
  BY ToldQueue
<1>4. Waiting'
  BY <1>1 DEF Waiting
<1>5. master.wait = "none" => ~master.on
  BY <1>1, AskedFor
<1>6. ASSUME Exchange
      PROVE  /\ \A i \in DOMAIN toSlave' : FALSE
             /\ \A i, j \in DOMAIN toMaster' : toMaster'[i].kind # "EV" /\ toMaster'[j].kind # "EV" => i = j
             /\ \A i \in DOMAIN toMaster' : toMaster'[i].kind # "ERR_SYNCH"
  <2>1. Asked(master.wait, Command.cmd) /\ OnlyEvents /\ Len(toSlave) = 1
    BY <1>1, <1>6, AskedFor
  <2>2. \A i \in DOMAIN toSlave' : FALSE
    <3>1. IsSequence(toSlave') /\ Len(toSlave') = 0
      BY <2>1, TookQueue
    <3>. QED  BY <3>1, Nonempty
  <2>3. e.kind # "ERR_SYNCH"
    BY <2>1 DEF Asked
  <2>. QED  BY <1>3, <2>1, <2>2, <2>3 DEF OnlyEvents
<1>7. master.sync => Last("SYNCH", "ERR_SYNCH")'
  BY <1>1, LastKept DEF Pipe
<1>8. master.wait = "connect" => Last("CONNECT", "CONNECTED")'
  BY <1>1, LastKept DEF Pipe
<1>9. ASSUME master.wait # "connect"
      PROVE  /\ \A i \in DOMAIN toSlave' : toSlave'[i].cmd # "CONNECT"
             /\ \A i \in DOMAIN toMaster' : toMaster'[i].kind # "CONNECTED"
  <2>1. Command.cmd # "CONNECT"
    BY <1>1, <1>9, AskedFor DEF Pipe
  <2>. QED  BY <1>1, <1>2, <1>3, <1>9, <2>1 DEF Pipe
<1>10. Pipe'
  <2>1. \A i \in DOMAIN toSlave' : i > 1 => toSlave'[i].cmd \in {"SYNCH", "CONNECT"}
    BY <1>2
  <2>. QED  BY <1>5, <1>6, <1>7, <1>8, <1>9, <2>1 DEF Pipe, Exchange
<1>. QED  BY <1>4, <1>10

-----------------------------------------------------------------------------
(* The slave                                                               *)

\* A command that touches neither seed and key nor the protection.
LEMMA TookStep ==
  ASSUME IInv, Took, UNCHANGED <<master, protect, unlock>>, NEW e \in Answers, Told(e),
         e.kind \notin {"EV", "SEED"},
         e.kind = "ERR_SYNCH" => Command.cmd = "SYNCH",
         e.kind = "CONNECTED" => Command.cmd = "CONNECT",
         e.kind = "STATUS" => e.protect = protect,
         master.wait = "key" /\ ~master.sync =>
           e.kind # "RES" /\ (e.kind = "ERR_SEQUENCE" => unlock.key_len # 0),
         connected' \in BOOLEAN, faults' \in 0..MaxFaults
  PROVE  IInv'
<1>1. Typed /\ Seeds /\ Keys /\ Statuses /\ BeliefTrue
  BY DEF IInv
<1>2. Waiting' /\ Pipe'
  BY TookPipe
<1>3. IsSequence(toSlave') /\ \A i \in DOMAIN toSlave' : toSlave'[i].cmd \in {"SYNCH", "CONNECT"} /\ toSlave'[i] \in Commands
  BY TookQueue
<1>4. /\ IsSequence(toMaster') /\ \A i \in DOMAIN toMaster' : toMaster'[i] \in Answers
      /\ \A i \in DOMAIN toMaster' : (i \in DOMAIN toMaster /\ toMaster'[i] = toMaster[i]) \/ toMaster'[i] = e
  BY ToldQueue
<1>5. Typed'
  BY <1>1, <1>3, <1>4 DEF Typed
<1>6. Seeds'
  BY <1>1, <1>3, <1>4 DEF Seeds, KeyGood, Part
<1>7. Keys'
  BY <1>1, <1>3, <1>4 DEF Keys
<1>8. Statuses'
  BY <1>1, <1>4 DEF Statuses
<1>9. BeliefTrue'
  BY <1>1 DEF BeliefTrue
<1>. QED  BY <1>2, <1>5, <1>6, <1>7, <1>8, <1>9 DEF IInv

LEMMA Answering ==
  ASSUME IInv, NEW e, Answer(e)
  PROVE  Told(e) /\ faults' \in 0..MaxFaults
<1>1. faults \in 0..MaxFaults /\ MaxFaults \in Nat
  BY SessionAssumption DEF IInv, Typed
<1>. QED  BY <1>1 DEF Answer, Queued, Unqueued, Fault, Told

LEMMA Handling ==
  ASSUME IInv, NEW cmd, Handle(cmd)
  PROVE  /\ Took /\ master' = master /\ Command.cmd = cmd /\ Command \in Commands
         /\ Exchange => Asked(master.wait, cmd)
         /\ master.wait = "key" /\ ~master.sync => cmd = "UNLOCK"
         /\ master.wait \in {"seed", "rest"} /\ ~master.sync => cmd = "GET_SEED"
<1>1. Took /\ master' = master /\ Command.cmd = cmd
  BY DEF Handle, Took
<1>2. Command \in Commands /\ (Exchange => Asked(master.wait, cmd))
  BY <1>1, AskedFor DEF Took
<1>. QED  BY <1>1, <1>2 DEF Exchange, Asked

LEMMA PlainStep ==
  ASSUME IInv, Ignore \/ Connect \/ Disconnect \/ Synch \/ GetStatus
  PROVE  IInv'
<1>1. /\ faults \in 0..MaxFaults /\ connected \in BOOLEAN /\ protect \in SUBSET Protected
  BY DEF IInv, Typed
<1>2. CASE Ignore
  <2>1. Took /\ UNCHANGED <<master, protect, unlock, connected, faults, toMaster>>
    BY <1>2 DEF Ignore, Took, slave
  <2>2. [kind |-> "ERR_ACCESS_LOCKED"] \in Answers /\ Told([kind |-> "ERR_ACCESS_LOCKED"])
    BY <2>1 DEF Answers, Told
  <2>. QED  BY <1>1, <2>1, <2>2, TookStep
<1>3. CASE Connect
  <2>1. Handle("CONNECT") /\ connected' = TRUE /\ protect' = protect /\ unlock' = unlock /\ Answer([kind |-> "CONNECTED"])
    BY <1>3 DEF Connect
  <2>2. [kind |-> "CONNECTED"] \in Answers
    BY DEF Answers
  <2>3. Told([kind |-> "CONNECTED"]) /\ faults' \in 0..MaxFaults
    BY <2>1, Answering
  <2>4. Took /\ master' = master /\ Command.cmd = "CONNECT"
    BY <2>1, Handling
  <2>. QED  BY <2>1, <2>2, <2>3, <2>4, TookStep
<1>4. CASE Disconnect
  <2>1. Handle("DISCONNECT") /\ connected' = FALSE /\ UNCHANGED <<protect, unlock>> /\ Answer([kind |-> "RES"])
    BY <1>4 DEF Disconnect
  <2>2. [kind |-> "RES"] \in Answers
    BY DEF Answers
  <2>3. Told([kind |-> "RES"]) /\ faults' \in 0..MaxFaults
    BY <2>1, Answering
  <2>4. Took /\ master' = master /\ Command.cmd = "DISCONNECT" /\ ~(master.wait = "key" /\ ~master.sync)
    BY <2>1, Handling
  <2>. QED  BY <2>1, <2>2, <2>3, <2>4, TookStep
<1>5. CASE Synch
  <2>1. Handle("SYNCH") /\ UNCHANGED <<connected, protect, unlock>> /\ Answer([kind |-> "ERR_SYNCH"])
    BY <1>5 DEF Synch, slave
  <2>2. [kind |-> "ERR_SYNCH"] \in Answers
    BY DEF Answers
  <2>3. Told([kind |-> "ERR_SYNCH"]) /\ faults' \in 0..MaxFaults
    BY <2>1, Answering
  <2>4. Took /\ master' = master /\ Command.cmd = "SYNCH"
    BY <2>1, Handling
  <2>. QED  BY <1>1, <2>1, <2>2, <2>3, <2>4, TookStep
<1>6. CASE GetStatus
  <2>1. Handle("GET_STATUS") /\ UNCHANGED <<connected, protect, unlock>>
        /\ Answer([kind |-> "STATUS", protect |-> protect])
    BY <1>6 DEF GetStatus, slave
  <2>2. [kind |-> "STATUS", protect |-> protect] \in Answers
    BY <1>1 DEF Answers
  <2>3. Told([kind |-> "STATUS", protect |-> protect]) /\ faults' \in 0..MaxFaults
    BY <2>1, Answering
  <2>4. Took /\ master' = master /\ Command.cmd = "GET_STATUS"
    BY <2>1, Handling
  <2>. QED  BY <1>1, <2>1, <2>2, <2>3, <2>4, TookStep
<1>. QED  BY <1>2, <1>3, <1>4, <1>5, <1>6

LEMMA EarlyStep == ASSUME IInv, UnlockEarly PROVE IInv'
<1>1. /\ Handle("UNLOCK") /\ unlock.res = None /\ UNCHANGED <<connected, protect, unlock>>
      /\ Answer([kind |-> "ERR_SEQUENCE", rem |-> 0]) /\ connected \in BOOLEAN
      /\ Waiting /\ Seeds
  BY DEF UnlockEarly, slave, IInv, Typed
<1>2. [kind |-> "ERR_SEQUENCE", rem |-> 0] \in Answers
  BY KeyMaxType DEF Answers
<1>3. Told([kind |-> "ERR_SEQUENCE", rem |-> 0]) /\ faults' \in 0..MaxFaults
  BY <1>1, Answering
<1>4. Took /\ master' = master /\ Command.cmd = "UNLOCK"
  BY <1>1, Handling
<1>5. master.wait # "key"
  <2>. SUFFICES ASSUME master.wait = "key" PROVE FALSE
    OBVIOUS
  <2>1. master.total > 0
    BY <1>1, KeyMaxType DEF Waiting, IInv, Typed, Masters
  <2>. QED  BY <1>1, <2>1 DEF Waiting, Seeds
<1>. QED  BY <1>1, <1>2, <1>3, <1>4, <1>5, TookStep

\* The next part of a seed.
LEMMA Sending ==
  ASSUME IInv, NEW u, UnlockType(u), SendSeed(u)
  PROVE  \E e \in Answers :
           /\ Told(e) /\ faults' \in 0..MaxFaults
           /\ e.kind = "SEED" /\ e.rem = u.seed_rem /\ Len(e.data) <= e.rem
           /\ \A i \in 1..Len(e.data) : e.data[i] = u.seed[Len(u.seed) - e.rem + i]
           /\ UnlockType(unlock')
           /\ unlock'.res = u.res /\ unlock'.seed = u.seed /\ unlock'.key = u.key
           /\ unlock'.key_len = u.key_len /\ unlock'.key_rem = u.key_rem
<1>1. /\ u \in [res : Resources \cup {None}, seed : Seq(Bytes), seed_rem : Nat,
                key : [1..KeyMax -> Bytes], key_len : 0..KeyMax, key_rem : Nat]
      /\ Len(u.seed) <= KeyMax /\ u.seed_rem <= Len(u.seed) /\ u.key_rem <= u.key_len
      /\ Len(u.seed) \in Nat
  BY LenProperties DEF UnlockType
<1>2. PICK rem \in Nat : rem = Least(u.seed_rem, Chunk) /\ rem <= u.seed_rem
  BY <1>1, SessionAssumption, LeastType
<1>3. PICK from \in Nat : from = Len(u.seed) - u.seed_rem
  BY <1>1
<1>4. PICK part : part = SubSeq(u.seed, from + 1, from + rem)
  OBVIOUS
<1>5. /\ part \in Seq(Bytes) /\ Len(part) = rem
      /\ \A i \in 1..rem : part[i] = u.seed[from + i]
  <2>1. \A i \in from + 1..from + rem : u.seed[i] \in Bytes
    <3>1. \A i \in from + 1..from + rem : i \in 1..Len(u.seed)
      <4>. PICK n \in Nat, k \in Nat : n = Len(u.seed) /\ k = u.seed_rem /\ k <= n
        BY <1>1
      <4>1. from + rem <= n
        BY <1>2, <1>3
      <4>. QED  BY <4>1
    <3>. QED  BY <1>1, <3>1, ElementOfSeq
  <2>2. /\ part \in Seq(Bytes)
        /\ Len(part) = IF from + 1 <= from + rem THEN (from + rem) - (from + 1) + 1 ELSE 0
        /\ \A i \in 1..(from + rem) - (from + 1) + 1 : part[i] = u.seed[(from + 1) + i - 1]
    BY <1>4, <2>1, SubSeqProperties
  <2>3. (from + rem) - (from + 1) + 1 = rem /\ \A i \in Nat : (from + 1) + i - 1 = from + i
    OBVIOUS
  <2>. QED  BY <2>2, <2>3
<1>6. PICK e : e = [kind |-> "SEED", rem |-> u.seed_rem, data |-> part]
  OBVIOUS
<1>7. \/ Queued(e) /\ unlock' = [u EXCEPT !.seed_rem = @ - rem]
      \/ Unqueued /\ unlock' = u
  BY <1>2, <1>3, <1>4, <1>6 DEF SendSeed
<1>8. Told(e) /\ faults' \in 0..MaxFaults
  BY <1>7, Answering DEF Answer
<1>9. e \in Answers /\ e.kind = "SEED" /\ e.rem = u.seed_rem /\ e.data = part
  <2>1. u.seed_rem \in 0..KeyMax
    BY <1>1, KeyMaxType
  <2>2. e \in [kind : {"SEED"}, rem : 0..KeyMax, data : Seq(Bytes)]
    BY <1>5, <1>6, <2>1
  <2>. QED  BY <1>6, <2>2 DEF Answers
<1>10. /\ UnlockType(unlock')
       /\ unlock'.res = u.res /\ unlock'.seed = u.seed /\ unlock'.key = u.key
       /\ unlock'.key_len = u.key_len /\ unlock'.key_rem = u.key_rem
  <2>1. CASE unlock' = u
    BY <2>1
  <2>2. CASE unlock' = [u EXCEPT !.seed_rem = @ - rem]
    <3>1. PICK k \in Nat : k = u.seed_rem - rem /\ k <= u.seed_rem
      BY <1>1, <1>2
    <3>2. unlock' = [u EXCEPT !.seed_rem = k]
      BY <2>2, <3>1
    <3>3. /\ unlock' \in [res : Resources \cup {None}, seed : Seq(Bytes), seed_rem : Nat,
                          key : [1..KeyMax -> Bytes], key_len : 0..KeyMax, key_rem : Nat]
          /\ unlock'.res = u.res /\ unlock'.seed = u.seed /\ unlock'.key = u.key
          /\ unlock'.key_len = u.key_len /\ unlock'.key_rem = u.key_rem
          /\ unlock'.seed_rem = k
      BY <1>1, <3>2
    <3>4. k <= Len(u.seed)
      BY <1>1, <3>1
    <3>. QED  BY <1>1, <3>3, <3>4 DEF UnlockType
  <2>. QED  BY <1>7, <2>1, <2>2
<1>. QED  BY <1>2, <1>3, <1>5, <1>8, <1>9, <1>10

LEMMA GetSeedStep == ASSUME IInv, GetSeed PROVE IInv'
<1>1. /\ Typed /\ Waiting /\ Pipe /\ Seeds /\ Keys /\ Statuses /\ BeliefTrue
      /\ Handle("GET_SEED") /\ Command.mode = 0 /\ UNCHANGED <<connected, protect>>
  BY DEF IInv, GetSeed
<1>2. /\ Took /\ master' = master /\ Command.cmd = "GET_SEED" /\ Command \in Commands
      /\ ~(master.wait = "key" /\ ~master.sync)
      /\ 1 \in DOMAIN toSlave /\ Command = toSlave[1]
      /\ Exchange => OnlyEvents
  BY <1>1, Handling, AskedFor DEF Took
<1>3. Command.res \in Resources
  BY <1>1, <1>2 DEF Commands
<1>4. PICK n \in SeedLens, v \in SeedValues :
        SendSeed([unlock EXCEPT !.res = Command.res, !.seed = Seed(Command.res, v, n),
                                !.seed_rem = n, !.key_len = 0, !.key_rem = 0])
  BY DEF GetSeed
<1>5. PICK u : u = [unlock EXCEPT !.res = Command.res, !.seed = Seed(Command.res, v, n),
                                  !.seed_rem = n, !.key_len = 0, !.key_rem = 0]
  OBVIOUS
<1>6. n \in Nat \ {0} /\ n <= KeyMax
  BY KeyMaxType, SessionAssumption
<1>7. Seed(Command.res, v, n) \in Seq(Bytes) /\ Len(Seed(Command.res, v, n)) = n
  <2>1. Seed(Command.res, v, n) \in [1..n -> Bytes]
    BY <1>3, <1>6 DEF Seed, Bytes
  <2>. QED  BY <1>6, <2>1, IsASeq, LenProperties
<1>8. /\ UnlockType(u) /\ u.res = Command.res /\ u.seed = Seed(Command.res, v, n) /\ Len(u.seed) = n
      /\ u.seed_rem = n /\ u.key_len = 0 /\ u.key_rem = 0
  <2>1. /\ unlock \in [res : Resources \cup {None}, seed : Seq(Bytes), seed_rem : Nat,
                        key : [1..KeyMax -> Bytes], key_len : 0..KeyMax, key_rem : Nat]
    BY <1>1 DEF Typed, UnlockType
  <2>2. 0 \in 0..KeyMax /\ n \in Nat /\ KeyMax \in Nat
    BY <1>6, KeyMaxType
  <2>3. /\ u.res = Command.res /\ u.seed = Seed(Command.res, v, n)
        /\ u.seed_rem = n /\ u.key_len = 0 /\ u.key_rem = 0
    BY <1>5, <2>1
  <2>4. u \in [res : Resources \cup {None}, seed : Seq(Bytes), seed_rem : Nat,
               key : [1..KeyMax -> Bytes], key_len : 0..KeyMax, key_rem : Nat]
    BY <1>3, <1>5, <1>7, <2>1, <2>2
  <2>. QED  BY <1>6, <1>7, <2>2, <2>3, <2>4 DEF UnlockType
<1>9. SendSeed(u)
  BY <1>4, <1>5
<1>10. PICK e \in Answers :
           /\ Told(e) /\ faults' \in 0..MaxFaults
           /\ e.kind = "SEED" /\ e.rem = u.seed_rem /\ Len(e.data) <= e.rem
           /\ \A i \in 1..Len(e.data) : e.data[i] = u.seed[Len(u.seed) - e.rem + i]
           /\ UnlockType(unlock')
           /\ unlock'.res = u.res /\ unlock'.seed = u.seed /\ unlock'.key = u.key
           /\ unlock'.key_len = u.key_len /\ unlock'.key_rem = u.key_rem
  BY <1>8, <1>9, Sending
<1>11. Waiting' /\ Pipe'
  BY <1>2, <1>10, TookPipe
<1>12. IsSequence(toSlave') /\ \A i \in DOMAIN toSlave' : toSlave'[i].cmd \in {"SYNCH", "CONNECT"} /\ toSlave'[i] \in Commands
  BY <1>2, TookQueue
<1>13. /\ IsSequence(toMaster') /\ \A i \in DOMAIN toMaster' : toMaster'[i] \in Answers
       /\ \A i \in DOMAIN toMaster' : (i \in DOMAIN toMaster /\ toMaster'[i] = toMaster[i]) \/ toMaster'[i] = e
  BY <1>10, ToldQueue
<1>14. Typed'
  BY <1>1, <1>2, <1>10, <1>12, <1>13 DEF Typed
<1>15. master.total = 0 /\ (master.wait = "seed" /\ ~master.sync => Command.res = master.want)
  BY <1>1, <1>2 DEF Seeds
<1>16. Seeds'
  <2>1. ~(0 > 0)
    OBVIOUS
  <2>2. master.wait # "rest"
    <3>1. Len(master.asm) \in Nat
      BY <1>1, LenProperties DEF Typed, Masters
    <3>. QED  BY <1>1, <1>15, <3>1 DEF Waiting
  <2>3. ASSUME ~master.sync, NEW i \in DOMAIN toMaster', toMaster'[i].kind = "SEED", master.wait = "seed"
        PROVE  /\ Part(toMaster'[i], unlock'.seed)
               /\ unlock'.res = master.want /\ toMaster'[i].rem = Len(unlock'.seed)
               /\ Len(unlock'.seed) > 0 /\ unlock'.key_len = 0 /\ unlock'.key_rem = 0
    <3>1. OnlyEvents
      BY <1>2, <2>3 DEF Exchange
    <3>2. toMaster'[i] = e
      BY <1>13, <2>3, <3>1 DEF OnlyEvents
    <3>. QED  BY <1>6, <1>8, <1>10, <1>15, <2>3, <3>2 DEF Part
  <2>. QED  BY <1>2, <1>12, <1>15, <2>1, <2>2, <2>3 DEF Seeds
<1>17. Keys'
  BY <1>2, <1>12 DEF Keys
<1>18. Statuses'
  BY <1>1, <1>10, <1>13 DEF Statuses
<1>19. BeliefTrue'
  BY <1>1, <1>2 DEF BeliefTrue
<1>. QED  BY <1>11, <1>14, <1>16, <1>17, <1>18, <1>19 DEF IInv

LEMMA GetSeedRestStep == ASSUME IInv, GetSeedRest PROVE IInv'
<1>1. /\ Typed /\ Waiting /\ Pipe /\ Seeds /\ Keys /\ Statuses /\ BeliefTrue
      /\ Handle("GET_SEED") /\ Command.mode = 1 /\ UNCHANGED <<connected, protect>>
      /\ connected \in BOOLEAN
  BY DEF IInv, GetSeedRest, Typed
<1>2. /\ Took /\ master' = master /\ Command.cmd = "GET_SEED" /\ Command \in Commands
      /\ ~(master.wait = "key" /\ ~master.sync)
      /\ 1 \in DOMAIN toSlave /\ Command = toSlave[1]
      /\ Exchange => OnlyEvents
  BY <1>1, Handling, AskedFor DEF Took
<1>3. CASE unlock.res = None
  <2>1. Answer([kind |-> "ERR_SEQUENCE", rem |-> 0]) /\ unlock' = unlock
    BY <1>3 DEF GetSeedRest
  <2>2. [kind |-> "ERR_SEQUENCE", rem |-> 0] \in Answers
    BY KeyMaxType DEF Answers
  <2>3. Told([kind |-> "ERR_SEQUENCE", rem |-> 0]) /\ faults' \in 0..MaxFaults
    BY <2>1, Answering
  <2>. QED  BY <1>1, <1>2, <2>1, <2>2, <2>3, TookStep
<1>4. CASE unlock.res # None
  <2>1. PICK e \in Answers :
           /\ Told(e) /\ faults' \in 0..MaxFaults
           /\ e.kind = "SEED" /\ e.rem = unlock.seed_rem /\ Len(e.data) <= e.rem
           /\ \A i \in 1..Len(e.data) : e.data[i] = unlock.seed[Len(unlock.seed) - e.rem + i]
           /\ UnlockType(unlock')
           /\ unlock'.res = unlock.res /\ unlock'.seed = unlock.seed /\ unlock'.key = unlock.key
           /\ unlock'.key_len = unlock.key_len /\ unlock'.key_rem = unlock.key_rem
    BY <1>1, <1>4, Sending DEF GetSeedRest, Typed
  <2>2. Waiting' /\ Pipe'
    BY <1>2, <2>1, TookPipe
  <2>3. IsSequence(toSlave') /\ \A i \in DOMAIN toSlave' : toSlave'[i].cmd \in {"SYNCH", "CONNECT"} /\ toSlave'[i] \in Commands
    BY <1>2, TookQueue
  <2>4. /\ IsSequence(toMaster') /\ \A i \in DOMAIN toMaster' : toMaster'[i] \in Answers
        /\ \A i \in DOMAIN toMaster' : (i \in DOMAIN toMaster /\ toMaster'[i] = toMaster[i]) \/ toMaster'[i] = e
    BY <2>1, ToldQueue
  <2>5. Typed'
    BY <1>1, <1>2, <2>1, <2>3, <2>4 DEF Typed
  <2>6. KeyGood(unlock) => KeyGood(unlock')
    BY <2>1 DEF KeyGood
  <2>7. Seeds'
    <3>1. ASSUME ~master.sync, NEW i \in DOMAIN toMaster', toMaster'[i].kind = "SEED",
                 master.wait \in {"seed", "rest"}
          PROVE  master.wait # "seed" /\ Part(toMaster'[i], unlock'.seed)
      <4>1. OnlyEvents
        BY <1>2, <3>1 DEF Exchange
      <4>2. toMaster'[i] = e
        BY <2>4, <3>1, <4>1 DEF OnlyEvents
      <4>3. master.wait # "seed"
        BY <1>1, <1>2, <3>1 DEF Seeds
      <4>4. unlock.seed_rem <= Len(unlock.seed)
        BY <1>1 DEF Typed, UnlockType
      <4>. QED  BY <2>1, <4>2, <4>3, <4>4 DEF Part
    <3>2. master.total > 0 =>
             /\ unlock'.res = master.want /\ master.total = Len(unlock'.seed) /\ KeyGood(unlock')
             /\ \A i \in 1..Len(master.asm) : master.asm[i] = unlock'.seed[i]
             /\ unlock'.key_len = 0 => master.sent = 0
      BY <1>1, <2>1, <2>6 DEF Seeds
    <3>. QED  BY <1>2, <2>3, <3>1, <3>2 DEF Seeds
  <2>8. Keys'
    BY <1>2, <2>3 DEF Keys
  <2>9. Statuses'
    BY <1>1, <2>1, <2>4 DEF Statuses
  <2>10. BeliefTrue'
    BY <1>1, <1>2 DEF BeliefTrue
  <2>. QED  BY <2>2, <2>5, <2>7, <2>8, <2>9, <2>10 DEF IInv
<1>. QED  BY <1>3, <1>4

\* A part of a key is put behind those before it, and keeps within the key.
Taken(u, n) == [u EXCEPT !.key = Filled(u, n), !.key_rem = @ - n]

LEMMA StartedType ==
  ASSUME UnlockType(unlock), NEW rem \in 0..KeyMax
  PROVE  /\ UnlockType(Started(rem))
         /\ Started(rem).res = unlock.res /\ Started(rem).seed = unlock.seed /\ Started(rem).key = unlock.key
         /\ unlock.key_len = 0 => Started(rem).key_len = rem /\ Started(rem).key_rem = rem
         /\ unlock.key_len # 0 => Started(rem) = unlock
<1>. PICK u : u = Started(rem)
  OBVIOUS
<1>1. unlock \in [res : Resources \cup {None}, seed : Seq(Bytes), seed_rem : Nat,
                  key : [1..KeyMax -> Bytes], key_len : 0..KeyMax, key_rem : Nat]
  BY DEF UnlockType
<1>2. rem \in Nat /\ KeyMax \in Nat
  BY KeyMaxType
<1>3. CASE unlock.key_len # 0
  BY <1>3 DEF Started
<1>4. CASE unlock.key_len = 0
  <2>1. u = [unlock EXCEPT !.key_len = rem, !.key_rem = rem]
    BY <1>4 DEF Started
  <2>2. u \in [res : Resources \cup {None}, seed : Seq(Bytes), seed_rem : Nat,
               key : [1..KeyMax -> Bytes], key_len : 0..KeyMax, key_rem : Nat]
    BY <1>1, <1>2, <2>1
  <2>3. /\ u.res = unlock.res /\ u.seed = unlock.seed /\ u.key = unlock.key /\ u.seed_rem = unlock.seed_rem
        /\ u.key_len = rem /\ u.key_rem = rem
    BY <1>1, <2>1
  <2>. QED  BY <1>2, <1>4, <2>2, <2>3 DEF UnlockType
<1>. QED  BY <1>3, <1>4

LEMMA TakenType ==
  ASSUME NEW u, UnlockType(u), Command \in Commands, Command.cmd = "UNLOCK", u.key_rem = Command.rem,
         NEW n, n = Least(Command.rem, Len(Command.key))
  PROVE  /\ n \in Nat /\ n <= Command.rem /\ n <= Len(Command.key) /\ Len(Command.key) \in Nat
         /\ n = Command.rem \/ n = Len(Command.key)
         /\ UnlockType(Taken(u, n))
         /\ Taken(u, n).res = u.res /\ Taken(u, n).seed = u.seed /\ Taken(u, n).key = Filled(u, n)
         /\ Taken(u, n).key_len = u.key_len /\ Taken(u, n).key_rem = u.key_rem - n
<1>1. Command.rem \in 0..KeyMax /\ Command.key \in Seq(Bytes)
  BY DEF Commands
<1>2. /\ n \in Nat /\ n <= Command.rem /\ n <= Len(Command.key) /\ Len(Command.key) \in Nat
      /\ n = Command.rem \/ n = Len(Command.key)
  <2>1. Command.rem \in Nat /\ Len(Command.key) \in Nat
    BY <1>1, KeyMaxType, LenProperties
  <2>. QED  BY <2>1, LeastType
<1>3. u \in [res : Resources \cup {None}, seed : Seq(Bytes), seed_rem : Nat,
             key : [1..KeyMax -> Bytes], key_len : 0..KeyMax, key_rem : Nat]
  BY DEF UnlockType
<1>4. Filled(u, n) \in [1..KeyMax -> Bytes]
  <2>1. \A k \in 1..n : Command.key[k] \in Bytes
    <3>1. \A k \in 1..n : k \in 1..Len(Command.key)
      BY <1>2
    <3>. QED  BY <1>1, <3>1, ElementOfSeq
  <2>2. \A i \in 1..KeyMax : u.key[i] \in Bytes
    BY <1>3
  <2>. QED  BY <2>1, <2>2 DEF Filled
<1>5. PICK f \in [1..KeyMax -> Bytes] : f = Filled(u, n)
  BY <1>4
<1>6. PICK m \in Nat : m = u.key_rem - n
  BY <1>2, <1>3
<1>7. Taken(u, n) = [u EXCEPT !.key = f, !.key_rem = m]
  BY <1>3, <1>5, <1>6 DEF Taken
<1>8. PICK w : w = Taken(u, n)
  OBVIOUS
<1>9. /\ w \in [res : Resources \cup {None}, seed : Seq(Bytes), seed_rem : Nat,
                key : [1..KeyMax -> Bytes], key_len : 0..KeyMax, key_rem : Nat]
      /\ w.res = u.res /\ w.seed = u.seed /\ w.key = f /\ w.key_len = u.key_len /\ w.key_rem = m
      /\ w.seed_rem = u.seed_rem
  BY <1>3, <1>7, <1>8
<1>10. m <= u.key_len
  BY <1>2, <1>3, <1>6, KeyMaxType DEF UnlockType
<1>. QED  BY <1>2, <1>5, <1>6, <1>8, <1>9, <1>10 DEF UnlockType

\* The right part of a key continues a key that was right so far.
LEMMA TakenGood ==
  ASSUME UnlockType(unlock), Command \in Commands, Command.cmd = "UNLOCK",
         KeyGood(unlock), Right(Command, unlock),
         NEW u, u = Started(Command.rem), u.key_rem = Command.rem,
         NEW n, n = Least(Command.rem, Len(Command.key))
  PROVE  KeyGood(Taken(u, n)) /\ Taken(u, n).key_len = Len(unlock.seed)
<1>1. Command.rem \in 0..KeyMax /\ KeyMax \in Nat
  BY KeyMaxType DEF Commands
<1>2. /\ UnlockType(u) /\ u.res = unlock.res /\ u.seed = unlock.seed /\ u.key = unlock.key
      /\ unlock.key_len = 0 => u.key_len = Command.rem /\ u.key_rem = Command.rem
      /\ unlock.key_len # 0 => u = unlock
  BY <1>1, StartedType
<1>3. PICK len : len = Len(unlock.seed)
  OBVIOUS
<1>4. len \in Nat /\ u.key_len = len /\ len <= KeyMax
  <2>1. Command.rem \in 1..len /\ (unlock.key_len = 0 => Command.rem = len)
    BY <1>3 DEF Right
  <2>2. unlock.key_len \in {0, len}
    BY <1>3 DEF KeyGood
  <2>3. len \in Nat /\ len <= KeyMax
    BY <1>3, LenProperties DEF UnlockType
  <2>. QED  BY <1>2, <2>1, <2>2, <2>3
<1>5. PICK done \in Nat : done = len - Command.rem
  <2>1. Command.rem \in Nat /\ Command.rem <= len
    BY <1>2, <1>4 DEF UnlockType
  <2>. QED  BY <1>4, <2>1
<1>6. \A i \in 1..done : u.key[i] = unlock.seed[i]
  <2>1. CASE unlock.key_len = 0
    <3>1. done = 0
      BY <1>1, <1>2, <1>4, <1>5, <2>1
    <3>. QED  BY <3>1
  <2>2. CASE unlock.key_len # 0
    <3>1. unlock.key_len - unlock.key_rem = done
      BY <1>2, <1>4, <1>5, <2>2
    <3>. QED  BY <1>2, <2>2, <3>1 DEF KeyGood
  <2>. QED  BY <2>1, <2>2
<1>7. /\ n \in Nat /\ n <= Command.rem /\ n <= Len(Command.key) /\ Len(Command.key) \in Nat
      /\ Taken(u, n).seed = unlock.seed /\ Taken(u, n).key = Filled(u, n)
      /\ Taken(u, n).key_len = len /\ Taken(u, n).key_rem = u.key_rem - n
  BY <1>2, <1>4, TakenType
<1>8. Taken(u, n).key_len - Taken(u, n).key_rem = done + n
  BY <1>1, <1>4, <1>5, <1>7
<1>9. ASSUME NEW i \in 1..done + n PROVE Filled(u, n)[i] = unlock.seed[i]
  <2>1. i \in 1..KeyMax
    BY <1>1, <1>4, <1>5, <1>7
  <2>2. u.key_len - u.key_rem = done
    BY <1>4, <1>5
  <2>3. Filled(u, n)[i] = IF i - done \in 1..n THEN Command.key[i - done] ELSE u.key[i]
    BY <2>1, <2>2 DEF Filled
  <2>4. CASE i \in 1..done
    <3>1. i - done \notin 1..n
      BY <2>4
    <3>. QED  BY <1>6, <2>3, <2>4, <3>1
  <2>5. CASE i \notin 1..done
    <3>1. PICK k \in 1..n : k = i - done
      BY <1>7, <2>5
    <3>2. k \in 1..Len(Command.key) /\ k <= Command.rem
      BY <1>1, <1>7
    <3>3. Command.key[k] = unlock.seed[len - Command.rem + k]
      BY <1>3, <3>2 DEF Right
    <3>4. len - Command.rem + k = i
      BY <1>1, <1>4, <1>5, <3>1
    <3>. QED  BY <2>3, <3>1, <3>3, <3>4
  <2>. QED  BY <2>4, <2>5
<1>. QED  BY <1>3, <1>7, <1>8, <1>9 DEF KeyGood

\* What an UNLOCK in its turn does.
LEMMA Unlocking ==
  ASSUME IInv, Unlock
  PROVE  \/ /\ Told([kind |-> "ERR_SEQUENCE", rem |-> unlock.key_rem])
            /\ unlock.key_len # 0 /\ UNCHANGED <<protect, unlock>>
         \/ \E e \in [kind : {"RES", "ERR_ACCESS_LOCKED"}] :
              /\ Told(e) /\ UnlockType(unlock')
              /\ unlock'.res = unlock.res /\ unlock'.seed = unlock.seed
              /\ KeyGood(unlock) /\ Right(Command, unlock) =>
                   KeyGood(unlock') /\ unlock'.key_len = Len(unlock.seed)
              /\ \/ protect' = protect \ {unlock.res}
                 \/ protect' = protect /\ ~(unlock'.key_rem = 0 /\ Opens(unlock'))
                    /\ (e.kind = "RES" => unlock'.key_rem # 0)
              /\ Least(Chunk, Command.rem) = Command.rem /\ Len(Command.key) >= Command.rem =>
                   unlock'.key_rem = 0
<1>1. /\ Handle("UNLOCK") /\ Typed
  BY DEF Unlock, IInv
<1>2. Command \in Commands /\ Command.cmd = "UNLOCK"
  BY <1>1, Handling
<1>3. Command.rem \in 0..KeyMax /\ Command.rem \in Nat
  BY <1>2, KeyMaxType DEF Commands
<1>4. PICK u : u = Started(Command.rem)
  OBVIOUS
<1>5. PICK n : n = Least(Command.rem, Len(Command.key))
  OBVIOUS
<1>6. PICK w : w = Taken(u, n)
  OBVIOUS
<1>7. /\ UnlockType(u) /\ u.res = unlock.res /\ u.seed = unlock.seed
      /\ unlock.key_len = 0 => u.key_rem = Command.rem
      /\ unlock.key_len # 0 => u = unlock
  BY <1>1, <1>3, <1>4, StartedType DEF Typed
<1>8. CASE u.key_rem # Command.rem
  <2>1. u = unlock /\ unlock.key_len # 0
    BY <1>7, <1>8
  <2>2. Answer([kind |-> "ERR_SEQUENCE", rem |-> u.key_rem]) /\ UNCHANGED <<protect, unlock>>
    BY <1>4, <1>8 DEF Unlock
  <2>. QED  BY <2>1, <2>2, Answering
<1>9. CASE u.key_rem = Command.rem
  <2>1. /\ unlock' = w
        /\ IF w.key_rem = 0 /\ Opens(w)
           THEN protect' = protect \ {w.res} /\ Answer([kind |-> "RES"])
           ELSE /\ UNCHANGED protect
                /\ Answer([kind |-> IF w.key_rem = 0 THEN "ERR_ACCESS_LOCKED" ELSE "RES"])
    BY <1>4, <1>5, <1>6, <1>9 DEF Unlock, Taken
  <2>2. /\ UnlockType(w) /\ w.res = u.res /\ w.seed = u.seed /\ w.key_rem = Command.rem - n
        /\ n = Command.rem \/ n = Len(Command.key)
        /\ n <= Command.rem /\ n \in Nat /\ Len(Command.key) \in Nat
    BY <1>2, <1>5, <1>6, <1>7, <1>9, TakenType
  <2>3. KeyGood(unlock) /\ Right(Command, unlock) => KeyGood(w) /\ w.key_len = Len(unlock.seed)
    BY <1>1, <1>2, <1>4, <1>5, <1>6, <1>9, TakenGood DEF Typed
  <2>4. Len(Command.key) >= Command.rem => w.key_rem = 0
    BY <1>3, <2>2
  <2>5. PICK e : e = [kind |-> IF w.key_rem = 0 /\ ~Opens(w) THEN "ERR_ACCESS_LOCKED" ELSE "RES"]
    OBVIOUS
  <2>6. Answer(e)
    BY <2>1, <2>5
  <2>7. e \in [kind : {"RES", "ERR_ACCESS_LOCKED"}]
    BY <2>5
  <2>8. \/ protect' = protect \ {unlock.res}
        \/ protect' = protect /\ ~(w.key_rem = 0 /\ Opens(w)) /\ (e.kind = "RES" => w.key_rem # 0)
    BY <1>7, <2>1, <2>2, <2>5
  <2>9. Told(e)
    BY <2>6, Answering
  <2>. QED  BY <1>7, <2>1, <2>2, <2>3, <2>4, <2>7, <2>8, <2>9
<1>. QED  BY <1>8, <1>9

LEMMA UnlockStep == ASSUME IInv, Unlock PROVE IInv'
<1>1. /\ Typed /\ Waiting /\ Pipe /\ Seeds /\ Keys /\ Statuses /\ BeliefTrue
      /\ Handle("UNLOCK") /\ UNCHANGED connected
      /\ connected \in BOOLEAN /\ faults' \in 0..MaxFaults
  <2>1. \E e : Answer(e)
    BY DEF Unlock
  <2>. QED  BY <2>1, Answering DEF IInv, Unlock, Typed
<1>2. /\ Took /\ master' = master /\ Command.cmd = "UNLOCK" /\ Command \in Commands
      /\ 1 \in DOMAIN toSlave /\ Command = toSlave[1]
      /\ Exchange => OnlyEvents
      /\ ~(master.wait \in {"seed", "rest"} /\ ~master.sync)
  BY <1>1, Handling, AskedFor DEF Took
<1>3. CASE /\ Told([kind |-> "ERR_SEQUENCE", rem |-> unlock.key_rem])
           /\ unlock.key_len # 0 /\ UNCHANGED <<protect, unlock>>
  <2>1. unlock.key_rem \in 0..KeyMax
    BY <1>1, KeyMaxType DEF Typed, UnlockType
  <2>2. PICK e : e = [kind |-> "ERR_SEQUENCE", rem |-> unlock.key_rem]
    OBVIOUS
  <2>3. e \in Answers /\ e.kind = "ERR_SEQUENCE"
    BY <2>1, <2>2 DEF Answers
  <2>. QED  BY <1>1, <1>2, <1>3, <2>2, <2>3, TookStep
<1>4. ASSUME NEW e \in [kind : {"RES", "ERR_ACCESS_LOCKED"}],
             Told(e), UnlockType(unlock'),
             unlock'.res = unlock.res, unlock'.seed = unlock.seed,
             KeyGood(unlock) /\ Right(Command, unlock) =>
               KeyGood(unlock') /\ unlock'.key_len = Len(unlock.seed),
             \/ protect' = protect \ {unlock.res}
             \/ protect' = protect /\ ~(unlock'.key_rem = 0 /\ Opens(unlock'))
                /\ (e.kind = "RES" => unlock'.key_rem # 0),
             Least(Chunk, Command.rem) = Command.rem /\ Len(Command.key) >= Command.rem =>
               unlock'.key_rem = 0
      PROVE  IInv'
  <2>1. e \in Answers /\ e.kind \in {"RES", "ERR_ACCESS_LOCKED"}
    BY DEF Answers
  <2>2. Waiting' /\ Pipe'
    BY <1>2, <1>4, <2>1, TookPipe
  <2>3. IsSequence(toSlave') /\ \A i \in DOMAIN toSlave' : toSlave'[i].cmd \in {"SYNCH", "CONNECT"} /\ toSlave'[i] \in Commands
    BY <1>2, TookQueue
  <2>4. /\ IsSequence(toMaster') /\ \A i \in DOMAIN toMaster' : toMaster'[i] \in Answers
        /\ \A i \in DOMAIN toMaster' : (i \in DOMAIN toMaster /\ toMaster'[i] = toMaster[i]) \/ toMaster'[i] = e
    BY <1>4, <2>1, ToldQueue
  <2>5. protect' \subseteq protect /\ protect' \in SUBSET Protected
    BY <1>1, <1>4 DEF Typed
  <2>6. Typed'
    BY <1>1, <1>2, <1>4, <2>3, <2>4, <2>5 DEF Typed
  <2>7. master.total > 0 =>
          /\ unlock.res = master.want /\ master.total = Len(unlock.seed)
          /\ KeyGood(unlock') /\ unlock'.key_len = master.total
    <3>1. master.total > 0 => master.total # 0
      OBVIOUS
    <3>2. master.total > 0 => unlock.res = master.want /\ master.total = Len(unlock.seed)
      BY <1>1 DEF Seeds
    <3>3. master.total # 0 => KeyGood(unlock) /\ Right(Command, unlock)
      BY <1>1, <1>2 DEF Keys
    <3>. QED  BY <1>4, <3>1, <3>2, <3>3
  <2>8. Seeds'
    <3>1. master.total > 0 =>
             /\ unlock'.res = master.want /\ master.total = Len(unlock'.seed) /\ KeyGood(unlock')
             /\ \A i \in 1..Len(master.asm) : master.asm[i] = unlock'.seed[i]
             /\ unlock'.key_len = 0 => master.sent = 0
      <4>1. master.total > 0 => \A i \in 1..Len(master.asm) : master.asm[i] = unlock.seed[i]
        BY <1>1 DEF Seeds
      <4>2. master.total > 0 => master.total # 0
        OBVIOUS
      <4>. QED  BY <1>4, <2>7, <4>1, <4>2
    <3>2. ~master'.sync => \A i \in DOMAIN toMaster' : toMaster'[i].kind = "SEED" =>
            /\ ~(master'.wait \in {"seed", "rest"}) /\ master'.wait # "seed"
      BY <1>2
    <3>. QED  BY <1>2, <2>3, <3>1, <3>2 DEF Seeds
  <2>9. ASSUME master.wait = "key", ~master.sync
        PROVE  /\ unlock'.key_len # 0 /\ \A i \in DOMAIN toMaster' : toMaster'[i].kind # "EV" => toMaster'[i] = e
               /\ e.kind = "RES" /\ master.total - master.sent <= Chunk => master.want \notin protect'
    <3>1. OnlyEvents
      BY <1>2, <2>9 DEF Exchange
    <3>2. master.total \in Nat /\ master.sent \in Nat /\ master.total > 0 /\ master.sent < master.total
      BY <1>1, <2>9, KeyMaxType DEF Typed, Masters, Waiting
    <3>3. unlock'.key_len # 0
      BY <2>7, <3>2
    <3>4. \A i \in DOMAIN toMaster' : toMaster'[i].kind # "EV" => toMaster'[i] = e
      BY <2>4, <3>1 DEF OnlyEvents
    <3>5. Command.rem = master.total - master.sent /\ Len(Command.key) >= Least(Chunk, Command.rem)
      BY <1>1, <1>2, <2>9 DEF Keys
    <3>6. ASSUME e.kind = "RES", master.total - master.sent <= Chunk
          PROVE  master.want \notin protect'
      <4>1. Least(Chunk, Command.rem) = Command.rem
        <5>1. Chunk \in Nat /\ Command.rem \in Nat /\ Command.rem <= Chunk
          BY <3>2, <3>5, <3>6, SessionAssumption
        <5>. QED  BY <5>1 DEF Least
      <4>2. unlock'.key_rem = 0
        BY <1>4, <3>5, <4>1
      <4>3. protect' = protect \ {unlock.res}
        BY <1>4, <3>6, <4>2
      <4>. QED  BY <2>7, <3>2, <4>3
    <3>. QED  BY <3>3, <3>4, <3>6
  <2>10. Keys'
    BY <1>2, <2>3, <2>9 DEF Keys
  <2>11. Statuses'
    BY <1>1, <2>1, <2>4, <2>5 DEF Statuses
  <2>12. BeliefTrue'
    BY <1>1, <1>2, <2>5 DEF BeliefTrue
  <2>. QED  BY <2>2, <2>6, <2>8, <2>10, <2>11, <2>12 DEF IInv
<1>. QED  BY <1>3, <1>4, Unlocking

LEMMA TerminateStep == ASSUME IInv, Terminate PROVE IInv'
<1>1. /\ Typed /\ Waiting /\ Pipe /\ Seeds /\ Keys /\ Statuses /\ BeliefTrue
      /\ connected' = FALSE /\ Fault /\ UNCHANGED <<protect, unlock, toSlave, master>>
  BY DEF IInv, Terminate
<1>2. PICK e : e = [kind |-> "EV"]
  OBVIOUS
<1>3. e \in Answers /\ e.kind = "EV" /\ toMaster' = Append(toMaster, e) /\ Told(e)
  BY <1>2 DEF Answers, Terminate, Told
<1>4. /\ IsSequence(toMaster') /\ Len(toMaster) \in Nat /\ DOMAIN toMaster = 1..Len(toMaster)
      /\ \A i \in DOMAIN toMaster' : i \in Nat /\ i <= Len(toMaster) + 1 /\ toMaster'[i] \in Answers
      /\ \A i \in DOMAIN toMaster' : \/ i \in DOMAIN toMaster /\ toMaster'[i] = toMaster[i]
                                     \/ i = Len(toMaster) + 1 /\ i \notin DOMAIN toMaster /\ toMaster'[i] = e
  BY <1>3, ToldQueue
<1>5. \A i \in DOMAIN toMaster' : toMaster'[i].kind # "EV" => i \in DOMAIN toMaster /\ toMaster'[i] = toMaster[i]
  BY <1>3, <1>4
<1>6. faults' \in 0..MaxFaults
  BY <1>1, SessionAssumption DEF Fault, Typed
<1>7. Typed'
  BY <1>1, <1>4, <1>6 DEF Typed
<1>8. Waiting'
  BY <1>1 DEF Waiting
<1>9. OnlyEvents => OnlyEvents'
  BY <1>3, <1>4 DEF OnlyEvents
<1>10. ASSUME NEW cmd, NEW kind, kind # "EV", Last(cmd, kind) PROVE Last(cmd, kind)'
  <2>1. \A i \in DOMAIN toSlave' : toSlave'[i].cmd = cmd =>
          i = Len(toSlave') /\ \A j \in DOMAIN toMaster' : toMaster'[j].kind # kind
    BY <1>1, <1>5, <1>10 DEF Last
  <2>2. \A i \in DOMAIN toMaster' : toMaster'[i].kind = kind =>
          toSlave' = <<>> /\ \A j \in DOMAIN toMaster' : j > i => toMaster'[j].kind = "EV"
    BY <1>1, <1>5, <1>10 DEF Last
  <2>. QED  BY <2>1, <2>2 DEF Last
<1>11. Pipe'
  <2>1. Exchange =>
          /\ \A i \in DOMAIN toSlave' : i = 1 /\ Asked(master.wait, toSlave'[i].cmd) /\ OnlyEvents'
          /\ \A i, j \in DOMAIN toMaster' : toMaster'[i].kind # "EV" /\ toMaster'[j].kind # "EV" => i = j
          /\ \A i \in DOMAIN toMaster' : toMaster'[i].kind # "ERR_SYNCH"
    BY <1>1, <1>5, <1>9 DEF Pipe
  <2>2. master.wait # "connect" => \A i \in DOMAIN toMaster' : toMaster'[i].kind # "CONNECTED"
    BY <1>1, <1>5 DEF Pipe
  <2>3. (master.sync => Last("SYNCH", "ERR_SYNCH")') /\ (master.wait = "connect" => Last("CONNECT", "CONNECTED")')
    BY <1>1, <1>10 DEF Pipe
  <2>. QED  BY <1>1, <1>9, <2>1, <2>2, <2>3 DEF Pipe, Exchange
<1>12. Seeds'
  BY <1>1, <1>5 DEF Seeds
<1>13. Keys'
  BY <1>1, <1>5 DEF Keys
<1>14. Statuses'
  BY <1>1, <1>5 DEF Statuses
<1>15. BeliefTrue'
  BY <1>1 DEF BeliefTrue
<1>. QED  BY <1>7, <1>8, <1>11, <1>12, <1>13, <1>14, <1>15 DEF IInv

-----------------------------------------------------------------------------
(* The master asks                                                         *)

LEMMA Asking ==
  ASSUME IInv, NEW c \in Commands, NEW m \in Masters, Send(c, m), master.on,
         Asked(m.wait, c.cmd), ~m.sync, faults' \in 0..MaxFaults
  PROVE  /\ UNCHANGED <<connected, protect, unlock, toMaster>> /\ master' = m
         /\ DOMAIN toSlave' = {1} /\ toSlave'[1] = c
         /\ Typed' /\ Pipe' /\ Statuses' /\ OnlyEvents'
         /\ m.wait \notin {"none", "connect"}
<1>1. Typed /\ Pipe /\ Statuses
  BY DEF IInv
<1>2. /\ UNCHANGED <<connected, protect, unlock, toMaster>> /\ master' = m
      /\ toSlave' = Append(toSlave, c) /\ master.wait = "none"
  BY DEF Send, slave
<1>3. toSlave = <<>> /\ OnlyEvents
  BY <1>1, <1>2 DEF Pipe
<1>4. IsSequence(toSlave') /\ DOMAIN toSlave' = {1} /\ toSlave'[1] = c
  <2>1. IsSequence(toSlave) /\ Len(toSlave) = 0
    BY <1>1, <1>3, EmptySeq DEF Typed
  <2>2. /\ IsSequence(Append(toSlave, c)) /\ DOMAIN Append(toSlave, c) = {1}
        /\ Append(toSlave, c)[1] = c
    BY <2>1, PushedFirst
  <2>. QED  BY <1>2, <2>2
<1>5. m.wait \notin {"none", "connect"} /\ c.cmd # "CONNECT"
  BY DEF Asked
<1>6. Typed'
  BY <1>1, <1>2, <1>4 DEF Typed
<1>7. OnlyEvents'
  BY <1>2, <1>3 DEF OnlyEvents
<1>8. Pipe'
  <2>1. \A i \in DOMAIN toSlave' : i = 1 /\ ~(i > 1) /\ toSlave'[i] = c
    BY <1>4
  <2>. QED  BY <1>2, <1>5, <1>7, <2>1 DEF Pipe, OnlyEvents
<1>9. Statuses'
  BY <1>1, <1>2 DEF Statuses
<1>. QED  BY <1>2, <1>4, <1>5, <1>6, <1>7, <1>8, <1>9

LEMMA AskConnectStep == ASSUME IInv, AskConnect PROVE IInv'
<1>1. /\ Typed /\ Waiting /\ Pipe /\ Seeds /\ Keys /\ Statuses /\ BeliefTrue
      /\ UNCHANGED <<connected, protect, unlock, toMaster, faults>> /\ ~master.on
      /\ master.wait = "none" /\ master' = [master EXCEPT !.wait = "connect"]
  BY DEF IInv, AskConnect, Send, slave
<1>2. PICK c : c = [cmd |-> "CONNECT"]
  OBVIOUS
<1>3. c \in Commands /\ c.cmd = "CONNECT" /\ toSlave' = Append(toSlave, c)
  BY <1>2 DEF Commands, AskConnect, Send
<1>4. /\ master' \in Masters /\ master'.wait = "connect" /\ ~master'.on /\ master'.sync = FALSE
      /\ master'.want = None /\ master'.total = 0 /\ master'.open = {} /\ master'.asm = master.asm
      /\ master'.sent = master.sent /\ master.total = 0
  BY <1>1 DEF Typed, Masters, Waits, Waiting
<1>5. /\ IsSequence(toSlave') /\ Len(toSlave) \in Nat /\ Len(toSlave') = Len(toSlave) + 1
      /\ DOMAIN toSlave = 1..Len(toSlave) /\ DOMAIN toSlave' = 1..Len(toSlave) + 1
      /\ \A i \in DOMAIN toSlave : toSlave'[i] = toSlave[i]
      /\ toSlave'[Len(toSlave) + 1] = c
  BY <1>1, <1>3, Pushed DEF Typed
<1>6. \A i \in DOMAIN toSlave' : \/ i \in DOMAIN toSlave /\ toSlave'[i] = toSlave[i]
                                 \/ i = Len(toSlave') /\ toSlave'[i] = c
  BY <1>5
<1>7. Typed'
  BY <1>1, <1>3, <1>4, <1>5, <1>6 DEF Typed
<1>8. Waiting'
  BY <1>1, <1>4 DEF Waiting
<1>9. Pipe'
  <2>1. \A i \in DOMAIN toSlave : toSlave[i].cmd # "CONNECT"
    BY <1>1 DEF Pipe
  <2>2. \A i \in DOMAIN toMaster' : toMaster'[i].kind # "CONNECTED"
    BY <1>1 DEF Pipe
  <2>3. \A i \in DOMAIN toSlave' : toSlave'[i].cmd = "CONNECT" => i = Len(toSlave')
    BY <1>6, <2>1
  <2>4. Last("CONNECT", "CONNECTED")'
    BY <2>2, <2>3 DEF Last
  <2>5. \A i \in DOMAIN toSlave' : i > 1 => toSlave'[i].cmd \in {"SYNCH", "CONNECT"}
    BY <1>1, <1>3, <1>6 DEF Pipe
  <2>. QED  BY <1>4, <2>4, <2>5 DEF Pipe, Exchange
<1>10. Seeds'
  <2>1. ~(0 > 0)
    OBVIOUS
  <2>. QED  BY <1>3, <1>4, <2>1 DEF Seeds
<1>11. Keys'
  BY <1>1, <1>3, <1>4, <1>6 DEF Keys
<1>12. Statuses' /\ BeliefTrue'
  BY <1>1, <1>4 DEF Statuses, BeliefTrue
<1>. QED  BY <1>7, <1>8, <1>9, <1>10, <1>11, <1>12 DEF IInv

LEMMA AskSeedStep == ASSUME IInv, NEW r \in Goal, AskSeed(r) PROVE IInv'
<1>1. /\ Typed /\ Waiting /\ BeliefTrue /\ r \in Resources /\ r # None /\ master.on
  BY SessionAssumption DEF IInv, AskSeed
<1>2. PICK c : c = [cmd |-> "GET_SEED", mode |-> 0, res |-> r]
  OBVIOUS
<1>3. PICK m : m = [master EXCEPT !.want = r, !.total = 0, !.asm = <<>>, !.sent = 0, !.wait = "seed"]
  OBVIOUS
<1>4. c \in Commands /\ c.cmd = "GET_SEED" /\ c.mode = 0 /\ c.res = r
  BY <1>1, <1>2 DEF Commands
<1>5. Send(c, m) /\ faults' \in 0..MaxFaults
  BY <1>1, <1>2, <1>3, SessionAssumption DEF AskSeed, Fault, Typed
<1>6. /\ m \in Masters /\ m.wait = "seed" /\ m.want = r /\ m.total = 0 /\ m.asm = <<>> /\ m.sent = 0
      /\ m.on /\ m.open = master.open /\ m.sync = FALSE
  <2>1. master.wait = "none" /\ ~master.sync /\ master.sync \in BOOLEAN
    BY <1>1, <1>5 DEF Send, Waiting, Typed, Masters
  <2>2. 0 \in 0..KeyMax /\ 0 \in Nat /\ <<>> \in Seq(Bytes)
    BY KeyMaxType
  <2>. QED  BY <1>1, <1>3, <2>1, <2>2 DEF Typed, Masters, Waits
<1>7. /\ UNCHANGED <<connected, protect, unlock, toMaster>> /\ master' = m
      /\ DOMAIN toSlave' = {1} /\ toSlave'[1] = c
      /\ Typed' /\ Pipe' /\ Statuses' /\ OnlyEvents'
  <2>1. Asked(m.wait, c.cmd)
    BY <1>4, <1>6 DEF Asked
  <2>. QED  BY <1>1, <1>4, <1>5, <1>6, <2>1, Asking
<1>8. ~(0 > 0) /\ Len(<<>>) = 0 /\ 0 <= 0
  OBVIOUS
<1>9. Waiting'
  BY <1>1, <1>6, <1>7, <1>8 DEF Waiting
<1>10. Seeds'
  BY <1>4, <1>6, <1>7, <1>8 DEF Seeds, OnlyEvents
<1>11. Keys'
  BY <1>4, <1>6, <1>7 DEF Keys
<1>12. BeliefTrue'
  BY <1>1, <1>6, <1>7 DEF BeliefTrue
<1>. QED  BY <1>7, <1>9, <1>10, <1>11, <1>12 DEF IInv

\* A master that has something to ask about is in a session.
LEMMA InSession ==
  ASSUME IInv, master.total > 0
  PROVE  /\ master.on /\ master.want # None /\ master.want \in Resources
         /\ master.total \in Nat \ {0} /\ master.sent \in Nat
<1>1. Typed /\ Waiting /\ master.total \in Nat /\ master.total # 0
  BY KeyMaxType DEF IInv, Typed, Masters
<1>. QED  BY <1>1 DEF Waiting, Typed, Masters

\* A question that leaves what the master has of seed and key as it was.
LEMMA AskingOn ==
  ASSUME IInv, NEW c \in Commands, NEW wait \in Waits,
         Send(c, [master EXCEPT !.wait = wait]), master.on,
         Asked(wait, c.cmd), faults' \in 0..MaxFaults,
         wait # "seed",
         wait = "rest" => Len(master.asm) < master.total,
         wait = "key" => Len(master.asm) = master.total /\ master.sent < master.total,
         wait = "status" => master.total > 0,
         wait = "stray" => master.want = None,
         c.cmd = "GET_SEED" => c.mode = 1,
         c.cmd = "UNLOCK" =>
           /\ (Right(c, unlock) /\ KeyGood(unlock)) \/ (c.key = <<Pad>> /\ master.total = 0)
           /\ wait = "key" => /\ c.rem = master.total - master.sent
                              /\ Len(c.key) >= Least(Chunk, c.rem)
  PROVE  IInv'
<1>1. Typed /\ Waiting /\ Seeds /\ BeliefTrue /\ master.wait = "none"
  BY DEF IInv, Send
<1>2. PICK m : m = [master EXCEPT !.wait = wait]
  OBVIOUS
<1>3. /\ m \in Masters /\ m.wait = wait /\ m.on = master.on /\ m.open = master.open /\ m.want = master.want
      /\ m.total = master.total /\ m.asm = master.asm /\ m.sent = master.sent /\ m.sync = master.sync
      /\ ~m.sync
  BY <1>1, <1>2 DEF Typed, Masters, Waiting
<1>4. /\ UNCHANGED <<connected, protect, unlock, toMaster>> /\ master' = m
      /\ DOMAIN toSlave' = {1} /\ toSlave'[1] = c
      /\ Typed' /\ Pipe' /\ Statuses' /\ OnlyEvents' /\ m.wait \notin {"none", "connect"}
  BY <1>2, <1>3, Asking
<1>5. wait \in {"rest", "key", "status", "stray", "bye"}
  BY <1>3, <1>4 DEF Waits
<1>6. Waiting'
  BY <1>1, <1>3, <1>4, <1>5 DEF Waiting
<1>7. Seeds'
  <2>1. wait # "seed"
    BY <1>5
  <2>. QED  BY <1>1, <1>3, <1>4, <2>1 DEF Seeds, OnlyEvents
<1>8. Keys'
  BY <1>3, <1>4 DEF Keys, OnlyEvents
<1>9. BeliefTrue'
  BY <1>1, <1>3, <1>4 DEF BeliefTrue
<1>. QED  BY <1>4, <1>6, <1>7, <1>8, <1>9 DEF IInv

LEMMA AskRestStep == ASSUME IInv, AskRest PROVE IInv'
<1>1. Len(master.asm) < master.total /\ faults' \in 0..MaxFaults /\ master.total > 0
  <2>1. Len(master.asm) \in Nat /\ master.total \in Nat
    BY KeyMaxType, LenProperties DEF IInv, Typed, Masters
  <2>. QED  BY <2>1 DEF AskRest, IInv, Typed
<1>2. PICK c : c = [cmd |-> "GET_SEED", mode |-> 1]
  OBVIOUS
<1>3. c \in Commands /\ c.cmd = "GET_SEED" /\ c.mode = 1 /\ Send(c, [master EXCEPT !.wait = "rest"])
  BY <1>2 DEF Commands, AskRest
<1>4. Asked("rest", c.cmd) /\ "rest" \in Waits
  BY <1>3 DEF Asked, Waits
<1>. QED  BY <1>1, <1>3, <1>4, InSession, AskingOn

LEMMA AskStatusStep == ASSUME IInv, AskStatus PROVE IInv'
<1>1. master.total > 0 /\ faults' \in 0..MaxFaults
  BY DEF AskStatus, IInv, Typed
<1>2. PICK c : c = [cmd |-> "GET_STATUS"]
  OBVIOUS
<1>3. c \in Commands /\ c.cmd = "GET_STATUS" /\ Send(c, [master EXCEPT !.wait = "status"])
  BY <1>2 DEF Commands, AskStatus
<1>4. Asked("status", c.cmd) /\ "status" \in Waits
  BY <1>3 DEF Asked, Waits
<1>. QED  BY <1>1, <1>3, <1>4, InSession, AskingOn

LEMMA AskDisconnectStep == ASSUME IInv, AskDisconnect PROVE IInv'
<1>1. master.on /\ faults' \in 0..MaxFaults
  BY SessionAssumption DEF AskDisconnect, Fault, IInv, Typed
<1>2. PICK c : c = [cmd |-> "DISCONNECT"]
  OBVIOUS
<1>3. c \in Commands /\ c.cmd = "DISCONNECT" /\ Send(c, [master EXCEPT !.wait = "bye"])
  BY <1>2 DEF Commands, AskDisconnect
<1>4. Asked("bye", c.cmd) /\ "bye" \in Waits
  BY <1>3 DEF Asked, Waits
<1>. QED  BY <1>1, <1>3, <1>4, AskingOn

LEMMA StrayStep == ASSUME IInv, Stray PROVE IInv'
<1>1. master.on /\ master.want = None /\ faults' \in 0..MaxFaults /\ Waiting /\ Typed
  BY SessionAssumption DEF Stray, Fault, IInv, Typed
<1>2. master.total = 0
  <2>1. master.total \in Nat
    BY <1>1, KeyMaxType DEF Typed, Masters
  <2>. QED  BY <1>1, <2>1 DEF Waiting
<1>3. PICK c \in {[cmd |-> "GET_SEED", mode |-> 1]} \cup [cmd : {"UNLOCK"}, rem : 0..KeyMax, key : {<<Pad>>}] :
        Send(c, [master EXCEPT !.wait = "stray"])
  BY DEF Stray
<1>4. c \in Commands
  <2>1. CASE c = [cmd |-> "GET_SEED", mode |-> 1]
    BY <2>1 DEF Commands
  <2>2. CASE c \in [cmd : {"UNLOCK"}, rem : 0..KeyMax, key : {<<Pad>>}]
    <3>1. Pad \in Bytes
      BY DEF Pad, Bytes
    <3>2. <<Pad>> \in Seq(Bytes) /\ <<Pad>> # <<>>
      BY <3>1
    <3>. QED  BY <2>2, <3>2 DEF Commands
  <2>. QED  BY <1>3, <2>1, <2>2
<1>5. /\ c.cmd \in {"GET_SEED", "UNLOCK"}
      /\ c.cmd = "GET_SEED" => c.mode = 1
      /\ c.cmd = "UNLOCK" => c.key = <<Pad>>
  BY <1>3
<1>6. Asked("stray", c.cmd) /\ "stray" \in Waits
  BY <1>5 DEF Asked, Waits
<1>. QED  BY <1>1, <1>2, <1>3, <1>4, <1>5, <1>6, AskingOn

\* The parts of the seed come back as the parts of the key.
LEMMA SendKeyStep == ASSUME IInv, SendKey PROVE IInv'
<1>1. /\ Typed /\ Waiting /\ Seeds
      /\ master.total > 0 /\ Len(master.asm) = master.total /\ master.sent < master.total
      /\ faults' \in 0..MaxFaults
  BY DEF SendKey, IInv, Typed
<1>2. PICK rem : rem = master.total - master.sent
  OBVIOUS
<1>3. PICK n : n = Least(Chunk, rem)
  OBVIOUS
<1>4. /\ master.total \in 0..KeyMax /\ master.sent \in Nat /\ KeyMax \in Nat /\ Chunk \in Nat \ {0}
      /\ rem \in 1..KeyMax /\ rem \in 0..KeyMax /\ rem <= master.total
  BY <1>1, <1>2, KeyMaxType, SessionAssumption DEF Typed, Masters
<1>5. n \in Nat \ {0} /\ n <= Chunk /\ n <= rem /\ (n = Chunk \/ n = rem)
  BY <1>3, <1>4 DEF Least
<1>6. PICK size \in {n, Chunk} :
        Send([cmd |-> "UNLOCK", rem |-> rem,
              key |-> [i \in 1..size |-> IF i <= n THEN master.asm[master.sent + i] ELSE Pad]],
             [master EXCEPT !.wait = "key"])
  BY <1>2, <1>3 DEF SendKey
<1>7. size \in Nat \ {0} /\ n <= size
  BY <1>4, <1>5
<1>8. PICK key : key = [i \in 1..size |-> IF i <= n THEN master.asm[master.sent + i] ELSE Pad]
  OBVIOUS
<1>9. key \in Seq(Bytes) /\ Len(key) = size /\ key # <<>>
  <2>1. Pad \in Bytes
    BY DEF Pad, Bytes
  <2>2. ASSUME NEW i \in 1..size, i <= n PROVE master.asm[master.sent + i] \in Bytes
    <3>1. master.sent + i \in 1..Len(master.asm)
      BY <1>1, <1>2, <1>4, <1>5, <2>2
    <3>. QED  BY <1>1, <3>1, ElementOfSeq DEF Typed, Masters
  <2>3. key \in [1..size -> Bytes]
    BY <1>8, <2>1, <2>2
  <2>4. key \in Seq(Bytes) /\ Len(key) = size
    BY <1>7, <2>3, IsASeq, LenProperties
  <2>. QED  BY <1>7, <2>4, EmptySeq
<1>10. PICK c : c = [cmd |-> "UNLOCK", rem |-> rem, key |-> key]
  OBVIOUS
<1>11. c \in Commands /\ c.cmd = "UNLOCK" /\ c.rem = rem /\ c.key = key
  <2>1. c \in [cmd : {"UNLOCK"}, rem : 0..KeyMax, key : Seq(Bytes) \ {<<>>}]
    BY <1>4, <1>9, <1>10
  <2>. QED  BY <1>10, <2>1 DEF Commands
<1>12. Send(c, [master EXCEPT !.wait = "key"])
  BY <1>6, <1>8, <1>10
<1>13. /\ master.total = Len(unlock.seed) /\ KeyGood(unlock)
       /\ \A i \in 1..Len(master.asm) : master.asm[i] = unlock.seed[i]
       /\ unlock.key_len = 0 => master.sent = 0
  BY <1>1 DEF Seeds
<1>14. Right(c, unlock)
  <2>1. c.rem \in 1..Len(unlock.seed)
    BY <1>4, <1>11, <1>13
  <2>2. ASSUME NEW i \in 1..Len(c.key), i <= c.rem
        PROVE  c.key[i] = unlock.seed[Len(unlock.seed) - c.rem + i]
    <3>1. i \in 1..size /\ i <= n
      BY <1>4, <1>5, <1>7, <1>9, <1>11, <2>2
    <3>2. key[i] = master.asm[master.sent + i]
      BY <1>8, <3>1
    <3>3. master.sent + i \in 1..Len(master.asm) /\ master.sent + i = Len(unlock.seed) - c.rem + i
      <4>1. PICK s \in Nat, t \in Nat : s = master.sent /\ t = master.total
        BY <1>4
      <4>2. i \in Nat \ {0} /\ i <= rem /\ rem = t - s /\ rem \in Nat
        BY <1>2, <1>4, <1>5, <1>7, <3>1, <4>1
      <4>3. t - rem = s
        BY <4>1, <4>2
      <4>4. s + i <= t /\ s + i \in Nat \ {0}
        BY <4>1, <4>2
      <4>. QED  BY <1>1, <1>11, <1>13, <4>1, <4>3, <4>4
    <3>. QED  BY <1>11, <1>13, <3>2, <3>3
  <2>3. unlock.key_len = 0 => c.rem = Len(unlock.seed)
    BY <1>2, <1>4, <1>11, <1>13
  <2>. QED  BY <2>1, <2>2, <2>3 DEF Right
<1>15. Len(c.key) >= Least(Chunk, c.rem)
  BY <1>3, <1>5, <1>7, <1>9, <1>11
<1>16. Asked("key", c.cmd) /\ "key" \in Waits
  BY <1>11 DEF Asked, Waits
<1>. QED  BY <1>1, <1>2, <1>11, <1>12, <1>13, <1>14, <1>15, <1>16, InSession, AskingOn

-----------------------------------------------------------------------------
(* The master listens                                                      *)

\* The first answer or event is taken away, heard or lost.
Gone == toMaster # <<>> /\ toMaster' = Tail(toMaster)

LEMMA GoneQueue ==
  ASSUME IInv, Gone
  PROVE  /\ 1 \in DOMAIN toMaster /\ Head(toMaster) = toMaster[1] /\ Head(toMaster) \in Answers
         /\ IsSequence(toMaster')
         /\ \A i \in DOMAIN toMaster' : /\ i \in Nat \ {0} /\ i + 1 \in DOMAIN toMaster
                                        /\ toMaster'[i] = toMaster[i + 1] /\ toMaster'[i] \in Answers
<1>1. IsSequence(toMaster) /\ \A i \in DOMAIN toMaster : toMaster[i] \in Answers
  BY DEF IInv, Typed
<1>2. /\ IsSequence(toMaster') /\ 1 \in DOMAIN toMaster /\ Head(toMaster) = toMaster[1]
      /\ Len(toMaster) \in Nat \ {0} /\ DOMAIN toMaster' = 1..Len(toMaster) - 1
      /\ \A i \in DOMAIN toMaster' : i + 1 \in DOMAIN toMaster /\ toMaster'[i] = toMaster[i + 1]
  BY <1>1, Popped DEF Gone
<1>3. \A i \in DOMAIN toMaster' : i \in Nat \ {0}
  BY <1>2
<1>. QED  BY <1>1, <1>2, <1>3

\* The master learns nothing from it.
LEMMA GoneStep ==
  ASSUME IInv, Gone, UNCHANGED <<connected, protect, unlock, toSlave, master>>, faults' \in 0..MaxFaults
  PROVE  IInv'
<1>1. Typed /\ Waiting /\ Pipe /\ Seeds /\ Keys /\ Statuses /\ BeliefTrue
  BY DEF IInv
<1>2. /\ IsSequence(toMaster')
      /\ \A i \in DOMAIN toMaster' : /\ i \in Nat \ {0} /\ i + 1 \in DOMAIN toMaster
                                     /\ toMaster'[i] = toMaster[i + 1] /\ toMaster'[i] \in Answers
  BY GoneQueue
<1>3. Typed'
  BY <1>1, <1>2 DEF Typed
<1>4. Waiting'
  BY <1>1 DEF Waiting
<1>5. OnlyEvents => OnlyEvents'
  BY <1>2 DEF OnlyEvents
<1>6. ASSUME NEW cmd, NEW kind, Last(cmd, kind) PROVE Last(cmd, kind)'
  <2>1. \A i \in DOMAIN toSlave' : toSlave'[i].cmd = cmd =>
          i = Len(toSlave') /\ \A j \in DOMAIN toMaster' : toMaster'[j].kind # kind
    BY <1>2, <1>6 DEF Last
  <2>2. ASSUME NEW i \in DOMAIN toMaster', toMaster'[i].kind = kind
        PROVE  toSlave' = <<>> /\ \A j \in DOMAIN toMaster' : j > i => toMaster'[j].kind = "EV"
    <3>1. i + 1 \in DOMAIN toMaster /\ toMaster[i + 1].kind = kind /\ i \in Nat
      BY <1>2, <2>2
    <3>2. toSlave = <<>> /\ \A j \in DOMAIN toMaster : j > i + 1 => toMaster[j].kind = "EV"
      BY <1>6, <3>1 DEF Last
    <3>3. \A j \in DOMAIN toMaster' : j > i => j + 1 > i + 1
      BY <1>2, <3>1
    <3>. QED  BY <1>2, <3>2, <3>3
  <2>. QED  BY <2>1, <2>2 DEF Last
<1>7. Pipe'
  <2>1. ASSUME Exchange
        PROVE  /\ \A i \in DOMAIN toSlave' : i = 1 /\ Asked(master.wait, toSlave'[i].cmd) /\ OnlyEvents'
               /\ \A i, j \in DOMAIN toMaster' : toMaster'[i].kind # "EV" /\ toMaster'[j].kind # "EV" => i = j
               /\ \A i \in DOMAIN toMaster' : toMaster'[i].kind # "ERR_SYNCH"
    <3>1. ASSUME NEW i \in DOMAIN toMaster', NEW j \in DOMAIN toMaster',
                 toMaster'[i].kind # "EV", toMaster'[j].kind # "EV"
          PROVE  i = j
      <4>1. i + 1 = j + 1
        BY <1>1, <1>2, <2>1, <3>1 DEF Pipe
      <4>. QED  BY <1>2, <4>1
    <3>. QED  BY <1>1, <1>2, <1>5, <2>1, <3>1 DEF Pipe
  <2>2. master.wait # "connect" => \A i \in DOMAIN toMaster' : toMaster'[i].kind # "CONNECTED"
    BY <1>1, <1>2 DEF Pipe
  <2>3. (master.sync => Last("SYNCH", "ERR_SYNCH")') /\ (master.wait = "connect" => Last("CONNECT", "CONNECTED")')
    BY <1>1, <1>6 DEF Pipe
  <2>. QED  BY <1>1, <1>5, <2>1, <2>2, <2>3 DEF Pipe, Exchange
<1>8. Seeds'
  BY <1>1, <1>2 DEF Seeds
<1>9. Keys'
  BY <1>1, <1>2 DEF Keys
<1>10. Statuses'
  BY <1>1, <1>2 DEF Statuses
<1>11. BeliefTrue'
  BY <1>1 DEF BeliefTrue
<1>. QED  BY <1>3, <1>4, <1>7, <1>8, <1>9, <1>10, <1>11 DEF IInv

LEMMA IdleType ==
  /\ Idle \in Masters /\ ~Idle.on /\ Idle.open = {} /\ Idle.want = None /\ Idle.total = 0 /\ Idle.asm = <<>>
  /\ Idle.sent = 0 /\ Idle.wait = "none" /\ ~Idle.sync
<1>1. 0 \in 0..KeyMax /\ 0 \in Nat /\ <<>> \in Seq(Bytes)
  BY KeyMaxType
<1>. QED  BY <1>1 DEF Idle, Masters, Waits

\* The master gives the session up.
LEMMA IdleStep ==
  ASSUME IInv, Gone \/ UNCHANGED toMaster, UNCHANGED <<connected, protect, unlock, toSlave>>,
         master' = Idle, faults' \in 0..MaxFaults,
         master.wait # "connect" \/ (toSlave = <<>> /\ toMaster = <<>> /\ UNCHANGED toMaster)
  PROVE  IInv'
<1>1. Typed /\ Waiting /\ Pipe /\ Seeds /\ Keys /\ Statuses
  BY DEF IInv
<1>2. /\ IsSequence(toMaster')
      /\ \A i \in DOMAIN toMaster' : toMaster'[i] \in Answers /\ \E j \in DOMAIN toMaster : toMaster'[i] = toMaster[j]
  BY <1>1, GoneQueue DEF Typed
<1>3. /\ Idle \in Masters /\ ~Idle.on /\ Idle.open = {} /\ Idle.want = None /\ Idle.total = 0 /\ Idle.asm = <<>>
      /\ Idle.sent = 0 /\ Idle.wait = "none" /\ ~Idle.sync
  BY IdleType
<1>4. ~(0 > 0) /\ Len(<<>>) = 0 /\ 0 <= 0
  OBVIOUS
<1>5. Typed'
  BY <1>1, <1>2, <1>3 DEF Typed
<1>6. Waiting'
  BY <1>3, <1>4 DEF Waiting
<1>7. /\ \A i \in DOMAIN toSlave : toSlave[i].cmd # "CONNECT"
      /\ \A i \in DOMAIN toMaster' : toMaster'[i].kind # "CONNECTED"
  <2>1. CASE master.wait # "connect"
    BY <1>1, <1>2, <2>1 DEF Pipe
  <2>2. CASE toSlave = <<>> /\ toMaster = <<>> /\ UNCHANGED toMaster
    <3>1. DOMAIN toSlave = {} /\ DOMAIN toMaster' = {}
      BY <1>1, <2>2, Nonempty DEF Typed
    <3>. QED  BY <3>1
  <2>. QED  BY <2>1, <2>2
<1>8. Pipe'
  BY <1>1, <1>3, <1>7 DEF Pipe, Exchange
<1>9. Seeds'
  BY <1>1, <1>3, <1>4 DEF Seeds
<1>10. Keys'
  <2>1. \A i \in DOMAIN toSlave : toSlave[i].cmd = "UNLOCK" =>
          (Right(toSlave[i], unlock) /\ KeyGood(unlock)) \/ toSlave[i].key = <<Pad>>
    BY <1>1 DEF Keys
  <2>. QED  BY <1>3, <2>1 DEF Keys
<1>11. Statuses'
  BY <1>1, <1>2 DEF Statuses
<1>12. BeliefTrue'
  BY <1>3 DEF BeliefTrue
<1>. QED  BY <1>5, <1>6, <1>8, <1>9, <1>10, <1>11, <1>12 DEF IInv

\* The master has what it waited for: nothing but events is left under way.
LEMMA FinishStep ==
  ASSUME IInv, Gone, UNCHANGED <<connected, protect, unlock, toSlave, faults>>,
         toSlave = <<>>, OnlyEvents', master' \in Masters, master'.wait = "none", ~master'.sync,
         Waiting', BeliefTrue',
         master'.total > 0 =>
           /\ unlock.res = master'.want /\ master'.total = Len(unlock.seed) /\ KeyGood(unlock)
           /\ \A i \in 1..Len(master'.asm) : master'.asm[i] = unlock.seed[i]
           /\ unlock.key_len = 0 => master'.sent = 0
  PROVE  IInv'
<1>1. Typed
  BY DEF IInv
<1>2. DOMAIN toSlave' = {}
  BY <1>1, Nonempty DEF Typed
<1>3. Typed'
  BY <1>1, <1>2, GoneQueue DEF Typed
<1>4. Pipe'
  BY <1>2 DEF Pipe, Exchange, OnlyEvents
<1>5. Seeds'
  BY <1>2 DEF Seeds, OnlyEvents
<1>6. Keys'
  BY <1>2 DEF Keys
<1>7. Statuses'
  BY DEF Statuses, OnlyEvents
<1>. QED  BY <1>3, <1>4, <1>5, <1>6, <1>7 DEF IInv

\* That is so when the answer of an exchange, or the one that ends a
\* resynchronisation or starts a session, is heard.
LEMMA HeardLast ==
  ASSUME IInv, Gone, NEW e, e = Head(toMaster), e.kind # "EV",
         Exchange \/ (master.sync /\ e.kind = "ERR_SYNCH")
                  \/ (master.wait = "connect" /\ e.kind = "CONNECTED")
  PROVE  toSlave = <<>> /\ OnlyEvents'
<1>1. /\ 1 \in DOMAIN toMaster /\ e = toMaster[1]
      /\ \A i \in DOMAIN toMaster' : /\ i \in Nat \ {0} /\ i + 1 \in DOMAIN toMaster
                                     /\ toMaster'[i] = toMaster[i + 1]
  BY GoneQueue
<1>2. Pipe /\ IsSequence(toSlave)
  BY DEF IInv, Typed
<1>3. CASE Exchange
  <2>1. DOMAIN toSlave = {}
    BY <1>1, <1>2, <1>3 DEF Pipe, OnlyEvents
  <2>2. toSlave = <<>>
    BY <1>2, <2>1, Nonempty
  <2>3. ASSUME NEW i \in DOMAIN toMaster', toMaster'[i].kind # "EV" PROVE FALSE
    <3>1. i + 1 = 1
      BY <1>1, <1>2, <1>3, <2>3 DEF Pipe
    <3>. QED  BY <1>1, <3>1
  <2>. QED  BY <2>2, <2>3 DEF OnlyEvents
<1>4. ASSUME NEW cmd, Last(cmd, e.kind) PROVE toSlave = <<>> /\ OnlyEvents'
  <2>1. toSlave = <<>> /\ \A j \in DOMAIN toMaster : j > 1 => toMaster[j].kind = "EV"
    BY <1>1, <1>4 DEF Last
  <2>2. \A i \in DOMAIN toMaster' : i + 1 > 1
    BY <1>1
  <2>. QED  BY <1>1, <2>1, <2>2 DEF OnlyEvents
<1>5. CASE master.sync /\ e.kind = "ERR_SYNCH"
  BY <1>2, <1>4, <1>5 DEF Pipe
<1>6. CASE master.wait = "connect" /\ e.kind = "CONNECTED"
  BY <1>2, <1>4, <1>6 DEF Pipe
<1>. QED  BY <1>3, <1>5, <1>6

\* The ways to end a wait.
LEMMA Ends ==
  ASSUME IInv, NEW m \in Masters, m = master
  PROVE  /\ /\ Done(m) \in Masters /\ Done(m).on = m.on /\ Done(m).open = m.open /\ Done(m).want = m.want
            /\ Done(m).total = m.total /\ Done(m).asm = m.asm /\ Done(m).sent = m.sent
            /\ Done(m).wait = "none" /\ Done(m).sync = m.sync
         /\ /\ Restart(m) \in Masters /\ Restart(m).on = m.on /\ Restart(m).open = m.open
            /\ Restart(m).want = None /\ Restart(m).total = 0 /\ Restart(m).asm = <<>>
            /\ Restart(m).sent = 0 /\ Restart(m).wait = "none" /\ Restart(m).sync = m.sync
         /\ m.want # None =>
            /\ Opened(m) \in Masters /\ Opened(m).on = m.on /\ Opened(m).open = m.open \cup {m.want}
            /\ Opened(m).want = None /\ Opened(m).total = 0 /\ Opened(m).asm = <<>>
            /\ Opened(m).sent = 0 /\ Opened(m).wait = "none" /\ Opened(m).sync = m.sync
<1>1. 0 \in 0..KeyMax /\ 0 \in Nat /\ <<>> \in Seq(Bytes) /\ "none" \in Waits
  BY KeyMaxType DEF Waits
<1>2. /\ Done(m) \in Masters /\ Done(m).on = m.on /\ Done(m).open = m.open /\ Done(m).want = m.want
      /\ Done(m).total = m.total /\ Done(m).asm = m.asm /\ Done(m).sent = m.sent
      /\ Done(m).wait = "none" /\ Done(m).sync = m.sync
  BY <1>1 DEF Done, Masters
<1>3. /\ Restart(m) \in Masters /\ Restart(m).on = m.on /\ Restart(m).open = m.open
      /\ Restart(m).want = None /\ Restart(m).total = 0 /\ Restart(m).asm = <<>>
      /\ Restart(m).sent = 0 /\ Restart(m).wait = "none" /\ Restart(m).sync = m.sync
  BY <1>1 DEF Restart, Masters
<1>4. ASSUME m.want # None
      PROVE  /\ Opened(m) \in Masters /\ Opened(m).on = m.on /\ Opened(m).open = m.open \cup {m.want}
             /\ Opened(m).want = None /\ Opened(m).total = 0 /\ Opened(m).asm = <<>>
             /\ Opened(m).sent = 0 /\ Opened(m).wait = "none" /\ Opened(m).sync = m.sync
  <2>1. m.want \in Resources
    BY <1>4 DEF Masters
  <2>. QED  BY <1>3, <2>1 DEF Opened, Masters
<1>. QED  BY <1>2, <1>3, <1>4

\* A sequence goes on as another one does.
LEMMA Continued ==
  ASSUME NEW a \in Seq(Bytes), NEW d \in Seq(Bytes), NEW s,
         \A i \in 1..Len(a) : a[i] = s[i],
         \A i \in 1..Len(d) : d[i] = s[Len(a) + i]
  PROVE  /\ a \o d \in Seq(Bytes) /\ Len(a \o d) = Len(a) + Len(d)
         /\ \A i \in 1..Len(a \o d) : (a \o d)[i] = s[i]
<1>1. /\ a \o d \in Seq(Bytes) /\ Len(a \o d) = Len(a) + Len(d)
      /\ \A i \in 1..Len(a) + Len(d) : (a \o d)[i] = IF i <= Len(a) THEN a[i] ELSE d[i - Len(a)]
      /\ Len(a) \in Nat /\ Len(d) \in Nat
  BY ConcatProperties, LenProperties
<1>2. ASSUME NEW i \in 1..Len(a) + Len(d) PROVE (a \o d)[i] = s[i]
  <2>1. CASE i <= Len(a)
    BY <1>1, <2>1
  <2>2. CASE ~(i <= Len(a))
    <3>1. i - Len(a) \in 1..Len(d) /\ Len(a) + (i - Len(a)) = i
      BY <1>1, <2>2
    <3>. QED  BY <1>1, <2>2, <3>1
  <2>. QED  BY <2>1, <2>2
<1>. QED  BY <1>1, <1>2

\* What a master m makes of an answer e that it waits for.
Synched(m) == [Done(m) EXCEPT !.sync = FALSE]
Begun == [Idle EXCEPT !.on = TRUE]
First(m, e) == [Done(m) EXCEPT !.total = e.rem, !.asm = e.data]
More(m, e) == [Done(m) EXCEPT !.asm = @ \o e.data]
Further(m) == [Done(m) EXCEPT !.sent = @ + Chunk]
Back(m, e) == [Done(m) EXCEPT !.sent = m.total - e.rem]

\* What may become of a master m that hears e.
Learns(m, e, l) ==
  \/ e.kind = "EV" /\ m.wait # "connect" /\ l = Idle
  \/ m.sync /\ e.kind = "ERR_SYNCH" /\ l = Synched(m)
  \/ ~m.sync /\ m.wait = "connect" /\ e.kind = "CONNECTED" /\ l = Begun
  \/ /\ ~m.sync /\ m.wait = "seed" /\ e.kind = "SEED"
     /\ l = First(m, e)
  \/ /\ ~m.sync /\ m.wait = "rest" /\ e.kind = "SEED" /\ e.rem = m.total - Len(m.asm)
     /\ l = More(m, e)
  \/ ~m.sync /\ m.wait \in {"rest", "key", "status"} /\ e.kind # "EV" /\ l = Restart(m)
  \/ /\ ~m.sync /\ m.wait = "key" /\ e.kind = "RES" /\ m.total - m.sent <= Chunk
     /\ l = Opened(m)
  \/ /\ ~m.sync /\ m.wait = "key" /\ e.kind = "RES" /\ ~(m.total - m.sent <= Chunk)
     /\ l = Further(m)
  \/ /\ ~m.sync /\ m.wait = "key" /\ e.kind = "ERR_SEQUENCE" /\ e.rem <= m.total
     /\ l = Back(m, e)
  \/ /\ ~m.sync /\ m.wait = "status" /\ e.kind = "STATUS" /\ m.want \notin e.protect
     /\ l = Opened(m)
  \/ ~m.sync /\ m.wait = "bye" /\ e.kind = "RES" /\ l = Idle
  \/ ~m.sync /\ m.wait = "stray" /\ e.kind # "EV" /\ l = Done(m)
  \/ l = m

LEMMA Learned == ASSUME NEW m \in Masters, NEW e \in Answers PROVE Learns(m, e, Learn(m, e))
<1>. USE DEF Learn, Learns, Synched, Begun, First, More, Further, Back
<1>1. CASE e.kind = "EV"
  BY <1>1
<1>2. CASE e.kind # "EV" /\ m.sync
  BY <1>2
<1>3. CASE ~m.sync /\ m.wait = "connect"
  BY <1>3
<1>4. CASE e.kind # "EV" /\ ~m.sync /\ m.wait = "seed"
  BY <1>4
<1>5. CASE e.kind # "EV" /\ ~m.sync /\ m.wait = "rest"
  <2>1. Done(m).asm = m.asm
    BY DEF Done, Masters
  <2>. QED  BY <1>5, <2>1
<1>6. CASE e.kind # "EV" /\ ~m.sync /\ m.wait = "key"
  BY <1>6
<1>7. CASE e.kind # "EV" /\ ~m.sync /\ m.wait = "status"
  BY <1>7
<1>8. CASE e.kind # "EV" /\ ~m.sync /\ m.wait \in {"none", "bye", "stray"}
  BY <1>8
<1>9. m.wait \in {"none", "connect", "seed", "rest", "key", "status", "bye", "stray"}
  BY DEF Masters, Waits
<1>. HIDE DEF Learn, Learns
<1>. QED  BY <1>1, <1>2, <1>3, <1>4, <1>5, <1>6, <1>7, <1>8, <1>9

LEMMA HearStep == ASSUME IInv, Hear PROVE IInv'
<1>1. /\ Typed /\ Waiting /\ Pipe /\ Seeds /\ Keys /\ Statuses /\ BeliefTrue
      /\ Gone /\ UNCHANGED <<connected, protect, unlock, toSlave, faults>> /\ faults' \in 0..MaxFaults
  BY DEF IInv, Hear, Gone, slave, Typed
<1>2. PICK e \in Answers : e = Head(toMaster) /\ 1 \in DOMAIN toMaster /\ e = toMaster[1]
  BY <1>1, GoneQueue
<1>3. PICK m \in Masters : m = master
  BY <1>1 DEF Typed
<1>4. master' = Learn(m, e)
  BY <1>2, <1>3 DEF Hear
<1>5. /\ m.total \in 0..KeyMax /\ m.total \in Nat /\ m.sent \in Nat /\ Chunk \in Nat \ {0} /\ KeyMax \in Nat
      /\ m.asm \in Seq(Bytes) /\ Len(m.asm) \in Nat /\ ~(0 > 0) /\ Len(<<>>) = 0 /\ 0 <= 0 /\ 0 \in 0..KeyMax
  BY KeyMaxType, SessionAssumption, LenProperties DEF Masters
<1>6. m.total > 0 => m.want # None
  BY <1>1, <1>3 DEF Waiting
<1>7. /\ /\ Done(m) \in Masters /\ Done(m).on = m.on /\ Done(m).open = m.open /\ Done(m).want = m.want
         /\ Done(m).total = m.total /\ Done(m).asm = m.asm /\ Done(m).sent = m.sent
         /\ Done(m).wait = "none" /\ Done(m).sync = m.sync
      /\ /\ Restart(m) \in Masters /\ Restart(m).on = m.on /\ Restart(m).open = m.open
         /\ Restart(m).want = None /\ Restart(m).total = 0 /\ Restart(m).asm = <<>>
         /\ Restart(m).sent = 0 /\ Restart(m).wait = "none" /\ Restart(m).sync = m.sync
      /\ m.want # None =>
         /\ Opened(m) \in Masters /\ Opened(m).on = m.on /\ Opened(m).open = m.open \cup {m.want}
         /\ Opened(m).want = None /\ Opened(m).total = 0 /\ Opened(m).asm = <<>>
         /\ Opened(m).sent = 0 /\ Opened(m).wait = "none" /\ Opened(m).sync = m.sync
  BY <1>3, Ends
<1>8. ASSUME ~m.sync, m.wait \in {"seed", "rest", "key", "status", "bye", "stray"}, e.kind # "EV"
      PROVE  toSlave = <<>> /\ OnlyEvents' /\ m.on
  <2>1. Exchange
    BY <1>3, <1>8 DEF Exchange
  <2>. QED  BY <1>1, <1>2, <1>3, <1>8, <2>1, HeardLast DEF Waiting
<1>9. m.open \cap protect = {}
  BY <1>1, <1>3 DEF BeliefTrue
<1>10. m.total > 0 =>
         /\ unlock.res = m.want /\ m.total = Len(unlock.seed) /\ KeyGood(unlock)
         /\ \A i \in 1..Len(m.asm) : m.asm[i] = unlock.seed[i]
         /\ unlock.key_len = 0 => m.sent = 0
  BY <1>1, <1>3 DEF Seeds
<1>11. Len(m.asm) <= m.total /\ m.sent <= m.total
  BY <1>1, <1>3 DEF Waiting
<1>12. CASE e.kind = "EV" /\ m.wait # "connect" /\ master' = Idle
  BY <1>1, <1>3, <1>12, IdleStep
<1>13. CASE m.sync /\ e.kind = "ERR_SYNCH" /\ master' = Synched(m)
  <2>1. toSlave = <<>> /\ OnlyEvents'
    BY <1>1, <1>2, <1>3, <1>13, HeardLast
  <2>2. /\ master' \in Masters /\ master'.on = m.on /\ master'.open = m.open /\ master'.want = m.want
        /\ master'.total = m.total /\ master'.asm = m.asm /\ master'.sent = m.sent
        /\ master'.wait = "none" /\ ~master'.sync
    BY <1>7, <1>13 DEF Masters, Synched
  <2>3. m.on
    BY <1>1, <1>3, <1>13 DEF Waiting
  <2>4. Waiting' /\ BeliefTrue'
    BY <1>1, <1>6, <1>9, <1>11, <2>2, <2>3 DEF Waiting, BeliefTrue
  <2>. QED  BY <1>1, <1>10, <2>1, <2>2, <2>4, FinishStep
<1>14. CASE m.wait = "connect" /\ e.kind = "CONNECTED" /\ master' = Begun
  <2>1. toSlave = <<>> /\ OnlyEvents'
    BY <1>1, <1>2, <1>3, <1>14, HeardLast
  <2>2. /\ master' \in Masters /\ master'.on /\ master'.open = {} /\ master'.want = None
        /\ master'.total = 0 /\ master'.asm = <<>> /\ master'.sent = 0
        /\ master'.wait = "none" /\ ~master'.sync
    BY <1>14, IdleType DEF Masters, Begun
  <2>3. Waiting' /\ BeliefTrue'
    BY <1>5, <2>2 DEF Waiting, BeliefTrue
  <2>. QED  BY <1>1, <1>5, <2>1, <2>2, <2>3, FinishStep
<1>15. CASE ~m.sync /\ m.wait = "seed" /\ e.kind = "SEED" /\ master' = First(m, e)
  <2>1. toSlave = <<>> /\ OnlyEvents' /\ m.on
    BY <1>8, <1>15
  <2>2. e.rem \in 0..KeyMax /\ e.data \in Seq(Bytes)
    BY <1>15 DEF Answers
  <2>3. /\ master' \in Masters /\ master'.on = m.on /\ master'.open = m.open /\ master'.want = m.want
        /\ master'.total = e.rem /\ master'.asm = e.data /\ master'.sent = m.sent
        /\ master'.wait = "none" /\ ~master'.sync
    BY <1>7, <1>15, <2>2 DEF Masters, First
  <2>4. /\ Part(e, unlock.seed) /\ unlock.res = m.want /\ e.rem = Len(unlock.seed)
        /\ unlock.key_len = 0 /\ unlock.key_rem = 0
    BY <1>1, <1>2, <1>3, <1>15 DEF Seeds
  <2>5. m.want # None /\ m.sent = 0
    <3>1. m.total = 0 /\ m.want # None
      BY <1>1, <1>3, <1>15 DEF Waiting
    <3>. QED  BY <1>5, <1>11, <3>1
  <2>6. Len(e.data) <= e.rem /\ \A i \in 1..Len(e.data) : e.data[i] = unlock.seed[i]
    <3>1. \A i \in 1..Len(e.data) : e.data[i] = unlock.seed[Len(unlock.seed) - e.rem + i]
      BY <2>4 DEF Part
    <3>2. \A i \in 1..Len(e.data) : Len(unlock.seed) - e.rem + i = i
      BY <2>2, <2>4, <1>5
    <3>. QED  BY <2>4, <3>1, <3>2 DEF Part
  <2>7. 0 <= e.rem
    BY <2>2
  <2>8. Waiting' /\ BeliefTrue'
    BY <1>1, <1>9, <2>1, <2>3, <2>5, <2>6, <2>7 DEF Waiting, BeliefTrue
  <2>9. KeyGood(unlock)
    <3>1. \A i : i \notin 1..0 - 0
      OBVIOUS
    <3>. QED  BY <2>4, <3>1 DEF KeyGood
  <2>. QED  BY <1>1, <2>1, <2>3, <2>4, <2>5, <2>6, <2>8, <2>9, FinishStep
<1>16. CASE /\ ~m.sync /\ m.wait = "rest" /\ e.kind = "SEED" /\ e.rem = m.total - Len(m.asm)
            /\ master' = More(m, e)
  <2>1. toSlave = <<>> /\ OnlyEvents' /\ m.on
    BY <1>8, <1>16
  <2>2. e.data \in Seq(Bytes) /\ Len(e.data) \in Nat
    BY <1>16, LenProperties DEF Answers
  <2>3. PICK asm : asm = m.asm \o e.data
    OBVIOUS
  <2>4. m.total > 0
    <3>1. Len(m.asm) < m.total
      BY <1>1, <1>3, <1>16 DEF Waiting
    <3>. QED  BY <1>5, <3>1
  <2>5. Part(e, unlock.seed)
    BY <1>1, <1>2, <1>3, <1>16 DEF Seeds
  <2>6. /\ Len(e.data) <= e.rem
        /\ \A i \in 1..Len(e.data) : e.data[i] = unlock.seed[Len(m.asm) + i]
    <3>1. PICK a \in Nat, s \in Nat : a = Len(m.asm) /\ s = Len(unlock.seed)
      BY <1>5, <1>10, <2>4
    <3>2. e.rem = s - a
      BY <1>10, <1>16, <2>4, <3>1
    <3>3. s - e.rem = a
      BY <3>1, <3>2
    <3>. QED  BY <2>5, <3>1, <3>3 DEF Part
  <2>7. /\ asm \in Seq(Bytes) /\ Len(asm) = Len(m.asm) + Len(e.data)
        /\ \A i \in 1..Len(asm) : asm[i] = unlock.seed[i]
    <3>1. PICK a \in Seq(Bytes), d \in Seq(Bytes) : a = m.asm /\ d = e.data
      BY <1>5, <2>2
    <3>2. PICK s : s = unlock.seed
      OBVIOUS
    <3>3. /\ \A i \in 1..Len(a) : a[i] = s[i]
          /\ \A i \in 1..Len(d) : d[i] = s[Len(a) + i]
      BY <1>10, <2>4, <2>6, <3>1, <3>2
    <3>4. /\ a \o d \in Seq(Bytes) /\ Len(a \o d) = Len(a) + Len(d)
          /\ \A i \in 1..Len(a \o d) : (a \o d)[i] = s[i]
      <4>1. \A i \in 1..Len(a) : a[i] = s[i]
        BY <3>3
      <4>2. \A i \in 1..Len(d) : d[i] = s[Len(a) + i]
        BY <3>3
      <4>. QED  BY <4>1, <4>2, Continued, SMTT(30)
    <3>. QED  BY <2>3, <3>1, <3>2, <3>4
  <2>8. Len(asm) <= m.total
    <3>1. PICK a \in Nat, d \in Nat, s \in Nat : a = Len(m.asm) /\ d = Len(e.data) /\ s = m.total
      BY <1>5, <2>2
    <3>2. d <= s - a
      BY <1>16, <2>6, <3>1
    <3>3. a + d <= s
      BY <3>2
    <3>4. Len(asm) = a + d
      BY <2>7, <3>1
    <3>. QED  BY <3>1, <3>3, <3>4
  <2>9. /\ master' \in Masters /\ master'.on = m.on /\ master'.open = m.open /\ master'.want = m.want
        /\ master'.total = m.total /\ master'.asm = asm /\ master'.sent = m.sent
        /\ master'.wait = "none" /\ ~master'.sync
    BY <1>7, <1>16, <2>3, <2>7 DEF Masters, More
  <2>10. Waiting' /\ BeliefTrue'
    BY <1>1, <1>6, <1>9, <1>11, <2>1, <2>8, <2>9 DEF Waiting, BeliefTrue
  <2>. QED  BY <1>1, <1>10, <2>1, <2>7, <2>9, <2>10, FinishStep
<1>17. CASE ~m.sync /\ m.wait \in {"rest", "key", "status"} /\ e.kind # "EV" /\ master' = Restart(m)
  <2>1. toSlave = <<>> /\ OnlyEvents' /\ m.on
    BY <1>8, <1>17
  <2>2. Waiting' /\ BeliefTrue'
    BY <1>5, <1>7, <1>9, <1>1, <1>17, <2>1 DEF Waiting, BeliefTrue
  <2>. QED  BY <1>1, <1>5, <1>7, <1>17, <2>1, <2>2, FinishStep
<1>18. CASE ~m.sync /\ m.wait \in {"key", "status"} /\ e.kind # "EV" /\ m.want \notin protect /\ master' = Opened(m)
  <2>1. toSlave = <<>> /\ OnlyEvents' /\ m.on
    BY <1>8, <1>18
  <2>2. m.want # None
    <3>1. m.total > 0
      BY <1>1, <1>3, <1>5, <1>18 DEF Waiting
    <3>. QED  BY <1>6, <3>1
  <2>3. /\ master' \in Masters /\ master'.on /\ master'.open = m.open \cup {m.want}
        /\ master'.want = None /\ master'.total = 0 /\ master'.asm = <<>>
        /\ master'.sent = 0 /\ master'.wait = "none" /\ ~master'.sync
    BY <1>7, <1>18, <2>1, <2>2
  <2>4. Waiting' /\ BeliefTrue'
    BY <1>1, <1>5, <1>9, <1>18, <2>3 DEF Waiting, BeliefTrue
  <2>. QED  BY <1>1, <1>5, <2>1, <2>3, <2>4, FinishStep
<1>19. ASSUME ~m.sync, m.wait = "key", e.kind \in {"RES", "ERR_SEQUENCE"},
              NEW sent \in Nat, sent <= m.total, master' = [Done(m) EXCEPT !.sent = sent]
       PROVE  IInv'
  <2>1. toSlave = <<>> /\ OnlyEvents' /\ m.on
    BY <1>8, <1>19
  <2>2. /\ master' \in Masters /\ master'.on = m.on /\ master'.open = m.open /\ master'.want = m.want
        /\ master'.total = m.total /\ master'.asm = m.asm /\ master'.sent = sent
        /\ master'.wait = "none" /\ ~master'.sync
    BY <1>7, <1>19 DEF Masters
  <2>3. unlock.key_len # 0
    BY <1>1, <1>2, <1>3, <1>19 DEF Keys
  <2>4. Waiting' /\ BeliefTrue'
    BY <1>1, <1>6, <1>9, <1>11, <1>19, <2>1, <2>2 DEF Waiting, BeliefTrue
  <2>. QED  BY <1>1, <1>10, <2>1, <2>2, <2>3, <2>4, FinishStep
<1>20. CASE ~m.sync /\ m.wait = "bye" /\ e.kind = "RES" /\ master' = Idle
  BY <1>1, <1>3, <1>20, IdleStep
<1>21. CASE ~m.sync /\ m.wait = "stray" /\ e.kind # "EV" /\ master' = Done(m)
  <2>1. toSlave = <<>> /\ OnlyEvents' /\ m.on
    BY <1>8, <1>21
  <2>2. Waiting' /\ BeliefTrue'
    BY <1>1, <1>6, <1>7, <1>9, <1>11, <1>21, <2>1 DEF Waiting, BeliefTrue
  <2>. QED  BY <1>1, <1>7, <1>10, <1>21, <2>1, <2>2, FinishStep
<1>22. CASE master' = m
  BY <1>1, <1>3, <1>22, GoneStep
<1>23. CASE ~m.sync /\ m.wait = "key" /\ e.kind = "RES" /\ m.total - m.sent <= Chunk /\ master' = Opened(m)
  <2>1. m.want \notin protect
    BY <1>1, <1>2, <1>3, <1>23 DEF Keys
  <2>. QED  BY <1>18, <1>23, <2>1
<1>24. CASE ~m.sync /\ m.wait = "status" /\ e.kind = "STATUS" /\ m.want \notin e.protect /\ master' = Opened(m)
  <2>1. protect \subseteq e.protect
    BY <1>1, <1>2, <1>24 DEF Statuses
  <2>. QED  BY <1>18, <1>24, <2>1
<1>25. CASE /\ ~m.sync /\ m.wait = "key" /\ e.kind = "RES" /\ ~(m.total - m.sent <= Chunk)
            /\ master' = Further(m)
  <2>1. PICK sent : sent = m.sent + Chunk
    OBVIOUS
  <2>2. sent \in Nat /\ sent <= m.total
    BY <1>5, <1>25, <2>1
  <2>3. master' = [Done(m) EXCEPT !.sent = sent]
    BY <1>7, <1>25, <2>1 DEF Further
  <2>. QED  BY <1>19, <1>25, <2>2, <2>3
<1>26. CASE /\ ~m.sync /\ m.wait = "key" /\ e.kind = "ERR_SEQUENCE" /\ e.rem <= m.total
            /\ master' = Back(m, e)
  <2>1. e.rem \in 0..KeyMax
    BY <1>26 DEF Answers
  <2>2. PICK sent : sent = m.total - e.rem
    OBVIOUS
  <2>3. sent \in Nat /\ sent <= m.total
    BY <1>5, <1>26, <2>1, <2>2
  <2>4. master' = [Done(m) EXCEPT !.sent = sent]
    BY <1>26, <2>2 DEF Back
  <2>. QED  BY <1>19, <1>26, <2>3, <2>4
<1>27. Learns(m, e, master')
  BY <1>4, Learned
<1>. QED
  BY <1>12, <1>13, <1>14, <1>15, <1>16, <1>17, <1>20, <1>21, <1>22, <1>23, <1>24, <1>25, <1>26, <1>27
     DEF Learns

LEMMA TimeoutStep == ASSUME IInv, Timeout PROVE IInv'
<1>1. /\ Typed /\ Waiting /\ Pipe /\ Seeds /\ Keys /\ Statuses /\ BeliefTrue
      /\ UNCHANGED <<connected, protect, unlock, toMaster>> /\ faults' \in 0..MaxFaults
      /\ master.wait # "none"
  BY SessionAssumption DEF IInv, Timeout, Fault, slave, Typed
<1>2. CASE master.wait = "connect" \/ master.sync
  <2>1. toSlave = <<>> /\ toMaster = <<>> /\ master' = Idle /\ UNCHANGED toSlave
    BY <1>2 DEF Timeout
  <2>. QED  BY <1>1, <2>1, IdleStep
<1>3. CASE master.wait # "connect" /\ ~master.sync
  <2>1. PICK c : c = [cmd |-> "SYNCH"]
    OBVIOUS
  <2>2. /\ master' = [master EXCEPT !.sync = TRUE] /\ toSlave' = Append(toSlave, c)
        /\ c \in Commands /\ c.cmd = "SYNCH"
    BY <1>3, <2>1 DEF Timeout, Commands
  <2>3. /\ master' \in Masters /\ master'.on = master.on /\ master'.open = master.open
        /\ master'.want = master.want /\ master'.total = master.total /\ master'.asm = master.asm
        /\ master'.sent = master.sent /\ master'.wait = master.wait /\ master'.sync
    BY <1>1, <2>2 DEF Typed, Masters
  <2>4. /\ IsSequence(toSlave') /\ Len(toSlave) \in Nat /\ Len(toSlave') = Len(toSlave) + 1
        /\ DOMAIN toSlave = 1..Len(toSlave) /\ DOMAIN toSlave' = 1..Len(toSlave) + 1
        /\ \A i \in DOMAIN toSlave : toSlave'[i] = toSlave[i]
        /\ toSlave'[Len(toSlave) + 1] = c
    BY <1>1, <2>2, Pushed DEF Typed
  <2>5. \A i \in DOMAIN toSlave' : \/ i \in DOMAIN toSlave /\ toSlave'[i] = toSlave[i]
                                   \/ i = Len(toSlave') /\ toSlave'[i] = c
    BY <2>4
  <2>6. Exchange
    BY <1>1, <1>3 DEF Exchange
  <2>7. Typed'
    BY <1>1, <2>2, <2>3, <2>4, <2>5 DEF Typed
  <2>8. Waiting'
    BY <1>1, <1>3, <2>3 DEF Waiting
  <2>9. Pipe'
    <3>1. \A i \in DOMAIN toSlave : toSlave[i].cmd # "SYNCH"
      BY <1>1, <2>6 DEF Pipe, Asked
    <3>2. \A i \in DOMAIN toMaster' : toMaster'[i].kind # "ERR_SYNCH"
      BY <1>1, <2>6 DEF Pipe
    <3>3. \A i \in DOMAIN toSlave' : toSlave'[i].cmd = "SYNCH" => i = Len(toSlave')
      BY <2>5, <3>1
    <3>4. Last("SYNCH", "ERR_SYNCH")'
      BY <3>2, <3>3 DEF Last
    <3>5. \A i \in DOMAIN toSlave' : i > 1 => toSlave'[i].cmd \in {"SYNCH", "CONNECT"}
      BY <1>1, <2>2, <2>5 DEF Pipe
    <3>6. /\ \A i \in DOMAIN toSlave' : toSlave'[i].cmd # "CONNECT"
          /\ \A i \in DOMAIN toMaster' : toMaster'[i].kind # "CONNECTED"
      BY <1>1, <1>3, <2>2, <2>5 DEF Pipe
    <3>. QED  BY <1>1, <1>3, <2>3, <3>4, <3>5, <3>6 DEF Pipe, Exchange
  <2>10. Seeds'
    BY <1>1, <2>2, <2>3, <2>5 DEF Seeds
  <2>11. Keys'
    BY <1>1, <2>2, <2>3, <2>5 DEF Keys
  <2>12. Statuses' /\ BeliefTrue'
    BY <1>1, <2>3 DEF Statuses, BeliefTrue
  <2>. QED  BY <2>7, <2>8, <2>9, <2>10, <2>11, <2>12 DEF IInv
<1>. QED  BY <1>2, <1>3

LEMMA LoseStep == ASSUME IInv, Lose PROVE IInv'
<1>1. /\ UNCHANGED <<connected, protect, unlock, master>> /\ faults' \in 0..MaxFaults
      /\ connected \in BOOLEAN
  BY SessionAssumption DEF IInv, Lose, Fault, slave, Typed
<1>2. CASE toSlave # <<>> /\ toSlave' = Tail(toSlave) /\ UNCHANGED toMaster
  <2>1. PICK e : e = [kind |-> "ERR_ACCESS_LOCKED"]
    OBVIOUS
  <2>2. e \in Answers /\ e.kind = "ERR_ACCESS_LOCKED" /\ Told(e) /\ Took
    BY <1>2, <2>1 DEF Answers, Told, Took
  <2>. QED  BY <1>1, <2>2, TookStep
<1>3. CASE toMaster # <<>> /\ toMaster' = Tail(toMaster) /\ UNCHANGED toSlave
  BY <1>1, <1>3, GoneStep DEF Gone
<1>. QED  BY <1>2, <1>3 DEF Lose

-----------------------------------------------------------------------------
(* The invariant                                                           *)

LEMMA InitInv == Init => IInv
<1>. SUFFICES ASSUME Init PROVE IInv
  OBVIOUS
<1>1. /\ connected = FALSE /\ protect = Protected /\ unlock = NoUnlock
      /\ toSlave = <<>> /\ toMaster = <<>> /\ master = Idle /\ faults = 0
  BY DEF Init
<1>2. IsSequence(<<>>) /\ DOMAIN <<>> = {} /\ Len(<<>>) = 0 /\ ~(0 > 0) /\ 0 <= 0
  <2>1. <<>> \in Seq({})
    OBVIOUS
  <2>. QED  BY <2>1 DEF IsSequence
<1>3. /\ Idle \in Masters /\ ~Idle.on /\ Idle.open = {} /\ Idle.want = None /\ Idle.total = 0 /\ Idle.asm = <<>>
      /\ Idle.sent = 0 /\ Idle.wait = "none" /\ ~Idle.sync
  BY IdleType
<1>4. UnlockType(NoUnlock)
  <2>1. KeyMax \in Nat /\ 0 \in 0..KeyMax /\ <<>> \in Seq(Bytes) /\ Pad \in Bytes
    BY KeyMaxType DEF Pad, Bytes
  <2>2. NoUnlock \in [res : Resources \cup {None}, seed : Seq(Bytes), seed_rem : Nat,
                      key : [1..KeyMax -> Bytes], key_len : 0..KeyMax, key_rem : Nat]
    BY <2>1 DEF NoUnlock
  <2>3. NoUnlock.seed = <<>> /\ NoUnlock.seed_rem = 0 /\ NoUnlock.key_len = 0 /\ NoUnlock.key_rem = 0
    BY DEF NoUnlock
  <2>. QED  BY <1>2, <2>1, <2>2, <2>3 DEF UnlockType
<1>5. Typed
  <2>1. 0 \in 0..MaxFaults
    BY SessionAssumption
  <2>2. \A i \in DOMAIN <<>> : FALSE
    BY <1>2
  <2>3. connected \in BOOLEAN /\ protect \in SUBSET Protected
    BY <1>1
  <2>4. IsSequence(toSlave) /\ \A i \in DOMAIN toSlave : toSlave[i] \in Commands
    BY <1>1, <1>2, <2>2
  <2>5. IsSequence(toMaster) /\ \A i \in DOMAIN toMaster : toMaster[i] \in Answers
    BY <1>1, <1>2, <2>2
  <2>. QED  BY <1>1, <1>3, <1>4, <2>1, <2>3, <2>4, <2>5 DEF Typed
<1>6. Waiting /\ BeliefTrue
  BY <1>1, <1>2, <1>3 DEF Waiting, BeliefTrue
<1>7. Pipe
  BY <1>1, <1>2, <1>3 DEF Pipe, Exchange
<1>8. Seeds
  BY <1>1, <1>2, <1>3 DEF Seeds
<1>9. Keys /\ Statuses
  BY <1>1, <1>2, <1>3 DEF Keys, Statuses
<1>. QED  BY <1>5, <1>6, <1>7, <1>8, <1>9 DEF IInv

LEMMA UnchangedInv == IInv /\ UNCHANGED vars => IInv'
<1>. SUFFICES ASSUME IInv, UNCHANGED vars PROVE IInv'
  OBVIOUS
<1>1. UNCHANGED <<connected, protect, unlock, toSlave, toMaster, master, faults>>
  BY DEF vars, slave
<1>2. Typed' /\ Waiting' /\ Seeds'
  BY <1>1 DEF IInv, Typed, Waiting, Seeds
<1>3. Pipe'
  BY <1>1 DEF IInv, Pipe, Exchange, OnlyEvents, Last
<1>4. Keys' /\ Statuses' /\ BeliefTrue'
  BY <1>1 DEF IInv, Keys, Statuses, BeliefTrue
<1>. QED  BY <1>2, <1>3, <1>4 DEF IInv

LEMMA NextInv == IInv /\ [Next]_vars => IInv'
<1>. SUFFICES ASSUME IInv, [Next]_vars PROVE IInv'
  OBVIOUS
<1>1. CASE Slave
  BY <1>1, PlainStep, GetSeedStep, GetSeedRestStep, UnlockStep, EarlyStep DEF Slave
<1>2. CASE Ask
  BY <1>2, AskConnectStep, AskSeedStep, AskRestStep, SendKeyStep, AskStatusStep DEF Ask
<1>3. CASE Terminate \/ AskDisconnect \/ Stray \/ Hear \/ Timeout \/ Lose
  BY <1>3, TerminateStep, AskDisconnectStep, StrayStep, HearStep, TimeoutStep, LoseStep
<1>4. CASE UNCHANGED vars
  BY <1>4, UnchangedInv
<1>. QED  BY <1>1, <1>2, <1>3, <1>4 DEF Next

LEMMA Inductive == Spec => []IInv
BY InitInv, NextInv, PTL DEF Spec

\* What remains of a seed or a key is never more than the whole, and
\* Xcp_Unlock and XcpProtect keep to the values the configuration allows,
\* through every retry of GET_SEED and UNLOCK.
THEOREM TypeCorrect == Spec => []TypeOK
<1>1. IInv => TypeOK
  <2>. SUFFICES ASSUME IInv PROVE TypeOK
    OBVIOUS
  <2>1. Typed /\ KeyMax \in Nat
    BY KeyMaxType DEF IInv
  <2>2. Len(unlock.seed) \in Nat
    BY <2>1, LenProperties DEF Typed, UnlockType
  <2>3. unlock.seed_rem \in 0..Len(unlock.seed) /\ unlock.key_rem \in 0..unlock.key_len
    BY <2>1, <2>2 DEF Typed, UnlockType
  <2>. QED  BY <2>1, <2>3 DEF Typed, UnlockType, TypeOK
<1>. QED  BY <1>1, Inductive, PTL

\* A resource the master believes it has opened is not protected in the slave
\* (Xcp_CmdUnlock, Xcp_CmdGetStatus), however many frames were lost or late.
THEOREM BeliefsTrue == Spec => []BeliefTrue
<1>1. IInv => BeliefTrue
  BY DEF IInv
<1>. QED  BY <1>1, Inductive, PTL

\* The parts of a key that reach the slave (Xcp_CmdUnlock) are together the
\* key of the seed it gave out (Xcp_CmdGetSeed): when the last part of a key
\* that is not of a stray command is handled, the resource is unlocked.
THEOREM KeysWhole == Spec => KeysArriveWhole
<1>1. IInv /\ [Next]_vars => [Completes => unlock.res \notin protect']_vars
  <2>. SUFFICES ASSUME IInv, Next, Completes PROVE unlock.res \notin protect'
    OBVIOUS
  <2>1. /\ Took /\ Command.cmd = "UNLOCK" /\ Command.key[1] # Pad
        /\ unlock' # unlock /\ unlock'.key_rem = 0
    BY DEF Completes, Took
  <2>2. Unlock
    <3>1. ~(Ignore \/ Connect \/ Disconnect \/ Synch \/ GetStatus \/ UnlockEarly)
      BY <2>1 DEF Ignore, Connect, Disconnect, Synch, GetStatus, UnlockEarly, slave
    <3>2. ~(GetSeed \/ GetSeedRest)
      BY <2>1 DEF GetSeed, GetSeedRest, Handle
    <3>3. ~(Terminate \/ AskDisconnect \/ Stray \/ Hear \/ Timeout \/ Lose)
      BY <2>1 DEF Terminate, AskDisconnect, Stray, Hear, Timeout, Lose, Send, slave
    <3>4. ~Ask
      BY <2>1 DEF Ask, AskConnect, AskSeed, AskRest, SendKey, AskStatus, Send, slave
    <3>. QED  BY <3>1, <3>2, <3>3, <3>4 DEF Next, Slave
  <2>3. Right(Command, unlock) /\ KeyGood(unlock)
    <3>1. Keys /\ 1 \in DOMAIN toSlave /\ Command = toSlave[1]
      BY <2>1, AskedFor DEF IInv, Took
    <3>2. Command.key # <<Pad>>
      BY <2>1
    <3>. QED  BY <2>1, <3>1, <3>2 DEF Keys
  <2>4. /\ KeyGood(unlock') /\ unlock'.key_len = Len(unlock.seed) /\ unlock'.seed = unlock.seed
        /\ UnlockType(unlock')
        /\ protect' = protect \ {unlock.res} \/ ~(unlock'.key_rem = 0 /\ Opens(unlock'))
    BY <2>1, <2>2, <2>3, Unlocking
  <2>5. Opens(unlock')
    <3>1. unlock'.key_len - unlock'.key_rem = unlock'.key_len
      BY <2>1, <2>4, KeyMaxType DEF UnlockType
    <3>. QED  BY <2>4, <3>1 DEF KeyGood, Opens
  <2>. QED  BY <2>1, <2>4, <2>5
<1>. QED  BY <1>1, Inductive, PTL DEF Spec, KeysArriveWhole
===============================================================================
