---------------------------- MODULE XcpCoreProofs ----------------------------
(***************************************************************************)
(* Proofs about XcpCore, for every pool, every set of contexts and lists.  *)
(*                                                                         *)
(* First the queues as sequences, the pool as a partition into the ranges  *)
(* of the queues and the buffers of the slots, and the types.  Then the    *)
(* buffers: each is in one place and none is lost, if the channel tasks    *)
(* run cooperatively with Xcp_MainFunction or no list is a STIM list       *)
(* (Separate); with both, the property does not hold.  Last the refinement *)
(* of FifoLink: each step maps to Accept, to Deliver or to no step.        *)
(***************************************************************************)
EXTENDS XcpCore, SequenceTheorems, FiniteSetTheorems, TLAPS

-----------------------------------------------------------------------------
(* A queue without repetitions, seen as the set of its elements            *)

\* Taking the head removes one element, the head, from the range.
LEMMA HeadTailRange ==
  ASSUME NEW S, NEW q \in Seq(S), q # <<>>, IsInjective(q)
  PROVE  /\ Head(q) \in S /\ Tail(q) \in Seq(S)
         /\ Head(q) \in Range(q)
         /\ IsInjective(Tail(q))
         /\ Range(Tail(q)) = Range(q) \ {Head(q)}
<1>1. /\ Len(q) \in Nat \ {0} /\ DOMAIN q = 1..Len(q)
      /\ Head(q) = q[1]
  BY EmptySeq, LenProperties
<1>2. /\ Head(q) \in S /\ Tail(q) \in Seq(S) /\ Len(Tail(q)) = Len(q) - 1
      /\ DOMAIN Tail(q) = 1..Len(q) - 1
      /\ \A i \in 1..Len(q) - 1 : Tail(q)[i] = q[i + 1]
  BY HeadTailProperties, LenProperties
<1>3. Head(q) \in Range(q)
  BY <1>1 DEF Range
<1>4. IsInjective(Tail(q))
  <2>. SUFFICES ASSUME NEW i \in 1..Len(q) - 1, NEW j \in 1..Len(q) - 1,
                       Tail(q)[i] = Tail(q)[j]
                PROVE  i = j
    BY <1>2 DEF IsInjective
  <2>1. q[i + 1] = q[j + 1] /\ i + 1 \in 1..Len(q) /\ j + 1 \in 1..Len(q)
    BY <1>1, <1>2
  <2>. QED  BY <1>1, <2>1 DEF IsInjective
<1>5. ASSUME NEW x \in Range(Tail(q)) PROVE x \in Range(q) \ {Head(q)}
  <2>1. PICK i \in 1..Len(q) - 1 : x = Tail(q)[i]
    BY <1>2 DEF Range
  <2>2. x = q[i + 1] /\ i + 1 \in 1..Len(q) /\ i + 1 # 1 /\ 1 \in 1..Len(q)
    BY <1>1, <1>2, <2>1
  <2>. QED  BY <1>1, <2>2 DEF IsInjective, Range
<1>6. ASSUME NEW x \in Range(q) \ {Head(q)} PROVE x \in Range(Tail(q))
  <2>1. PICK i \in 1..Len(q) : x = q[i]
    BY <1>1 DEF Range
  <2>2. i # 1 /\ i - 1 \in 1..Len(q) - 1
    BY <1>1, <2>1
  <2>3. Tail(q)[i - 1] = x
    BY <1>2, <2>1, <2>2
  <2>. QED  BY <1>2, <2>2, <2>3 DEF Range
<1>. QED  BY <1>2, <1>3, <1>4, <1>5, <1>6

\* Appending a new element adds it to the range.
LEMMA AppendRange ==
  ASSUME NEW S, NEW q \in Seq(S), NEW b \in S, IsInjective(q), b \notin Range(q)
  PROVE  /\ Append(q, b) \in Seq(S)
         /\ IsInjective(Append(q, b))
         /\ Range(Append(q, b)) = Range(q) \cup {b}
<1> DEFINE a == Append(q, b)
<1>1. /\ a \in Seq(S) /\ Len(q) \in Nat /\ DOMAIN q = 1..Len(q)
      /\ DOMAIN a = 1..Len(q) + 1
      /\ \A i \in 1..Len(q) : a[i] = q[i]
      /\ a[Len(q) + 1] = b
  BY AppendProperties, LenProperties
<1>2. \A i \in 1..Len(q) : q[i] # b
  BY <1>1 DEF Range
<1>3. IsInjective(a)
  <2>. SUFFICES ASSUME NEW i \in 1..Len(q) + 1, NEW j \in 1..Len(q) + 1, a[i] = a[j]
                PROVE  i = j
    BY <1>1 DEF IsInjective
  <2>1. CASE i \in 1..Len(q) /\ j \in 1..Len(q)
    BY <1>1, <2>1 DEF IsInjective
  <2>2. CASE i = Len(q) + 1 \/ j = Len(q) + 1
    BY <1>1, <1>2, <2>2
  <2>. QED  BY <1>1, <2>1, <2>2
<1>4. Range(a) = Range(q) \cup {b}
  BY AppendIsConcat, RangeConcatenation, <<b>> \in Seq(S), Range(<<b>>) = {b} DEF Range
<1>. QED  BY <1>1, <1>3, <1>4

\* So does putting it in front.
LEMMA FrontRange ==
  ASSUME NEW S, NEW q \in Seq(S), NEW b \in S, IsInjective(q), b \notin Range(q)
  PROVE  /\ <<b>> \o q \in Seq(S)
         /\ IsInjective(<<b>> \o q)
         /\ Range(<<b>> \o q) = {b} \cup Range(q)
<1> DEFINE a == <<b>> \o q
<1>1. /\ <<b>> \in Seq(S) /\ Len(<<b>>) = 1 /\ <<b>>[1] = b
      /\ Len(q) \in Nat /\ DOMAIN q = 1..Len(q)
  BY LenProperties
<1>2. /\ a \in Seq(S) /\ DOMAIN a = 1..Len(q) + 1
      /\ a[1] = b
      /\ \A i \in 2..Len(q) + 1 : a[i] = q[i - 1]
  BY <1>1, ConcatProperties, LenProperties
<1>3. \A i \in 1..Len(q) : q[i] # b
  BY <1>1 DEF Range
<1>4. IsInjective(a)
  <2>. SUFFICES ASSUME NEW i \in 1..Len(q) + 1, NEW j \in 1..Len(q) + 1, a[i] = a[j]
                PROVE  i = j
    BY <1>2 DEF IsInjective
  <2>1. CASE i = 1 \/ j = 1
    <3>1. ASSUME NEW k \in 1..Len(q) + 1, k # 1 PROVE a[k] # b
      BY <1>1, <1>2, <1>3, <3>1, k - 1 \in 1..Len(q)
    <3>. QED  BY <1>2, <2>1, <3>1
  <2>2. CASE i # 1 /\ j # 1
    <3>1. /\ i - 1 \in 1..Len(q) /\ j - 1 \in 1..Len(q) /\ q[i - 1] = q[j - 1]
      BY <1>1, <1>2, <2>2
    <3>. QED  BY <1>1, <3>1 DEF IsInjective
  <2>. QED  BY <2>1, <2>2
<1>5. Range(a) = {b} \cup Range(q)
  <2>1. Range(<<b>>) = {b}
    BY DEF Range
  <2>2. \A s \in Seq(S) : Range(s \o q) = Range(s) \cup Range(q)
    BY RangeConcatenation
  <2>. QED  BY <1>1, <2>1, <2>2
<1>. QED  BY <1>2, <1>4, <1>5

-----------------------------------------------------------------------------
(* The pool as a partition                                                 *)

\* The ranges F, R and T of the three queues and the buffers the slots own
\* are pairwise disjoint, and no two slots own one buffer.
Apart(F, R, T, own) ==
  /\ own \in [Slots -> Buffers \cup {NoBuffer}]
  /\ F \subseteq Buffers /\ R \subseteq Buffers /\ T \subseteq Buffers
  /\ F \cap R = {} /\ F \cap T = {} /\ R \cap T = {}
  /\ \A s \in Slots : own[s] \notin F \cup R \cup T
  /\ \A s, u \in Slots : own[s] = own[u] /\ own[s] # NoBuffer => s = u

Covered(F, R, T, own) == Buffers \subseteq F \cup R \cup T \cup Range(own)

\* A buffer moves from a queue to an empty slot.
LEMMA TakeApart ==
  ASSUME NEW F, NEW R, NEW T, NEW own, Apart(F, R, T, own),
         NEW s \in Slots, own[s] = NoBuffer, NEW b \in F
  PROVE  /\ Apart(F \ {b}, R, T, [own EXCEPT ![s] = b])
         /\ Covered(F, R, T, own) => Covered(F \ {b}, R, T, [own EXCEPT ![s] = b])
<1> DEFINE o == [own EXCEPT ![s] = b]
<1>1. /\ b \in Buffers /\ b # NoBuffer /\ b \notin R \cup T
      /\ \A u \in Slots : own[u] # b
  BY DistinctAssumption DEF Apart
<1>2. /\ o \in [Slots -> Buffers \cup {NoBuffer}]
      /\ o[s] = b /\ \A u \in Slots : u # s => o[u] = own[u]
  BY <1>1 DEF Apart
<1>3. Apart(F \ {b}, R, T, o)
  BY <1>1, <1>2 DEF Apart
<1>4. ASSUME Covered(F, R, T, own) PROVE Covered(F \ {b}, R, T, o)
  <2>. SUFFICES ASSUME NEW x \in Buffers, x \notin (F \ {b}) \cup R \cup T
                PROVE  x \in Range(o)
    BY DEF Covered
  <2>1. CASE x = b
    BY <1>2, <2>1 DEF Range
  <2>2. CASE x # b
    <3>1. x \in Range(own)
      BY <1>4, <2>2 DEF Covered
    <3>2. PICK u \in Slots : x = own[u]
      BY <3>1 DEF Range, Apart
    <3>3. u # s
      BY <3>2, DistinctAssumption
    <3>. QED  BY <1>2, <3>2, <3>3 DEF Range
  <2>. QED  BY <2>1, <2>2
<1>. QED  BY <1>3, <1>4

\* A slot puts its buffer in a queue.
LEMMA PutApart ==
  ASSUME NEW F, NEW R, NEW T, NEW own, Apart(F, R, T, own),
         NEW s \in Slots, own[s] # NoBuffer
  PROVE  /\ own[s] \in Buffers /\ own[s] \notin F \cup R \cup T
         /\ Apart(F \cup {own[s]}, R, T, [own EXCEPT ![s] = NoBuffer])
         /\ Covered(F, R, T, own) =>
              Covered(F \cup {own[s]}, R, T, [own EXCEPT ![s] = NoBuffer])
<1> DEFINE o == [own EXCEPT ![s] = NoBuffer]
<1>1. own[s] \in Buffers /\ own[s] \notin F \cup R \cup T
  BY DEF Apart
<1>2. /\ o \in [Slots -> Buffers \cup {NoBuffer}]
      /\ o[s] = NoBuffer /\ \A u \in Slots : u # s => o[u] = own[u]
  BY DEF Apart
<1>3. Apart(F \cup {own[s]}, R, T, o)
  BY <1>1, <1>2, DistinctAssumption DEF Apart
<1>4. ASSUME Covered(F, R, T, own) PROVE Covered(F \cup {own[s]}, R, T, o)
  <2>. SUFFICES ASSUME NEW x \in Buffers, x \notin (F \cup {own[s]}) \cup R \cup T
                PROVE  x \in Range(o)
    BY DEF Covered
  <2>1. PICK u \in Slots : x = own[u]
    BY <1>4 DEF Covered, Range, Apart
  <2>. QED  BY <1>2, <2>1 DEF Range
<1>. QED  BY <1>1, <1>3, <1>4

\* A slot hands its buffer to an empty slot.
LEMMA HandApart ==
  ASSUME NEW F, NEW R, NEW T, NEW own, Apart(F, R, T, own),
         NEW s \in Slots, NEW u \in Slots, s # u, own[u] = NoBuffer
  PROVE  /\ Apart(F, R, T, [own EXCEPT ![u] = own[s], ![s] = NoBuffer])
         /\ Covered(F, R, T, own) =>
              Covered(F, R, T, [own EXCEPT ![u] = own[s], ![s] = NoBuffer])
<1> DEFINE o == [own EXCEPT ![u] = own[s], ![s] = NoBuffer]
<1>1. /\ o \in [Slots -> Buffers \cup {NoBuffer}]
      /\ o[s] = NoBuffer /\ o[u] = own[s]
      /\ \A v \in Slots : v # s /\ v # u => o[v] = own[v]
  BY DEF Apart
<1>2. Apart(F, R, T, o)
  BY <1>1 DEF Apart
<1>3. ASSUME Covered(F, R, T, own) PROVE Covered(F, R, T, o)
  <2>. SUFFICES ASSUME NEW x \in Buffers, x \notin F \cup R \cup T
                PROVE  x \in Range(o)
    BY DEF Covered
  <2>1. PICK v \in Slots : x = own[v]
    BY <1>3 DEF Covered, Range, Apart
  <2>2. v # u
    BY <2>1, DistinctAssumption
  <2>. QED  BY <1>1, <2>1, <2>2 DEF Range
<1>. QED  BY <1>2, <1>3

\* The three queues play the same part.
LEMMA ApartSymmetric ==
  ASSUME NEW F, NEW R, NEW T, NEW own
  PROVE  /\ Apart(F, R, T, own) <=> Apart(R, F, T, own)
         /\ Apart(F, R, T, own) <=> Apart(T, R, F, own)
         /\ Covered(F, R, T, own) <=> Covered(R, F, T, own)
         /\ Covered(F, R, T, own) <=> Covered(T, R, F, own)
BY DEF Apart, Covered

-----------------------------------------------------------------------------
(* Types and control                                                       *)

Typed == TypeOK /\ Control

LEMMA TypedInit == Init => Typed
<1>. SUFFICES ASSUME Init PROVE Typed
  OBVIOUS
<1>1. Cardinality(Buffers) \in Nat
  BY FS_CardinalityType, DistinctAssumption
<1>2. PoolOK
  BY <1>1 DEF Init, PoolOK
<1>3. CallOK /\ wire \in Seq(Tokens)
  BY DEF Init, CallOK
<1>4. SessionOK
  <2>1. worker \in 0..MaxUpload - 1 /\ disc \in 0..2
    BY ConstantsAssumption DEF Init
  <2>2. connected \in BOOLEAN
    BY DEF Init
  <2>. QED  BY <2>1, <2>2 DEF SessionOK
<1>5. ChannelOK
  BY ConstantsAssumption DEF Init, ChannelOK
<1>6. Control
  BY ConstantsAssumption DEF Init, Control, Slots, MainSlots, Tasks
<1>. QED  BY <1>2, <1>3, <1>4, <1>5, <1>6 DEF Typed, TypeOK

\* The operations on the pool.
LEMMA WrittenTyped ==
  ASSUME PoolOK, NEW kind, NEW n, <<kind, n>> \in Tokens, free # <<>>
  PROVE  Written(kind, n) \in Seq(Tokens)
<1>1. Head(free) \in Buffers
  BY HeadTailProperties DEF PoolOK
<1>2. content[Head(free)] \in Seq(Tokens)
  BY <1>1 DEF PoolOK
<1>. QED  BY <1>2, AppendProperties DEF Written

LEMMA GetFreeTyped ==
  ASSUME PoolOK, NEW s \in Slots, NEW data \in Seq(Tokens), GetFree(s, data)
  PROVE  /\ PoolOK' /\ held'[s] # NoBuffer
         /\ \A u \in Slots : u # s => held'[u] = held[u]
<1>1. Head(free) \in Buffers /\ Tail(free) \in Seq(Buffers)
  BY HeadTailProperties DEF PoolOK, GetFree
<1>. QED  BY <1>1, DistinctAssumption DEF PoolOK, GetFree

LEMMA FreeBufferTyped ==
  ASSUME PoolOK, NEW b \in Buffers \cup {NoBuffer}, FreeBuffer(b)
  PROVE  /\ free' \in Seq(Buffers) /\ content' \in [Buffers -> Seq(Tokens)]
         /\ rx' = rx /\ tx' = tx
<1>1. CASE b = NoBuffer
  BY <1>1 DEF FreeBuffer, PoolOK
<1>2. CASE b # NoBuffer
  <2>1. b \in Buffers /\ <<>> \in Seq(Tokens)
    BY <1>2
  <2>2. Append(free, b) \in Seq(Buffers)
    BY <2>1 DEF PoolOK
  <2>3. [content EXCEPT ![b] = <<>>] \in [Buffers -> Seq(Tokens)]
    BY <2>1 DEF PoolOK
  <2>. QED  BY <1>2, <2>2, <2>3 DEF FreeBuffer
<1>. QED  BY <1>1, <1>2

\* Returning from Xcp_MainFunction and finishing an answer.
LEMMA TypedReturn ==
  ASSUME TypeOK, Return
  PROVE  mpc' \in {"idle", "event", "finish"} /\ reply' = reply /\ after' = after
BY DEF Return, Goto, TypeOK, SessionOK

LEMMA TypedAnswered ==
  ASSUME TypeOK, Control, Answered, mpc \in {"respond", "queue"}
  PROVE  /\ reply' \in Seq(Answers)
         /\ \/ mpc' = "respond" /\ reply' # <<>> /\ after' = after /\ after # "idle"
            \/ mpc' = after /\ mpc' \in {"receive", "release", "transmit", "recall"}
               /\ after' = "idle"
<1>1. reply \in Seq(Answers) /\ reply # <<>> /\ after # "idle"
  BY DEF TypeOK, CallOK, Control
<1>2. Tail(reply) \in Seq(Answers) /\ Len(Tail(reply)) = Len(reply) - 1 /\ Len(reply) \in Nat
  BY <1>1, HeadTailProperties, LenProperties
<1>3. CASE Len(reply) > 1
  <2>1. Len(Tail(reply)) # 0
    BY <1>2, <1>3
  <2>2. Tail(reply) # <<>>
    BY <1>2, <2>1, EmptySeq
  <2>. QED  BY <1>1, <1>2, <1>3, <2>2 DEF Answered
<1>4. CASE ~(Len(reply) > 1)
  BY <1>1, <1>2, <1>4 DEF Answered, TypeOK, CallOK
<1>. QED  BY <1>3, <1>4

\* What a handler leaves for FIFO_GET_WRITE.
LEMMA TypedAnswer ==
  ASSUME Typed, mpc = "dispatch", NEW f \in Seq(Answers), f # <<>>, Answer(f),
         SessionOK'
  PROVE  Typed'
<1>1. TypeOK'
  BY DEF Typed, TypeOK, Answer, PoolOK, CallOK, ChannelOK, pool, channel
<1>2. Control'
  BY DEF Typed, TypeOK, Control, CallOK, Answer, pool, channel
<1>. QED  BY <1>1, <1>2 DEF Typed

-----------------------------------------------------------------------------
(* Every step keeps the types and the control relations.                   *)

\* The receive callbacks.
LEMMA TypedRx ==
  ASSUME Typed, NEW r \in RxContexts, RxStep(r)
  PROVE  Typed'
<1>. USE DistinctAssumption DEF Slots, Tasks, MainSlots
<1>1. CASE RxPut(r)
  <2>1. held[r] \in Buffers /\ PoolOK
    BY <1>1 DEF RxPut, Typed, TypeOK, PoolOK
  <2>2. PoolOK'
    BY <1>1, <2>1 DEF RxPut, PutRx, PoolOK
  <2>3. TypeOK'
    BY <1>1, <2>2 DEF RxPut, Typed, TypeOK, CallOK, SessionOK, ChannelOK, call, session, channel
  <2>4. Control'
    BY <1>1, <2>1 DEF RxPut, PutRx, Typed, Control, PoolOK, call, session, channel
  <2>. QED  BY <2>3, <2>4 DEF Typed
<1>2. ASSUME NEW p \in Packets, RxGet(r, p) PROVE Typed'
  <2>1. << <<p, 0>> >> \in Seq(Tokens) /\ r \in Slots
    BY DEF Tokens
  <2>2. PoolOK' /\ \A u \in Slots : u # r => held'[u] = held[u]
    BY <1>2, <2>1, GetFreeTyped DEF RxGet, Typed, TypeOK
  <2>3. TypeOK'
    BY <1>2, <2>2 DEF RxGet, Typed, TypeOK, CallOK, SessionOK, ChannelOK, call, session, channel
  <2>4. Control'
    BY <1>2, <2>2 DEF RxGet, Typed, Control, call, session, channel
  <2>. QED  BY <2>3, <2>4 DEF Typed
<1>. QED  BY <1>1, <1>2 DEF RxStep

\* The channel tasks: DAQ.
LEMMA TypedDaq ==
  ASSUME Typed, NEW d \in DaqLists, StartDaq(d) \/ DaqStep(d)
  PROVE  Typed'
<1>. USE ConstantsAssumption, DistinctAssumption DEF Slots, Tasks, MainSlots
<1>1. /\ PoolOK /\ ChannelOK /\ Control /\ d \in Slots
      /\ pass[d] \in 0..OdtCount /\ odt[d] \in 0..OdtCount /\ odt[d] <= pass[d]
  BY DEF Typed, TypeOK, ChannelOK, Control
<1>2. CASE StartDaq(d)
  <2>1. TypeOK'
    BY <1>1, <1>2 DEF StartDaq, Loop, Typed, TypeOK, PoolOK, CallOK, SessionOK, ChannelOK, pool, call, session
  <2>2. Control'
    BY <1>1, <1>2 DEF StartDaq, Loop, Control, ChannelOK, pool, call, session
  <2>. QED  BY <2>1, <2>2 DEF Typed
<1>3. CASE Sample(d)
  <2>1. odt[d] \in 0..OdtCount - 1 /\ free # <<>>
    BY <1>1, <1>3 DEF Sample, GetFree
  <2>2. Written(d, odt[d]) \in Seq(Tokens)
    BY <1>1, <2>1, WrittenTyped DEF Tokens
  <2>3. /\ PoolOK' /\ held'[d] # NoBuffer
        /\ \A u \in Slots : u # d => held'[u] = held[u]
    BY <1>1, <1>3, <2>2, GetFreeTyped DEF Sample
  <2>4. TypeOK'
    BY <1>1, <1>3, <2>3 DEF Sample, Loop, Typed, TypeOK, CallOK, SessionOK, ChannelOK, call, session
  <2>5. Control'
    BY <1>1, <1>3, <2>3 DEF Sample, Loop, Control, ChannelOK, call, session
  <2>. QED  BY <2>4, <2>5 DEF Typed
<1>4. CASE QueueSample(d)
  <2>1. held[d] \in Buffers /\ pass[d] < OdtCount
    BY <1>1, <1>4 DEF QueueSample, PoolOK, Control
  <2>2. PoolOK'
    BY <1>1, <1>4, <2>1 DEF QueueSample, PutTx, PoolOK
  <2>3. TypeOK'
    BY <1>1, <1>4, <2>1, <2>2 DEF QueueSample, Loop, Typed, TypeOK, CallOK, SessionOK, ChannelOK, call, session
  <2>4. Control'
    BY <1>1, <1>4, <2>1 DEF QueueSample, PutTx, Loop, Control, PoolOK, ChannelOK, call, session
  <2>. QED  BY <2>3, <2>4 DEF Typed
<1>5. CASE MissSample(d) \/ EndDaq(d)
  <2>1. ChannelOK'
    <3>1. CASE MissSample(d)
      <4>1. pass[d] + 1 \in 0..OdtCount
        BY <1>1, <3>1 DEF MissSample
      <4>. QED  BY <1>1, <3>1, <4>1 DEF MissSample, Loop, ChannelOK
    <3>2. CASE EndDaq(d)
      BY <1>1, <3>2 DEF EndDaq, Loop, ChannelOK
    <3>. QED  BY <1>5, <3>1, <3>2
  <2>3. TypeOK'
    BY <1>1, <1>5, <2>1 DEF MissSample, EndDaq, Typed, TypeOK, PoolOK, CallOK, SessionOK, pool, call, session
  <2>2. Control'
    BY <1>1, <1>5 DEF MissSample, EndDaq, Loop, Control, ChannelOK, pool, call, session
  <2>. QED  BY <2>3, <2>2 DEF Typed
<1>. QED  BY <1>2, <1>3, <1>4, <1>5 DEF DaqStep

\* The channel tasks: STIM.
LEMMA TypedStim ==
  ASSUME Typed, NEW s \in StimLists, StartStim(s) \/ StimStep(s)
  PROVE  Typed'
<1>. USE DistinctAssumption DEF Slots, Tasks, MainSlots
<1>1. PoolOK /\ ChannelOK /\ Control /\ held[s] \in Buffers \cup {NoBuffer}
  BY DEF Typed, TypeOK, PoolOK
<1>2. CASE StartStim(s)
  <2>1. TypeOK'
    BY <1>1, <1>2 DEF StartStim, Typed, TypeOK, PoolOK, CallOK, SessionOK, ChannelOK, pool, call, session
  <2>2. Control'
    BY <1>1, <1>2 DEF StartStim, Control, ChannelOK, pool, call, session
  <2>. QED  BY <2>1, <2>2 DEF Typed
<1>3. CASE FreeStim(s)
  <2>1. PoolOK'
    BY <1>1, <1>3, FreeBufferTyped DEF FreeStim, PoolOK
  <2>2. TypeOK'
    BY <1>1, <1>3, <2>1 DEF FreeStim, Typed, TypeOK, CallOK, SessionOK, ChannelOK, call, session
  <2>3. Control'
    BY <1>1, <1>3 DEF FreeStim, Control, ChannelOK, call, session
  <2>. QED  BY <2>2, <2>3 DEF Typed
<1>4. CASE ClearStim(s)
  <2>1. TypeOK'
    BY <1>1, <1>4 DEF ClearStim, Typed, TypeOK, PoolOK, CallOK, SessionOK, ChannelOK, call, session
  <2>2. Control'
    BY <1>1, <1>4 DEF ClearStim, Control, PoolOK, ChannelOK, call, session
  <2>. QED  BY <2>1, <2>2 DEF Typed
<1>. QED  BY <1>2, <1>3, <1>4 DEF StimStep

\* Xcp_MainFunction, Xcp_Disconnect and Xcp_Recieve_Main but for the answers.
LEMMA TypedControl ==
  ASSUME Typed,
         \/ MainStart \/ DisconnectStart \/ DisconnectEvent
         \/ DisconnectRecall \/ DisconnectFinish
         \/ Work \/ ReceiveEmpty \/ TransmitEmpty \/ Ignore \/ DispatchSilent
  PROVE  Typed'
<1>. USE DEF Slots, Tasks, MainSlots, pool, call, session, channel
<1>1. /\ PoolOK /\ CallOK /\ SessionOK /\ ChannelOK /\ Control /\ TypeOK
      /\ worker \in 0..MaxUpload - 1 /\ disc \in 0..2 /\ connected \in BOOLEAN
  BY DEF Typed, TypeOK, SessionOK
<1>2. CASE MainStart \/ DisconnectStart \/ DisconnectRecall
  <2>1. /\ mpc' \in {"work", "receive"} /\ (mpc' = "work" => worker' > 0)
        /\ reply' = reply /\ after' = after
        /\ disc' \in {disc, 1, 2} /\ UNCHANGED <<pool, worker, connected, channel, wire>>
        /\ mpc \in {"idle", "recall"}
    BY <1>1, <1>2 DEF MainStart, DisconnectStart, DisconnectRecall, CallMain, Goto
  <2>2. TypeOK'
    BY <1>1, <2>1 DEF TypeOK, PoolOK, CallOK, SessionOK, ChannelOK
  <2>3. Control'
    BY <1>1, <2>1 DEF Control
  <2>. QED  BY <2>2, <2>3 DEF Typed
<1>3. CASE DisconnectFinish
  <2>1. connected' \in BOOLEAN
    BY <1>3 DEF DisconnectFinish
  <2>2. TypeOK'
    BY <1>1, <1>3, <2>1 DEF DisconnectFinish, Goto, TypeOK, PoolOK, CallOK, SessionOK, ChannelOK
  <2>3. Control'
    BY <1>1, <1>3 DEF DisconnectFinish, Goto, Control
  <2>. QED  BY <2>2, <2>3 DEF Typed
<1>4. CASE DisconnectEvent
  <2>1. <<"EV">> \in Seq(Answers) /\ <<"EV">> # <<>>
    BY DEF Answers, Stored
  <2>2. TypeOK'
    BY <1>1, <1>4, <2>1 DEF DisconnectEvent, TypeOK, PoolOK, CallOK, SessionOK, ChannelOK
  <2>3. Control'
    BY <1>1, <1>4, <2>1 DEF DisconnectEvent, Control
  <2>. QED  BY <2>2, <2>3 DEF Typed
<1>5. CASE Work
  <2>1. <<"UPL">> \in Seq(Answers) /\ <<"UPL">> # <<>>
    BY DEF Answers, Stored
  <2>2. worker - 1 \in 0..MaxUpload - 1
    BY <1>1, <1>5, ConstantsAssumption DEF Work, Control
  <2>3. TypeOK'
    BY <1>1, <1>5, <2>1, <2>2 DEF Work, TypeOK, PoolOK, CallOK, SessionOK, ChannelOK
  <2>4. Control'
    BY <1>1, <1>5, <2>1 DEF Work, Control
  <2>. QED  BY <2>3, <2>4 DEF Typed
<1>6. CASE ReceiveEmpty \/ Ignore \/ DispatchSilent
  <2>1. TypeOK'
    BY <1>1, <1>6 DEF ReceiveEmpty, Ignore, DispatchSilent, Dispatched, Goto, TypeOK, PoolOK, CallOK, SessionOK, ChannelOK
  <2>2. Control'
    BY <1>1, <1>6 DEF ReceiveEmpty, Ignore, DispatchSilent, Dispatched, Goto, Control
  <2>. QED  BY <2>1, <2>2 DEF Typed
<1>7. CASE TransmitEmpty
  <2>1. TypeOK'
    BY <1>1, <1>7, TypedReturn DEF TransmitEmpty, TypeOK, PoolOK, CallOK, SessionOK, ChannelOK
  <2>2. Control'
    BY <1>1, <1>7, TypedReturn DEF TransmitEmpty, Control
  <2>. QED  BY <2>1, <2>2 DEF Typed
<1>. QED  BY <1>2, <1>3, <1>4, <1>5, <1>6, <1>7

\* The handlers.
LEMMA TypedHandlers ==
  ASSUME Typed,
         \/ DispatchConnect \/ DispatchDisconnect \/ DispatchCommand
         \/ DispatchUpload \/ DispatchTransport
  PROVE  Typed'
<1>1. SessionOK /\ worker \in 0..MaxUpload - 1 /\ disc \in 0..2 /\ connected \in BOOLEAN
  BY DEF Typed, TypeOK, SessionOK
<1>2. ASSUME NEW f \in Answers PROVE <<f>> \in Seq(Answers) /\ <<f>> # <<>>
  OBVIOUS
<1>3. {"RES", "ERR", "DATA", "UPL", "CONNECT_RES"} \subseteq Answers
  BY DEF Answers, Stored
<1>4. mpc = "dispatch"
  BY DEF DispatchConnect, DispatchDisconnect, DispatchCommand, DispatchUpload,
         DispatchTransport, Dispatched
<1>5. /\ worker' \in 0..MaxUpload - 1
      /\ disc' = disc
      /\ connected' \in {connected, TRUE, FALSE}
  BY <1>1 DEF DispatchConnect, DispatchDisconnect, DispatchCommand, DispatchUpload,
         DispatchTransport, Answer
<1>6. SessionOK'
  <2>1. connected' \in BOOLEAN
    BY <1>1, <1>5
  <2>. QED  BY <1>1, <1>5, <2>1 DEF SessionOK
<1>7. \/ \E f \in {"RES", "ERR", "DATA", "UPL", "CONNECT_RES"} : Answer(<<f>>)
      \/ Answer(<<"DATA", "RES">>)
  BY DEF DispatchConnect, DispatchDisconnect, DispatchCommand, DispatchUpload,
         DispatchTransport
<1>8. CASE \E f \in {"RES", "ERR", "DATA", "UPL", "CONNECT_RES"} : Answer(<<f>>)
  BY <1>2, <1>3, <1>4, <1>6, <1>8, TypedAnswer
<1>9. CASE Answer(<<"DATA", "RES">>)
  <2>1. <<"DATA", "RES">> \in Seq(Answers) /\ <<"DATA", "RES">> # <<>>
    BY <1>3
  <2>. QED  BY <1>4, <1>6, <1>9, <2>1, TypedAnswer
<1>. QED  BY <1>7, <1>8, <1>9

\* The steps of the main context that move a buffer.
LEMMA TypedMoves ==
  ASSUME Typed,
         \/ Receive \/ DispatchTruncated \/ Release \/ Respond \/ DropReply
         \/ QueueReply \/ Transmit \/ SendOk \/ SendFail
         \/ \E s \in StimLists : DispatchStim(s) \/ StoreStim(s)
  PROVE  Typed'
<1>. USE DistinctAssumption DEF Slots, Tasks, MainSlots, call, session, channel
<1>1. /\ PoolOK /\ CallOK /\ SessionOK /\ ChannelOK /\ Control /\ TypeOK
      /\ \A s \in Slots : held[s] \in Buffers \cup {NoBuffer}
  BY DEF Typed, TypeOK, PoolOK
<1>2. CASE Receive
  <2>1. Head(rx) \in Buffers /\ Tail(rx) \in Seq(Buffers)
    BY <1>1, <1>2, HeadTailProperties DEF Receive, GetRx, PoolOK
  <2>2. TypeOK'
    BY <1>1, <1>2, <2>1 DEF Receive, GetRx, Goto, TypeOK, PoolOK, CallOK, SessionOK, ChannelOK
  <2>3. Control'
    BY <1>1, <1>2, <2>1 DEF Receive, GetRx, Goto, Control, PoolOK
  <2>. QED  BY <2>2, <2>3 DEF Typed
<1>3. CASE DispatchTruncated
  <2>1. TypeOK'
    BY <1>1, <1>3 DEF DispatchTruncated, Dispatched, Goto, TypeOK, PoolOK, CallOK, SessionOK, ChannelOK
  <2>2. Control'
    BY <1>1, <1>3 DEF DispatchTruncated, Dispatched, Goto, Control, PoolOK
  <2>. QED  BY <2>1, <2>2 DEF Typed
<1>4. CASE Release
  <2>1. PoolOK'
    BY <1>1, <1>4, FreeBufferTyped DEF Release, PoolOK
  <2>2. TypeOK'
    BY <1>1, <1>4, <2>1 DEF Release, Goto, TypeOK, CallOK, SessionOK, ChannelOK
  <2>3. Control'
    BY <1>1, <1>4 DEF Release, Goto, Control, PoolOK
  <2>. QED  BY <2>2, <2>3 DEF Typed
<1>5. CASE Respond
  <2>1. Head(reply) \in Answers /\ free # <<>>
    BY <1>1, <1>5, HeadTailProperties DEF Respond, GetFree, CallOK, Control
  <2>2. Written(Head(reply), 0) \in Seq(Tokens)
    BY <1>1, <2>1, WrittenTyped DEF Tokens
  <2>3. /\ PoolOK' /\ held'["e"] # NoBuffer
        /\ \A u \in Slots : u # "e" => held'[u] = held[u]
    BY <1>1, <1>5, <2>2, GetFreeTyped DEF Respond
  <2>4. TypeOK'
    BY <1>1, <1>5, <2>3 DEF Respond, Goto, TypeOK, CallOK, SessionOK, ChannelOK
  <2>5. Control'
    BY <1>1, <1>5, <2>3 DEF Respond, Goto, Control
  <2>. QED  BY <2>4, <2>5 DEF Typed
<1>6. CASE DropReply
  <2>1. TypeOK'
    BY <1>1, <1>6, TypedAnswered DEF DropReply, TypeOK, PoolOK, CallOK, SessionOK, ChannelOK, pool
  <2>2. Control'
    BY <1>1, <1>6, TypedAnswered DEF DropReply, Control, pool
  <2>. QED  BY <2>1, <2>2 DEF Typed
<1>7. CASE QueueReply
  <2>1. held["e"] \in Buffers
    BY <1>1, <1>7 DEF QueueReply, Control
  <2>2. PoolOK'
    BY <1>1, <1>7, <2>1 DEF QueueReply, PutTx, PoolOK
  <2>3. TypeOK'
    BY <1>1, <1>7, <2>2, TypedAnswered DEF QueueReply, TypeOK, CallOK, SessionOK, ChannelOK
  <2>4. Control'
    BY <1>1, <1>7, TypedAnswered DEF QueueReply, PutTx, Control, PoolOK
  <2>. QED  BY <2>3, <2>4 DEF Typed
<1>8. CASE Transmit
  <2>1. Head(tx) \in Buffers /\ Tail(tx) \in Seq(Buffers)
    BY <1>1, <1>8, HeadTailProperties DEF Transmit, GetTx, PoolOK
  <2>2. TypeOK'
    BY <1>1, <1>8, <2>1 DEF Transmit, GetTx, Goto, TypeOK, PoolOK, CallOK, SessionOK, ChannelOK
  <2>3. Control'
    BY <1>1, <1>8, <2>1 DEF Transmit, GetTx, Goto, Control, PoolOK
  <2>. QED  BY <2>2, <2>3 DEF Typed
<1>9. CASE SendOk
  <2>1. held["item"] \in Buffers
    BY <1>1, <1>9 DEF SendOk, Control
  <2>2. PoolOK' /\ wire' \in Seq(Tokens)
    BY <1>1, <1>9, <2>1, FreeBufferTyped DEF SendOk, PoolOK
  <2>3. mpc' \in {"transmit", "idle", "event", "finish"} /\ reply' = reply /\ after' = after
    BY <1>1, <1>9, TypedReturn DEF SendOk, Goto
  <2>4. TypeOK'
    BY <1>1, <1>9, <2>2, <2>3 DEF SendOk, TypeOK, CallOK, SessionOK, ChannelOK
  <2>5. Control'
    BY <1>1, <1>9, <2>3 DEF SendOk, Control, PoolOK
  <2>. QED  BY <2>4, <2>5 DEF Typed
<1>10. CASE SendFail
  <2>1. held["item"] \in Buffers
    BY <1>1, <1>10 DEF SendFail, Control
  <2>2. PoolOK'
    BY <1>1, <1>10, <2>1 DEF SendFail, PutFrontTx, PoolOK
  <2>3. TypeOK'
    BY <1>1, <1>10, <2>2, TypedReturn DEF SendFail, TypeOK, CallOK, SessionOK, ChannelOK
  <2>4. Control'
    BY <1>1, <1>10, TypedReturn DEF SendFail, PutFrontTx, Control, PoolOK
  <2>. QED  BY <2>3, <2>4 DEF Typed
<1>11. ASSUME NEW s \in StimLists, DispatchStim(s) PROVE Typed'
  <2>1. PoolOK'
    BY <1>1, <1>11, FreeBufferTyped DEF DispatchStim, PoolOK
  <2>2. TypeOK'
    BY <1>1, <1>11, <2>1 DEF DispatchStim, Goto, TypeOK, CallOK, SessionOK, ChannelOK
  <2>3. Control'
    BY <1>1, <1>11 DEF DispatchStim, Dispatched, Goto, Control
  <2>. QED  BY <2>2, <2>3 DEF Typed
<1>12. ASSUME NEW s \in StimLists, StoreStim(s) PROVE Typed'
  <2>1. <<"RES">> \in Seq(Answers) /\ <<"RES">> # <<>>
    BY DEF Answers, Stored
  <2>2. held["it"] # NoBuffer
    BY <1>1, <1>12 DEF StoreStim, Control
  <2>3. TypeOK'
    BY <1>1, <1>12, <2>1 DEF StoreStim, TypeOK, PoolOK, CallOK, SessionOK, ChannelOK
  <2>4. Control'
    BY <1>1, <1>12, <2>1, <2>2 DEF StoreStim, Control, PoolOK
  <2>. QED  BY <2>3, <2>4 DEF Typed
<1>. QED  BY <1>2, <1>3, <1>4, <1>5, <1>6, <1>7, <1>8, <1>9, <1>10, <1>11, <1>12

LEMMA TypedStep == Typed /\ [Next]_vars => Typed'
<1>1. ASSUME Typed, UNCHANGED vars PROVE Typed'
  BY <1>1 DEF Typed, TypeOK, PoolOK, CallOK, SessionOK, ChannelOK, Control,
              vars, pool, call, session, channel
<1>2. ASSUME Typed, Next PROVE Typed'
  BY <1>2, TypedRx, TypedDaq, TypedStim, TypedControl, TypedHandlers, TypedMoves
  DEF Next, MainStep, Dispatch
<1>. QED  BY <1>1, <1>2

\* Every variable keeps its type, whatever the scheduling: in particular no
\* handler runs without a packet and Xcp_ProcessDaq stays within its ODTs.
THEOREM TypeCorrect == Spec => []TypeOK
<1>1. Spec => []Typed
  BY TypedInit, TypedStep, PTL DEF Spec
<1>2. Typed => TypeOK
  BY DEF Typed
<1>. QED  BY <1>1, <1>2, PTL

-----------------------------------------------------------------------------
(* Each buffer is in one place                                             *)

Separate == ~Preemptive \/ StimLists = {}

Free == Range(free)
Rx == Range(rx)
Tx == Range(tx)

\* Exclusive in the terms of the lemmas on partitions.
LEMMA ExclusiveApart ==
  ASSUME PoolOK
  PROVE  Exclusive <=> /\ IsInjective(free) /\ IsInjective(rx) /\ IsInjective(tx)
                       /\ Apart(Free, Rx, Tx, Own)
<1>1. Own \in [Slots -> Buffers \cup {NoBuffer}]
  BY DEF Own, PoolOK
<1>2. Free \subseteq Buffers /\ Rx \subseteq Buffers /\ Tx \subseteq Buffers
  BY RangeOfSeq DEF PoolOK, Free, Rx, Tx
<1>. QED  BY <1>1, <1>2 DEF Exclusive, Apart, Free, Rx, Tx

\* A slot that is no ODT owns what it points to.
LEMMA OwnHeld ==
  ASSUME NEW s \in Slots \ StimLists
  PROVE  Own[s] = held[s]
BY DEF Own, Dangling

LEMMA NotStim ==
  /\ MainSlots \cup RxContexts \cup DaqLists \subseteq Slots \ StimLists
  /\ StimLists \subseteq Slots
BY DistinctAssumption DEF Slots, MainSlots, Tasks

-----------------------------------------------------------------------------
(* What one operation does to the pool, own being what the slots own after *)
(* it: the buffers stay in one place, and none disappears.                 *)

Intact == Exclusive' /\ (NoLeak => NoLeak')

LEMMA IntactFromApart ==
  ASSUME PoolOK, PoolOK',
         IsInjective(free'), IsInjective(rx'), IsInjective(tx'),
         Apart(Free', Rx', Tx', Own'),
         Covered(Free, Rx, Tx, Own) => Covered(Free', Rx', Tx', Own')
  PROVE  Intact
<1>1. Exclusive'
  BY DEF Exclusive, Apart, Free, Rx, Tx
<1>2. NoLeak => NoLeak'
  BY DEF NoLeak, Covered, Free, Rx, Tx
<1>. QED  BY <1>1, <1>2 DEF Intact

LEMMA IntactSame ==
  ASSUME Exclusive, UNCHANGED <<free, rx, tx>>, Own' = Own
  PROVE  Intact
<1>1. Exclusive'
  BY DEF Exclusive
<1>2. NoLeak => NoLeak'
  BY DEF NoLeak
<1>. QED  BY <1>1, <1>2 DEF Intact

LEMMA IntactGetFree ==
  ASSUME PoolOK, PoolOK', Exclusive, NEW s \in Slots, NEW data, GetFree(s, data),
         Own[s] = NoBuffer, Own' = [Own EXCEPT ![s] = Head(free)]
  PROVE  Intact
<1>1. /\ Apart(Free, Rx, Tx, Own) /\ IsInjective(free) /\ IsInjective(rx) /\ IsInjective(tx)
      /\ free # <<>> /\ free \in Seq(Buffers)
      /\ free' = Tail(free) /\ rx' = rx /\ tx' = tx
  BY ExclusiveApart DEF GetFree, PoolOK
<1>2. Head(free) \in Free /\ IsInjective(free') /\ Free' = Free \ {Head(free)}
  BY <1>1, HeadTailRange DEF Free
<1>3. Rx' = Rx /\ Tx' = Tx
  BY <1>1 DEF Rx, Tx
<1>4. /\ Apart(Free', Rx', Tx', Own')
      /\ Covered(Free, Rx, Tx, Own) => Covered(Free', Rx', Tx', Own')
  BY <1>1, <1>2, <1>3, TakeApart
<1>. QED  BY <1>1, <1>2, <1>4, IntactFromApart

LEMMA IntactGetRx ==
  ASSUME PoolOK, PoolOK', Exclusive, NEW s \in Slots, GetRx(s),
         Own[s] = NoBuffer, Own' = [Own EXCEPT ![s] = Head(rx)]
  PROVE  Intact
<1>1. /\ Apart(Free, Rx, Tx, Own) /\ IsInjective(free) /\ IsInjective(rx) /\ IsInjective(tx)
      /\ rx # <<>> /\ rx \in Seq(Buffers)
      /\ rx' = Tail(rx) /\ free' = free /\ tx' = tx
  BY ExclusiveApart DEF GetRx, PoolOK
<1>2. Head(rx) \in Rx /\ IsInjective(rx') /\ Rx' = Rx \ {Head(rx)}
  BY <1>1, HeadTailRange DEF Rx
<1>3. Free' = Free /\ Tx' = Tx
  BY <1>1 DEF Free, Tx
<1>4. /\ Apart(Rx', Free', Tx', Own')
      /\ Covered(Rx, Free, Tx, Own) => Covered(Rx', Free', Tx', Own')
  BY <1>1, <1>2, <1>3, TakeApart, ApartSymmetric
<1>. QED  BY <1>1, <1>2, <1>4, ApartSymmetric, IntactFromApart

LEMMA IntactGetTx ==
  ASSUME PoolOK, PoolOK', Exclusive, NEW s \in Slots, GetTx(s),
         Own[s] = NoBuffer, Own' = [Own EXCEPT ![s] = Head(tx)]
  PROVE  Intact
<1>1. /\ Apart(Free, Rx, Tx, Own) /\ IsInjective(free) /\ IsInjective(rx) /\ IsInjective(tx)
      /\ tx # <<>> /\ tx \in Seq(Buffers)
      /\ tx' = Tail(tx) /\ free' = free /\ rx' = rx
  BY ExclusiveApart DEF GetTx, PoolOK
<1>2. Head(tx) \in Tx /\ IsInjective(tx') /\ Tx' = Tx \ {Head(tx)}
  BY <1>1, HeadTailRange DEF Tx
<1>3. Free' = Free /\ Rx' = Rx
  BY <1>1 DEF Free, Rx
<1>4. /\ Apart(Tx', Rx', Free', Own')
      /\ Covered(Tx, Rx, Free, Own) => Covered(Tx', Rx', Free', Own')
  BY <1>1, <1>2, <1>3, TakeApart, ApartSymmetric
<1>. QED  BY <1>1, <1>2, <1>4, ApartSymmetric, IntactFromApart

\* A slot's buffer goes to one of the queues, at either end.
LEMMA IntactPutFree ==
  ASSUME PoolOK, PoolOK', Exclusive, NEW s \in Slots, Own[s] # NoBuffer,
         free' = Append(free, Own[s]), UNCHANGED <<rx, tx>>,
         Own' = [Own EXCEPT ![s] = NoBuffer]
  PROVE  Intact
<1>1. /\ Apart(Free, Rx, Tx, Own) /\ IsInjective(free) /\ IsInjective(rx) /\ IsInjective(tx)
      /\ free \in Seq(Buffers)
  BY ExclusiveApart DEF PoolOK
<1>2. /\ Own[s] \in Buffers /\ Own[s] \notin Free
      /\ Apart(Free \cup {Own[s]}, Rx, Tx, Own')
      /\ Covered(Free, Rx, Tx, Own) => Covered(Free \cup {Own[s]}, Rx, Tx, Own')
  BY <1>1, PutApart
<1>3. IsInjective(free') /\ Free' = Free \cup {Own[s]} /\ Rx' = Rx /\ Tx' = Tx
  BY <1>1, <1>2, AppendRange DEF Free, Rx, Tx
<1>. QED  BY <1>1, <1>2, <1>3, IntactFromApart

LEMMA IntactPutRx ==
  ASSUME PoolOK, PoolOK', Exclusive, NEW s \in Slots, Own[s] # NoBuffer,
         rx' = Append(rx, Own[s]), UNCHANGED <<free, tx>>,
         Own' = [Own EXCEPT ![s] = NoBuffer]
  PROVE  Intact
<1>1. /\ Apart(Free, Rx, Tx, Own) /\ IsInjective(free) /\ IsInjective(rx) /\ IsInjective(tx)
      /\ rx \in Seq(Buffers)
  BY ExclusiveApart DEF PoolOK
<1>2. /\ Own[s] \in Buffers /\ Own[s] \notin Rx
      /\ Apart(Rx \cup {Own[s]}, Free, Tx, Own')
      /\ Covered(Rx, Free, Tx, Own) => Covered(Rx \cup {Own[s]}, Free, Tx, Own')
  BY <1>1, PutApart, ApartSymmetric
<1>3. IsInjective(rx') /\ Rx' = Rx \cup {Own[s]} /\ Free' = Free /\ Tx' = Tx
  BY <1>1, <1>2, AppendRange DEF Free, Rx, Tx
<1>. QED  BY <1>1, <1>2, <1>3, ApartSymmetric, IntactFromApart

LEMMA IntactPutTx ==
  ASSUME PoolOK, PoolOK', Exclusive, NEW s \in Slots, Own[s] # NoBuffer,
         tx' = Append(tx, Own[s]) \/ tx' = <<Own[s]>> \o tx, UNCHANGED <<free, rx>>,
         Own' = [Own EXCEPT ![s] = NoBuffer]
  PROVE  Intact
<1>1. /\ Apart(Free, Rx, Tx, Own) /\ IsInjective(free) /\ IsInjective(rx) /\ IsInjective(tx)
      /\ tx \in Seq(Buffers)
  BY ExclusiveApart DEF PoolOK
<1>2. /\ Own[s] \in Buffers /\ Own[s] \notin Tx
      /\ Apart(Tx \cup {Own[s]}, Rx, Free, Own')
      /\ Covered(Tx, Rx, Free, Own) => Covered(Tx \cup {Own[s]}, Rx, Free, Own')
  BY <1>1, PutApart, ApartSymmetric
<1>3. Free' = Free /\ Rx' = Rx
  BY DEF Free, Rx
<1>4. IsInjective(tx') /\ Tx' = Tx \cup {Own[s]}
  <2>1. CASE tx' = Append(tx, Own[s])
    BY <1>1, <1>2, <2>1, AppendRange DEF Tx
  <2>2. CASE tx' = <<Own[s]>> \o tx
    BY <1>1, <1>2, <2>2, FrontRange DEF Tx
  <2>. QED  BY <2>1, <2>2
<1>. QED  BY <1>1, <1>2, <1>3, <1>4, ApartSymmetric, IntactFromApart

LEMMA IntactHand ==
  ASSUME PoolOK, PoolOK', Exclusive, NEW s \in Slots, NEW u \in Slots, s # u,
         Own[u] = NoBuffer, UNCHANGED <<free, rx, tx>>,
         Own' = [Own EXCEPT ![u] = Own[s], ![s] = NoBuffer]
  PROVE  Intact
<1>1. /\ Apart(Free, Rx, Tx, Own) /\ IsInjective(free) /\ IsInjective(rx) /\ IsInjective(tx)
  BY ExclusiveApart
<1>2. /\ Apart(Free, Rx, Tx, Own')
      /\ Covered(Free, Rx, Tx, Own) => Covered(Free, Rx, Tx, Own')
  BY <1>1, HandApart
<1>3. Free' = Free /\ Rx' = Rx /\ Tx' = Tx
  BY DEF Free, Rx, Tx
<1>. QED  BY <1>1, <1>2, <1>3, IntactFromApart

-----------------------------------------------------------------------------
(* Which ODT pointers dangle                                               *)

DanglingSame == \A u \in Slots : Dangling(u)' <=> Dangling(u)

LEMMA DanglingElsewhere ==
  ASSUME \A s \in StimLists : tpc'[s] = tpc[s],
         (mpc # "stim" /\ mpc' # "stim") \/ (mpc' = mpc /\ Packet' = Packet)
  PROVE  DanglingSame
BY DEF DanglingSame, Dangling

LEMMA OwnSame ==
  ASSUME DanglingSame, held' = held
  PROVE  Own' = Own
BY DEF DanglingSame, Own

LEMMA OwnExcept ==
  ASSUME PoolOK, DanglingSame, NEW s \in Slots \ StimLists, NEW x,
         held' = [held EXCEPT ![s] = x]
  PROVE  Own' = [Own EXCEPT ![s] = x]
<1>1. ~Dangling(s) /\ ~Dangling(s)'
  BY DEF Dangling
<1>2. \A u \in Slots : Own'[u] = IF u = s THEN x ELSE Own[u]
  BY <1>1 DEF DanglingSame, Own, PoolOK
<1>. QED  BY <1>2 DEF Own

\* While a channel task is under way Xcp_Recieve_Stim is not.
LEMMA StimAlone ==
  ASSUME Control, Scheduled, StimPacket, Separate, NEW t \in Tasks, tpc[t] # "idle"
  PROVE  mpc # "stim"
BY DEF Scheduled, StimPacket, Separate

\* With STIM lists a started task finds Xcp_MainFunction idle, and the reverse.
LEMMA TaskAlone ==
  ASSUME Scheduled, Separate, NEW s \in StimLists, tpc[s] # "idle"
  PROVE  mpc = "idle"
BY DEF Scheduled, Separate, Tasks

LEMMA MainAlone ==
  ASSUME Scheduled, Separate, mpc # "idle", NEW s \in StimLists
  PROVE  tpc[s] = "idle"
BY DEF Scheduled, Separate, Tasks

-----------------------------------------------------------------------------
(* What the buffers contain                                                *)

LEMMA ContentsGetFree ==
  ASSUME PoolOK, PoolOK', Exclusive, Contents, NEW s \in Slots \ StimLists, NEW data,
         GetFree(s, data), s \notin {"it", "item"},
         s \in RxContexts => \E p \in Packets : data = << <<p, 0>> >>,
         s \in DaqLists \cup {"e"} => \E t \in Tokens : data = <<t>>
  PROVE  /\ Contents'
         /\ \A u \in Slots \ {s} : held[u] # NoBuffer /\ ~Dangling(u)
                                     => content'[held[u]] = content[held[u]]
<1> DEFINE h == Head(free)
<1>1. /\ h \in Buffers /\ h \in Range(free) /\ Range(free') = Range(free) \ {h}
      /\ rx' = rx /\ tx' = tx
      /\ held' = [held EXCEPT ![s] = h] /\ content' = [content EXCEPT ![h] = data]
  BY HeadTailRange DEF GetFree, PoolOK, Exclusive
<1>2. /\ content'[h] = data
      /\ \A b \in Buffers \ {h} : content'[b] = content[b]
  BY <1>1 DEF PoolOK
<1>3. /\ Range(free) \subseteq Buffers
      /\ Range(rx) \subseteq Buffers \ {h} /\ Range(tx) \subseteq Buffers \ {h}
  BY <1>1, RangeOfSeq DEF PoolOK, Exclusive
<1>4. \A u \in Slots : held[u] # NoBuffer /\ ~Dangling(u) => held[u] \in Buffers \ {h}
  BY <1>1 DEF Exclusive, Own, PoolOK
<1>5. \A u \in Slots \ {s} : /\ held'[u] = held[u]
                             /\ held[u] # NoBuffer /\ ~Dangling(u) => content'[held[u]] = content[held[u]]
  BY <1>1, <1>2, <1>4 DEF PoolOK
<1>6. held'[s] = h
  BY <1>1 DEF PoolOK
<1>7. \A u \in RxContexts \cup DaqLists \cup {"it", "e", "item"} : u \in Slots /\ ~Dangling(u)
  BY NotStim DEF Dangling, MainSlots
<1>8. \A b \in Range(free') : content'[b] = <<>>
  BY <1>1, <1>2, <1>3 DEF Contents
<1>9. /\ \A b \in Range(rx') : PacketFrame(b)'
      /\ \A b \in Range(tx') : OneToken(b)'
  BY <1>1, <1>2, <1>3 DEF Contents, PacketFrame, OneToken
<1>10. ASSUME NEW u \in RxContexts \cup {"it"}, held'[u] # NoBuffer PROVE PacketFrame(held[u])'
  <2>1. CASE u = s
    BY <1>2, <1>6, <2>1 DEF PacketFrame
  <2>2. CASE u # s
    BY <1>5, <1>7, <1>10, <2>2 DEF Contents, PacketFrame
  <2>. QED  BY <2>1, <2>2
<1>11. ASSUME NEW u \in DaqLists \cup {"e", "item"}, held'[u] # NoBuffer PROVE OneToken(held[u])'
  <2>1. CASE u = s
    BY <1>2, <1>6, <2>1 DEF OneToken
  <2>2. CASE u # s
    BY <1>5, <1>7, <1>11, <2>2 DEF Contents, OneToken
  <2>. QED  BY <2>1, <2>2
<1>. QED  BY <1>5, <1>8, <1>9, <1>10, <1>11 DEF Contents

LEMMA ContentsFreeBuffer ==
  ASSUME PoolOK, PoolOK', Exclusive, Contents, NEW b \in Buffers, FreeBuffer(b),
         b \notin Range(free) \cup Range(rx) \cup Range(tx),
         \A u \in Slots \ StimLists : held'[u] \in {held[u], NoBuffer} /\ held'[u] # b
  PROVE  Contents'
<1>1. /\ free' = Append(free, b) /\ rx' = rx /\ tx' = tx
      /\ content' = [content EXCEPT ![b] = <<>>]
  BY DistinctAssumption DEF FreeBuffer
<1>2. Range(free') = Range(free) \cup {b}
  BY <1>1, AppendRange DEF PoolOK, Exclusive
<1>3. content'[b] = <<>> /\ \A c \in Buffers \ {b} : content'[c] = content[c]
  BY <1>1 DEF PoolOK
<1>4. /\ Range(free) \subseteq Buffers \ {b}
      /\ Range(rx) \subseteq Buffers \ {b} /\ Range(tx) \subseteq Buffers \ {b}
  BY RangeOfSeq DEF PoolOK
<1>5. \A c \in Range(free') : content'[c] = <<>>
  BY <1>2, <1>3, <1>4 DEF Contents
<1>6. /\ \A c \in Range(rx') : PacketFrame(c)'
      /\ \A c \in Range(tx') : OneToken(c)'
  BY <1>1, <1>3, <1>4 DEF Contents, PacketFrame, OneToken
<1>7. \A u \in RxContexts \cup DaqLists \cup {"it", "e", "item"} :
        /\ u \in Slots \ StimLists
        /\ held'[u] # NoBuffer => held'[u] = held[u] /\ held'[u] \in Buffers \ {b}
  BY NotStim DEF MainSlots, PoolOK
<1>8. ASSUME NEW u \in RxContexts \cup {"it"}, held'[u] # NoBuffer PROVE PacketFrame(held[u])'
  BY <1>3, <1>7, <1>8 DEF Contents, PacketFrame
<1>9. ASSUME NEW u \in DaqLists \cup {"e", "item"}, held'[u] # NoBuffer PROVE OneToken(held[u])'
  BY <1>3, <1>7, <1>9 DEF Contents, OneToken
<1>. QED  BY <1>5, <1>6, <1>8, <1>9 DEF Contents

\* Nothing is written: it is enough that what moves has the right content.
LEMMA ContentsMove ==
  ASSUME Contents, content' = content,
         Range(free') \subseteq Range(free),
         \A b \in Range(rx') : PacketFrame(b),
         \A b \in Range(tx') : OneToken(b),
         \A u \in RxContexts \cup {"it"} : held'[u] # NoBuffer => PacketFrame(held'[u]),
         \A u \in DaqLists \cup {"e", "item"} : held'[u] # NoBuffer => OneToken(held'[u])
  PROVE  Contents'
BY DEF Contents, PacketFrame, OneToken

-----------------------------------------------------------------------------
(* Every step keeps the invariant                                          *)

Kept == Intact /\ Contents' /\ StimPacket'

\* The receive callbacks may come at any time, between the two halves of
\* Xcp_Recieve_Stim too.
LEMMA KeptRx ==
  ASSUME IInv, Typed', NEW r \in RxContexts, RxStep(r)
  PROVE  Kept
<1>1. /\ PoolOK /\ PoolOK' /\ Exclusive /\ Contents /\ StimPacket /\ Control
      /\ r \in Slots \ StimLists /\ r \notin MainSlots /\ r \notin DaqLists
      /\ Own[r] = held[r] /\ "it" \in Slots \ StimLists
  BY NotStim, OwnHeld, DistinctAssumption DEF IInv, Typed, TypeOK, MainSlots, Tasks
<1>2. ASSUME NEW p \in Packets, RxGet(r, p) PROVE Kept
  <2>1. /\ GetFree(r, << <<p, 0>> >>) /\ held[r] = NoBuffer
        /\ UNCHANGED <<mpc, tpc>>
    BY <1>2 DEF RxGet, call, channel
  <2>2. /\ Contents'
        /\ \A u \in Slots \ {r} : held[u] # NoBuffer /\ ~Dangling(u)
                                    => content'[held[u]] = content[held[u]]
    BY <1>1, <2>1, ContentsGetFree DEF MainSlots
  <2>3. mpc = "stim" => Packet' = Packet
    <3>. SUFFICES ASSUME mpc = "stim" PROVE Packet' = Packet
      OBVIOUS
    <3>1. held["it"] # NoBuffer /\ ~Dangling("it") /\ "it" # r
      BY <1>1 DEF Control, Dangling, MainSlots
    <3>2. held'["it"] = held["it"]
      BY <1>1, <2>1, <3>1 DEF GetFree, PoolOK
    <3>. QED  BY <1>1, <2>2, <3>1, <3>2 DEF Packet
  <2>4. DanglingSame
    BY <2>1, <2>3, DanglingElsewhere
  <2>5. Own' = [Own EXCEPT ![r] = Head(free)]
    BY <1>1, <2>1, <2>4, OwnExcept DEF GetFree
  <2>6. Intact
    BY <1>1, <2>1, <2>5, IntactGetFree
  <2>7. StimPacket'
    BY <1>1, <2>1, <2>3 DEF StimPacket
  <2>. QED  BY <2>2, <2>6, <2>7 DEF Kept
<1>3. CASE RxPut(r)
  <2>1. /\ held[r] # NoBuffer
        /\ rx' = Append(rx, held[r]) /\ held' = [held EXCEPT ![r] = NoBuffer]
        /\ UNCHANGED <<free, tx, content, mpc, tpc>>
    BY <1>3 DEF RxPut, PutRx, call, channel
  <2>2. held'["it"] = held["it"] /\ Packet' = Packet
    BY <1>1, <2>1 DEF Packet, PoolOK, MainSlots
  <2>3. DanglingSame
    BY <2>1, <2>2, DanglingElsewhere
  <2>4. Own' = [Own EXCEPT ![r] = NoBuffer]
    BY <1>1, <2>1, <2>3, OwnExcept
  <2>5. Intact
    BY <1>1, <2>1, <2>4, IntactPutRx
  <2>6. Contents'
    <3>1. held[r] \in Buffers /\ held[r] \notin Range(rx)
      BY <1>1, <2>1 DEF PoolOK, Exclusive
    <3>2. Range(rx') = Range(rx) \cup {held[r]}
      BY <1>1, <2>1, <3>1, AppendRange DEF PoolOK, Exclusive
    <3>3. \A u \in RxContexts \cup DaqLists \cup {"it", "e", "item"} :
            held'[u] \in {held[u], NoBuffer}
      BY <1>1, <2>1, NotStim DEF PoolOK, MainSlots
    <3>4. PacketFrame(held[r])
      BY <1>1, <2>1 DEF Contents
    <3>. QED  BY <1>1, <2>1, <3>2, <3>3, <3>4, ContentsMove DEF Contents
  <2>7. StimPacket'
    BY <1>1, <2>1, <2>2 DEF StimPacket
  <2>. QED  BY <2>5, <2>6, <2>7 DEF Kept
<1>. QED  BY <1>2, <1>3 DEF RxStep

\* The sampling of a DAQ list.
LEMMA KeptDaq ==
  ASSUME IInv, Typed', Separate, NEW d \in DaqLists, StartDaq(d) \/ DaqStep(d)
  PROVE  Kept
<1>1. /\ PoolOK /\ PoolOK' /\ Exclusive /\ Contents /\ StimPacket /\ Control /\ Scheduled
      /\ d \in Slots \ StimLists /\ d \notin MainSlots /\ d \notin RxContexts
      /\ d \in Tasks /\ Own[d] = held[d] /\ ChannelOK
      /\ pass[d] \in 0..OdtCount /\ odt[d] \in 0..OdtCount /\ odt[d] <= pass[d]
  BY NotStim, OwnHeld, DistinctAssumption
  DEF IInv, Typed, TypeOK, MainSlots, Tasks, ChannelOK, Control
<1>2. mpc' = mpc /\ \A s \in StimLists : tpc'[s] = tpc[s]
  BY <1>1, DistinctAssumption DEF StartDaq, DaqStep, Sample, QueueSample, MissSample, EndDaq,
     Loop, call, ChannelOK, Tasks
<1>3. mpc # "stim"
  <2>1. CASE StartDaq(d)
    <3>1. Preemptive \/ mpc = "idle"
      BY <2>1 DEF StartDaq, TaskMayStart
    <3>. QED  BY <1>1, <3>1 DEF Separate, StimPacket
  <2>2. CASE DaqStep(d)
    <3>1. tpc[d] # "idle"
      BY <2>2 DEF DaqStep, Sample, QueueSample, MissSample, EndDaq
    <3>. QED  BY <1>1, <3>1, StimAlone
  <2>. QED  BY <2>1, <2>2
<1>4. DanglingSame /\ StimPacket'
  BY <1>2, <1>3, DanglingElsewhere DEF StimPacket
<1>5. CASE Sample(d)
  <2>1. odt[d] \in 0..OdtCount - 1 /\ held[d] = NoBuffer /\ free # <<>>
    BY <1>1, <1>5, ConstantsAssumption DEF Sample, GetFree, Control
  <2>2. content[Head(free)] = <<>>
    BY <1>1, <2>1, HeadTailRange DEF Contents, PoolOK, Exclusive
  <2>3. Written(d, odt[d]) = << <<d, odt[d]>> >> /\ <<d, odt[d]>> \in Tokens
    BY <2>1, <2>2 DEF Written, Tokens
  <2>4. GetFree(d, << <<d, odt[d]>> >>)
    BY <1>5, <2>3 DEF Sample
  <2>5. Contents'
    BY <1>1, <2>3, <2>4, ContentsGetFree DEF MainSlots
  <2>6. Own' = [Own EXCEPT ![d] = Head(free)]
    BY <1>1, <1>4, <2>4, OwnExcept DEF GetFree
  <2>7. Intact
    BY <1>1, <2>1, <2>4, <2>6, IntactGetFree
  <2>. QED  BY <1>4, <2>5, <2>7 DEF Kept
<1>6. CASE QueueSample(d)
  <2>1. /\ held[d] # NoBuffer
        /\ tx' = Append(tx, held[d]) /\ held' = [held EXCEPT ![d] = NoBuffer]
        /\ UNCHANGED <<free, rx, content>>
    BY <1>1, <1>6 DEF QueueSample, PutTx, Control
  <2>2. Own' = [Own EXCEPT ![d] = NoBuffer]
    BY <1>1, <1>4, <2>1, OwnExcept
  <2>3. Intact
    BY <1>1, <2>1, <2>2, IntactPutTx
  <2>4. Contents'
    <3>1. held[d] \in Buffers /\ held[d] \notin Range(tx)
      BY <1>1, <2>1 DEF PoolOK, Exclusive
    <3>2. Range(tx') = Range(tx) \cup {held[d]}
      BY <1>1, <2>1, <3>1, AppendRange DEF PoolOK, Exclusive
    <3>3. \A u \in RxContexts \cup DaqLists \cup {"it", "e", "item"} :
            held'[u] \in {held[u], NoBuffer}
      BY <1>1, <2>1, NotStim DEF PoolOK, MainSlots
    <3>4. OneToken(held[d])
      BY <1>1, <2>1 DEF Contents
    <3>. QED  BY <1>1, <2>1, <3>2, <3>3, <3>4, ContentsMove DEF Contents
  <2>. QED  BY <1>4, <2>3, <2>4 DEF Kept
<1>7. CASE StartDaq(d) \/ MissSample(d) \/ EndDaq(d)
  <2>1. UNCHANGED <<free, rx, tx, content, held>>
    BY <1>7 DEF StartDaq, MissSample, EndDaq, pool
  <2>2. Intact
    BY <1>1, <1>4, <2>1, OwnSame, IntactSame
  <2>3. Contents'
    BY <1>1, <2>1, ContentsMove DEF Contents
  <2>. QED  BY <1>4, <2>2, <2>3 DEF Kept
<1>. QED  BY <1>5, <1>6, <1>7 DEF DaqStep

\* The application of a STIM packet.
LEMMA KeptStim ==
  ASSUME IInv, Typed', Separate, NEW s \in StimLists, StartStim(s) \/ StimStep(s)
  PROVE  Kept
<1>1. /\ PoolOK /\ PoolOK' /\ Exclusive /\ Contents /\ StimPacket /\ Control /\ Scheduled
      /\ ChannelOK /\ s \in Slots /\ s \in Tasks /\ held[s] \in Buffers \cup {NoBuffer}
  BY NotStim DEF IInv, Typed, TypeOK, Tasks, PoolOK
<1>2. mpc = "idle" /\ mpc' = "idle"
  <2>1. CASE StartStim(s)
    BY <2>1 DEF StartStim, TaskMayStart, Separate, call
  <2>2. CASE StimStep(s)
    BY <1>1, <2>2, TaskAlone DEF StimStep, FreeStim, ClearStim, call
  <2>. QED  BY <2>1, <2>2
<1>3. StimPacket'
  BY <1>2 DEF StimPacket
<1>4. CASE StartStim(s)
  <2>1. /\ UNCHANGED <<free, rx, tx, content, held>>
        /\ tpc[s] = "idle" /\ tpc' = [tpc EXCEPT ![s] = "apply"]
    BY <1>4 DEF StartStim, pool
  <2>2. DanglingSame
    BY <1>1, <1>2, <2>1 DEF DanglingSame, Dangling, ChannelOK
  <2>3. Intact
    BY <1>1, <2>1, <2>2, OwnSame, IntactSame
  <2>4. Contents'
    BY <1>1, <2>1, ContentsMove DEF Contents
  <2>. QED  BY <1>3, <2>3, <2>4 DEF Kept
<1>5. CASE FreeStim(s)
  <2>1. /\ held' = held /\ tpc[s] = "apply" /\ tpc' = [tpc EXCEPT ![s] = "clear"]
        /\ held[s] # NoBuffer /\ FreeBuffer(held[s])
        /\ free' = Append(free, held[s]) /\ UNCHANGED <<rx, tx>>
    BY <1>1, <1>5 DEF FreeStim, FreeBuffer, Control
  <2>2. Own[s] = held[s]
    BY <1>1, <1>2, <2>1 DEF Own, Dangling
  <2>3. Own' = [Own EXCEPT ![s] = NoBuffer]
    <3>1. Own'[s] = NoBuffer
      BY <1>1, <2>1 DEF Own, Dangling, ChannelOK
    <3>2. \A u \in Slots \ {s} : Own'[u] = Own[u]
      BY <1>1, <1>2, <2>1 DEF Own, Dangling, ChannelOK
    <3>. QED  BY <3>1, <3>2 DEF Own
  <2>4. Intact
    BY <1>1, <2>1, <2>2, <2>3, IntactPutFree
  <2>5. /\ held[s] \in Buffers
        /\ held[s] \notin Range(free) \cup Range(rx) \cup Range(tx)
    BY <1>1, <2>1, <2>2 DEF Exclusive
  <2>6. \A u \in Slots \ StimLists : held[u] # held[s]
    BY <1>1, <2>1, <2>2, OwnHeld DEF Exclusive
  <2>7. Contents'
    BY <1>1, <2>1, <2>5, <2>6, ContentsFreeBuffer
  <2>. QED  BY <1>3, <2>4, <2>7 DEF Kept
<1>6. CASE ClearStim(s)
  <2>1. /\ held' = [held EXCEPT ![s] = NoBuffer]
        /\ tpc[s] = "clear" /\ tpc' = [tpc EXCEPT ![s] = "idle"]
        /\ UNCHANGED <<free, rx, tx, content>>
    BY <1>6 DEF ClearStim
  <2>2. Own' = Own
    <3>1. Own[s] = NoBuffer /\ Own'[s] = NoBuffer
      BY <1>1, <2>1 DEF Own, Dangling, PoolOK
    <3>2. \A u \in Slots \ {s} : Own'[u] = Own[u]
      BY <1>1, <1>2, <2>1 DEF Own, Dangling, PoolOK, ChannelOK
    <3>. QED  BY <3>1, <3>2 DEF Own
  <2>3. Intact
    BY <1>1, <2>1, <2>2, IntactSame
  <2>4. \A u \in Slots \ StimLists : held'[u] = held[u]
    BY <1>1, <2>1 DEF PoolOK
  <2>5. Contents'
    BY <1>1, <2>1, <2>4, NotStim, ContentsMove DEF Contents, MainSlots
  <2>. QED  BY <1>3, <2>3, <2>5 DEF Kept
<1>. QED  BY <1>4, <1>5, <1>6 DEF StimStep

\* The steps of the main context that leave the pool alone.
LEMMA KeptControl ==
  ASSUME IInv, UNCHANGED <<pool, tpc>>, mpc # "stim", mpc' # "stim"
  PROVE  Kept
<1>1. DanglingSame /\ StimPacket'
  BY DanglingElsewhere DEF StimPacket
<1>2. Intact
  BY <1>1, OwnSame, IntactSame DEF IInv, pool
<1>3. Contents'
  BY ContentsMove DEF IInv, Contents, pool
<1>. QED  BY <1>1, <1>2, <1>3 DEF Kept

LEMMA KeptStill ==
  ASSUME IInv,
         \/ MainStart \/ DisconnectStart \/ DisconnectEvent
         \/ DisconnectRecall \/ DisconnectFinish
         \/ Work \/ ReceiveEmpty \/ TransmitEmpty \/ DropReply \/ Ignore
         \/ DispatchConnect \/ DispatchDisconnect \/ DispatchCommand
         \/ DispatchSilent \/ DispatchUpload \/ DispatchTransport
  PROVE  Kept
<1>1. TypeOK /\ Control
  BY DEF IInv
<1>2. UNCHANGED <<pool, tpc>> /\ mpc # "stim"
  BY DEF MainStart, DisconnectStart, DisconnectEvent, DisconnectRecall, DisconnectFinish,
         Work, ReceiveEmpty, TransmitEmpty, DropReply, Ignore, DispatchConnect,
         DispatchDisconnect, DispatchCommand, DispatchSilent, DispatchUpload,
         DispatchTransport, Dispatched, Answer, channel
<1>3. mpc' # "stim"
  <2>1. CASE TransmitEmpty
    BY <1>1, <2>1, TypedReturn DEF TransmitEmpty
  <2>2. CASE DropReply
    BY <1>1, <2>2, TypedAnswered DEF DropReply
  <2>3. CASE ~TransmitEmpty /\ ~DropReply
    BY <2>3 DEF MainStart, DisconnectStart, DisconnectEvent, DisconnectRecall,
         DisconnectFinish, Work, ReceiveEmpty, Ignore, DispatchConnect,
         DispatchDisconnect, DispatchCommand, DispatchSilent, DispatchUpload,
         DispatchTransport, Answer, CallMain, Goto
  <2>. QED  BY <2>1, <2>2, <2>3
<1>. QED  BY <1>2, <1>3, KeptControl

\* The steps of the main context that move a buffer.
LEMMA KeptMoves ==
  ASSUME IInv, Typed', Separate,
         \/ Receive \/ Release \/ Respond \/ QueueReply
         \/ Transmit \/ SendOk \/ SendFail
  PROVE  Kept
<1>1. /\ PoolOK /\ PoolOK' /\ Exclusive /\ Contents /\ StimPacket /\ Control
      /\ TypeOK /\ CallOK
      /\ MainSlots \subseteq Slots \ StimLists
      /\ \A s \in MainSlots : Own[s] = held[s]
  BY NotStim, OwnHeld DEF IInv, Typed, TypeOK
<1>2. UNCHANGED tpc /\ mpc # "stim"
  BY DEF Receive, Release, Respond, QueueReply, Transmit, SendOk, SendFail, channel
<1>3. mpc' # "stim"
  <2>1. CASE SendOk \/ SendFail
    BY <1>1, <2>1, TypedReturn DEF SendOk, SendFail, Goto
  <2>2. CASE QueueReply
    BY <1>1, <2>2, TypedAnswered DEF QueueReply
  <2>3. CASE Receive \/ Release \/ Respond \/ Transmit
    BY <2>3 DEF Receive, Release, Respond, Transmit, Goto
  <2>. QED  BY <2>1, <2>2, <2>3
<1>4. DanglingSame /\ StimPacket'
  BY <1>2, <1>3, DanglingElsewhere DEF StimPacket
<1>5. CASE Receive
  <2>1. GetRx("it") /\ held["it"] = NoBuffer /\ "it" \in Slots \ StimLists
    BY <1>1, <1>5 DEF Receive, Control, MainSlots
  <2>2. Own' = [Own EXCEPT !["it"] = Head(rx)]
    BY <1>1, <1>4, <2>1, OwnExcept DEF GetRx
  <2>3. Intact
    BY <1>1, <2>1, <2>2, IntactGetRx DEF MainSlots
  <2>4. Head(rx) \in Range(rx) /\ Range(rx') \subseteq Range(rx)
    BY <1>1, <2>1, HeadTailRange DEF GetRx, PoolOK, Exclusive
  <2>5. /\ held'["it"] = Head(rx)
        /\ \A u \in Slots \ {"it"} : held'[u] = held[u]
        /\ UNCHANGED <<free, tx, content>>
    BY <1>1, <2>1 DEF GetRx, PoolOK
  <2>6. Contents'
    BY <1>1, <2>4, <2>5, NotStim, DistinctAssumption, ContentsMove
    DEF Contents, MainSlots, Tasks
  <2>. QED  BY <1>4, <2>3, <2>6 DEF Kept
<1>6. CASE Transmit
  <2>1. GetTx("item") /\ held["item"] = NoBuffer /\ "item" \in Slots \ StimLists
    BY <1>1, <1>6 DEF Transmit, Control, MainSlots
  <2>2. Own' = [Own EXCEPT !["item"] = Head(tx)]
    BY <1>1, <1>4, <2>1, OwnExcept DEF GetTx
  <2>3. Intact
    BY <1>1, <2>1, <2>2, IntactGetTx DEF MainSlots
  <2>4. Head(tx) \in Range(tx) /\ Range(tx') \subseteq Range(tx)
    BY <1>1, <2>1, HeadTailRange DEF GetTx, PoolOK, Exclusive
  <2>5. /\ held'["item"] = Head(tx)
        /\ \A u \in Slots \ {"item"} : held'[u] = held[u]
        /\ UNCHANGED <<free, rx, content>>
    BY <1>1, <2>1 DEF GetTx, PoolOK
  <2>6. Contents'
    BY <1>1, <2>4, <2>5, NotStim, DistinctAssumption, ContentsMove
    DEF Contents, MainSlots, Tasks
  <2>. QED  BY <1>4, <2>3, <2>6 DEF Kept
<1>7. CASE Respond
  <2>1. Head(reply) \in Answers /\ held["e"] = NoBuffer /\ free # <<>>
    BY <1>1, <1>7, HeadTailProperties DEF Respond, GetFree, Control, CallOK
  <2>2. content[Head(free)] = <<>>
    BY <1>1, <2>1, HeadTailRange DEF Contents, PoolOK, Exclusive
  <2>3. Written(Head(reply), 0) = << <<Head(reply), 0>> >> /\ <<Head(reply), 0>> \in Tokens
    BY <2>1, <2>2 DEF Written, Tokens
  <2>4. GetFree("e", << <<Head(reply), 0>> >>) /\ "e" \in Slots \ StimLists
    BY <1>1, <1>7, <2>3 DEF Respond, MainSlots
  <2>5. Contents'
    BY <1>1, <2>3, <2>4, ContentsGetFree, DistinctAssumption DEF MainSlots
  <2>6. Own' = [Own EXCEPT !["e"] = Head(free)]
    BY <1>1, <1>4, <2>4, OwnExcept DEF GetFree
  <2>7. Intact
    BY <1>1, <2>1, <2>4, <2>6, IntactGetFree DEF MainSlots
  <2>. QED  BY <1>4, <2>5, <2>7 DEF Kept
<1>8. CASE QueueReply \/ SendFail
  <2>1. PICK s \in {"e", "item"} :
           /\ held[s] # NoBuffer
           /\ tx' = Append(tx, held[s]) \/ tx' = <<held[s]>> \o tx
           /\ held' = [held EXCEPT ![s] = NoBuffer]
           /\ UNCHANGED <<free, rx, content>>
    BY <1>1, <1>8 DEF QueueReply, SendFail, PutTx, PutFrontTx, Control
  <2>2. s \in Slots \ StimLists /\ Own[s] = held[s]
    BY <1>1 DEF MainSlots
  <2>3. Own' = [Own EXCEPT ![s] = NoBuffer]
    BY <1>1, <1>4, <2>1, <2>2, OwnExcept
  <2>4. Intact
    BY <1>1, <2>1, <2>2, <2>3, IntactPutTx
  <2>5. Contents'
    <3>1. held[s] \in Buffers /\ held[s] \notin Range(tx)
      BY <1>1, <2>1, <2>2 DEF PoolOK, Exclusive
    <3>2. Range(tx') = Range(tx) \cup {held[s]}
      <4>. tx \in Seq(Buffers) /\ IsInjective(tx)
        BY <1>1 DEF PoolOK, Exclusive
      <4>1. CASE tx' = Append(tx, held[s])
        BY <3>1, <4>1, AppendRange
      <4>2. CASE tx' = <<held[s]>> \o tx
        BY <3>1, <4>2, FrontRange
      <4>. QED  BY <2>1, <4>1, <4>2
    <3>3. \A u \in RxContexts \cup DaqLists \cup {"it", "e", "item"} :
            held'[u] \in {held[u], NoBuffer}
      BY <1>1, <2>1, NotStim DEF PoolOK, MainSlots
    <3>4. OneToken(held[s])
      BY <1>1, <2>1 DEF Contents
    <3>. QED  BY <1>1, <2>1, <3>2, <3>3, <3>4, ContentsMove DEF Contents
  <2>. QED  BY <1>4, <2>4, <2>5 DEF Kept
<1>9. CASE Release \/ SendOk
  <2>1. PICK s \in {"it", "item"} :
           /\ held[s] # NoBuffer
           /\ FreeBuffer(held[s])
           /\ held' = [held EXCEPT ![s] = NoBuffer]
    BY <1>1, <1>9 DEF Release, SendOk, Control
  <2>2. s \in Slots \ StimLists /\ Own[s] = held[s]
    BY <1>1 DEF MainSlots
  <2>3. free' = Append(free, held[s]) /\ UNCHANGED <<rx, tx>>
    BY <2>1 DEF FreeBuffer
  <2>4. Own' = [Own EXCEPT ![s] = NoBuffer]
    BY <1>1, <1>4, <2>1, <2>2, OwnExcept
  <2>5. Intact
    BY <1>1, <2>1, <2>2, <2>3, <2>4, IntactPutFree
  <2>6. /\ held[s] \in Buffers
        /\ held[s] \notin Range(free) \cup Range(rx) \cup Range(tx)
    BY <1>1, <2>1, <2>2 DEF PoolOK, Exclusive
  <2>7. \A u \in Slots \ StimLists :
          held'[u] = (IF u = s THEN NoBuffer ELSE held[u]) /\ held'[u] # held[s]
    BY <1>1, <2>1, <2>2, OwnHeld DEF PoolOK, Exclusive
  <2>8. Contents'
    BY <1>1, <2>1, <2>6, <2>7, ContentsFreeBuffer
  <2>. QED  BY <1>4, <2>5, <2>8 DEF Kept
<1>. QED  BY <1>5, <1>6, <1>7, <1>8, <1>9

\* The two halves of Xcp_Recieve_Stim.
LEMMA KeptStimPacket ==
  ASSUME IInv, Typed', Separate, NEW s \in StimLists, DispatchStim(s) \/ StoreStim(s)
  PROVE  Kept
<1>1. /\ PoolOK /\ PoolOK' /\ Exclusive /\ Contents /\ StimPacket /\ Control /\ Scheduled
      /\ s \in Slots /\ held[s] \in Buffers \cup {NoBuffer}
      /\ "it" \in Slots \ StimLists /\ Own["it"] = held["it"] /\ s # "it"
      /\ Packet = s /\ tpc' = tpc
  BY NotStim, OwnHeld DEF IInv, Typed, TypeOK, PoolOK, MainSlots, DispatchStim, StoreStim,
     Dispatched, channel
<1>2. \A u \in StimLists : tpc[u] = "idle"
  BY <1>1, MainAlone DEF DispatchStim, StoreStim, Dispatched
<1>3. held["it"] # NoBuffer /\ held["it"] \in Buffers
  BY <1>1 DEF DispatchStim, StoreStim, Dispatched, Control, PoolOK
<1>4. CASE DispatchStim(s)
  <2>1. /\ mpc = "dispatch" /\ mpc' = "stim" /\ FreeBuffer(held[s]) /\ held' = held
    BY <1>4 DEF DispatchStim, Dispatched, Goto
  <2>2. Own[s] = held[s]
    BY <1>1, <1>2, <2>1 DEF Own, Dangling
  <2>3. held[s] # held["it"]
    BY <1>1, <1>3, <2>2 DEF Exclusive
  <2>4. content'[held["it"]] = content[held["it"]]
    BY <1>1, <1>3, <2>1, <2>3 DEF FreeBuffer, PoolOK
  <2>5. Packet' = s /\ StimPacket'
    BY <1>1, <2>1, <2>4 DEF Packet, StimPacket
  <2>6. Own' = [Own EXCEPT ![s] = NoBuffer]
    <3>1. Own'[s] = NoBuffer
      BY <1>1, <2>1, <2>5 DEF Own, Dangling
    <3>2. \A u \in Slots \ {s} : Own'[u] = Own[u]
      BY <1>1, <1>2, <2>1, <2>5 DEF Own, Dangling
    <3>. QED  BY <3>1, <3>2 DEF Own
  <2>7. CASE held[s] = NoBuffer
    <3>1. UNCHANGED <<free, rx, tx, content>>
      BY <2>1, <2>7 DEF FreeBuffer
    <3>2. Own' = Own
      BY <2>2, <2>6, <2>7 DEF Own
    <3>3. Intact
      BY <1>1, <3>1, <3>2, IntactSame
    <3>4. Contents'
      BY <1>1, <2>1, <3>1, ContentsMove DEF Contents
    <3>. QED  BY <2>5, <3>3, <3>4 DEF Kept
  <2>8. CASE held[s] # NoBuffer
    <3>1. free' = Append(free, held[s]) /\ UNCHANGED <<rx, tx>>
      BY <2>1, <2>8 DEF FreeBuffer
    <3>2. Intact
      BY <1>1, <2>2, <2>6, <2>8, <3>1, IntactPutFree
    <3>3. /\ held[s] \in Buffers
          /\ held[s] \notin Range(free) \cup Range(rx) \cup Range(tx)
      BY <1>1, <2>2, <2>8 DEF Exclusive
    <3>4. \A u \in Slots \ StimLists : held[u] # held[s]
      BY <1>1, <2>2, <2>8, OwnHeld DEF Exclusive
    <3>5. Contents'
      BY <1>1, <2>1, <3>3, <3>4, ContentsFreeBuffer
    <3>. QED  BY <2>5, <3>2, <3>5 DEF Kept
  <2>. QED  BY <2>7, <2>8
<1>5. CASE StoreStim(s)
  <2>1. /\ mpc = "stim" /\ mpc' = "respond"
        /\ held' = [held EXCEPT ![s] = held["it"], !["it"] = NoBuffer]
        /\ UNCHANGED <<free, rx, tx, content>>
    BY <1>5 DEF StoreStim
  <2>2. Own[s] = NoBuffer
    BY <1>1, <2>1 DEF Own, Dangling
  <2>3. /\ held'[s] = held["it"] /\ held'["it"] = NoBuffer
        /\ \A u \in Slots \ {s, "it"} : held'[u] = held[u]
    BY <1>1, <2>1 DEF PoolOK
  <2>4. \A u \in Slots : Own'[u] = IF u = s THEN Own["it"]
                                   ELSE IF u = "it" THEN NoBuffer ELSE Own[u]
    BY <1>1, <1>2, <2>1, <2>3 DEF Own, Dangling
  <2>5. Own' = [Own EXCEPT ![s] = Own["it"], !["it"] = NoBuffer]
    BY <1>1, <2>4 DEF Own
  <2>6. Intact
    BY <1>1, <2>1, <2>2, <2>5, IntactHand
  <2>7. Contents'
    BY <1>1, <2>1, <2>3, NotStim, ContentsMove DEF Contents, MainSlots
  <2>8. StimPacket'
    BY <2>1 DEF StimPacket
  <2>. QED  BY <2>6, <2>7, <2>8 DEF Kept
<1>. QED  BY <1>4, <1>5

\* A truncated command loses its buffer, but to nobody else.
LEMMA TruncatedExclusive ==
  ASSUME IInv, Typed', DispatchTruncated
  PROVE  Exclusive' /\ Contents' /\ StimPacket' /\ "TRUNCATED" \in Packets
<1>1. /\ PoolOK /\ PoolOK' /\ Exclusive /\ Contents /\ Control
      /\ "it" \in Slots \ StimLists
  BY NotStim DEF IInv, Typed, TypeOK, MainSlots
<1>2. /\ mpc = "dispatch" /\ mpc' = "transmit" /\ tpc' = tpc /\ Packet = "TRUNCATED"
      /\ held' = [held EXCEPT !["it"] = NoBuffer]
      /\ UNCHANGED <<free, rx, tx, content>>
  BY DEF DispatchTruncated, Dispatched, Goto, channel
<1>3. DanglingSame /\ StimPacket'
  BY <1>2, DanglingElsewhere DEF StimPacket
<1>4. Own' = [Own EXCEPT !["it"] = NoBuffer]
  BY <1>1, <1>2, <1>3, OwnExcept
<1>5. \A u \in Slots : Own'[u] = IF u = "it" THEN NoBuffer ELSE Own[u]
  BY <1>4 DEF Own
<1>6. NoBuffer \notin Range(free) \cup Range(rx) \cup Range(tx)
  BY <1>1, RangeOfSeq, DistinctAssumption DEF PoolOK
<1>7. Exclusive'
  BY <1>1, <1>2, <1>5, <1>6 DEF Exclusive
<1>8. Contents'
  BY <1>1, <1>2, NotStim, ContentsMove DEF Contents, MainSlots, PoolOK
<1>9. "TRUNCATED" \in Packets
  <2>1. PICK p \in Packets : content[held["it"]] = << <<p, 0>> >>
    BY <1>1, <1>2 DEF Control, Contents, PacketFrame
  <2>2. Packet = p
    BY <2>1 DEF Packet
  <2>. QED  BY <1>2, <2>2
<1>. QED  BY <1>3, <1>7, <1>8, <1>9

\* Cooperative scheduling stays cooperative.
LEMMA ScheduledStep ==
  ASSUME IInv, Next
  PROVE  Scheduled'
<1>. SUFFICES ASSUME ~Preemptive PROVE Scheduled'
  BY DEF Scheduled
<1>1. TypeOK /\ Control /\ ChannelOK /\ Scheduled
  BY DEF IInv, TypeOK
<1>2. ASSUME NEW t \in Tasks, tpc[t] = "idle", TaskMayStart, mpc' = mpc,
             NEW pc, tpc' = [tpc EXCEPT ![t] = pc]
      PROVE  Scheduled'
  BY <1>1, <1>2 DEF Scheduled, TaskMayStart, MainMayStart, ChannelOK
<1>3. ASSUME NEW t \in Tasks, tpc[t] # "idle", mpc' = mpc,
             NEW pc, tpc' = [tpc EXCEPT ![t] = pc]
      PROVE  Scheduled'
  BY <1>1, <1>3 DEF Scheduled, ChannelOK
<1>4. ASSUME mpc = "idle" => \A t \in Tasks : tpc[t] = "idle", tpc' = tpc
      PROVE  Scheduled'
  BY <1>1, <1>4 DEF Scheduled
<1>5. ASSUME mpc' = mpc, tpc' = tpc PROVE Scheduled'
  BY <1>1, <1>5 DEF Scheduled
<1>6. CASE \E r \in RxContexts : RxStep(r)
  BY <1>5, <1>6 DEF RxStep, RxPut, RxGet, call, channel
<1>7. CASE MainStart \/ DisconnectStart \/ MainStep
  <2>1. mpc = "idle" => \A t \in Tasks : tpc[t] = "idle"
    BY <1>7 DEF MainStart, DisconnectStart, MainMayStart, MainStep, Dispatch, Work,
       Receive, ReceiveEmpty, Ignore, DispatchConnect, DispatchDisconnect,
       DispatchCommand, DispatchSilent, DispatchUpload, DispatchTruncated,
       DispatchTransport, DispatchStim, StoreStim, Dispatched, Release, Respond, DropReply,
       QueueReply, Transmit, TransmitEmpty, SendOk, SendFail, DisconnectEvent,
       DisconnectRecall, DisconnectFinish
  <2>2. tpc' = tpc
    BY <1>7 DEF MainStart, DisconnectStart, MainStep, Dispatch, Work,
       Receive, ReceiveEmpty, Ignore, DispatchConnect, DispatchDisconnect,
       DispatchCommand, DispatchSilent, DispatchUpload, DispatchTruncated,
       DispatchTransport, DispatchStim, StoreStim, Answer, Release, Respond, DropReply,
       QueueReply, Transmit, TransmitEmpty, SendOk, SendFail, DisconnectEvent,
       DisconnectRecall, DisconnectFinish, channel
  <2>. QED  BY <1>4, <2>1, <2>2
<1>8. ASSUME NEW d \in DaqLists, StartDaq(d) \/ DaqStep(d) PROVE Scheduled'
  <2>1. CASE StartDaq(d)
    BY <1>2, <2>1 DEF StartDaq, Loop, call, Tasks
  <2>2. CASE DaqStep(d)
    BY <1>3, <2>2 DEF DaqStep, Sample, QueueSample, MissSample, EndDaq, Loop, call, Tasks
  <2>. QED  BY <1>8, <2>1, <2>2
<1>9. ASSUME NEW s \in StimLists, StartStim(s) \/ StimStep(s) PROVE Scheduled'
  <2>1. CASE StartStim(s)
    BY <1>2, <2>1 DEF StartStim, call, Tasks
  <2>2. CASE StimStep(s)
    BY <1>3, <2>2 DEF StimStep, FreeStim, ClearStim, call, Tasks
  <2>. QED  BY <1>9, <2>1, <2>2
<1>. QED  BY <1>6, <1>7, <1>8, <1>9 DEF Next

-----------------------------------------------------------------------------
(* The theorems                                                            *)

LEMMA SafeInit == Init => IInv /\ NoLeak
<1>. SUFFICES ASSUME Init PROVE IInv /\ NoLeak
  OBVIOUS
<1>1. TypeOK /\ Control /\ PoolOK
  BY TypedInit DEF Typed, TypeOK
<1>2. /\ IsInjective(free) /\ Range(free) = Buffers /\ rx = <<>> /\ tx = <<>>
      /\ held = [s \in Slots |-> NoBuffer] /\ mpc = "idle"
      /\ tpc = [t \in Tasks |-> "idle"] /\ content = [b \in Buffers |-> <<>>]
  BY DEF Init
<1>3. /\ Range(rx) = {} /\ Range(tx) = {} /\ IsInjective(rx) /\ IsInjective(tx)
  BY <1>2 DEF Range, IsInjective
<1>4. \A s \in Slots : Own[s] = NoBuffer
  BY <1>2 DEF Own
<1>5. Exclusive /\ NoLeak
  BY <1>2, <1>3, <1>4, DistinctAssumption DEF Exclusive, NoLeak
<1>6. Scheduled /\ StimPacket
  BY <1>2 DEF Scheduled, StimPacket
<1>7. Contents
  BY <1>2, <1>3, NotStim DEF Contents, MainSlots
<1>. QED  BY <1>1, <1>5, <1>6, <1>7 DEF IInv

LEMMA SafeStep ==
  ASSUME Separate, IInv, [Next]_vars
  PROVE  IInv' /\ ("TRUNCATED" \notin Packets /\ NoLeak => NoLeak')
<1>1. CASE UNCHANGED vars
  <2>1. Packet' = Packet
    BY <1>1 DEF Packet, vars, pool
  <2>2. Own' = Own
    BY <1>1, <2>1 DEF Own, Dangling, vars, pool, call, channel
  <2>3. TypeOK' /\ Scheduled'
    BY <1>1 DEF IInv, TypeOK, PoolOK, CallOK, SessionOK, ChannelOK, Scheduled,
       vars, pool, call, session, channel
  <2>4. Control' /\ StimPacket'
    BY <1>1, <2>1 DEF IInv, Control, StimPacket, vars, pool, call, session, channel
  <2>5. Exclusive' /\ (NoLeak => NoLeak')
    BY <1>1, <2>2 DEF IInv, Exclusive, NoLeak, vars, pool
  <2>6. Contents'
    BY <1>1 DEF IInv, Contents, PacketFrame, OneToken, vars, pool
  <2>. QED  BY <2>3, <2>4, <2>5, <2>6 DEF IInv
<1>2. CASE Next
  <2>1. Typed' /\ Scheduled'
    BY <1>2, TypedStep, ScheduledStep DEF IInv, Typed
  <2>2. Kept \/ DispatchTruncated
    BY <1>2, <2>1, KeptRx, KeptDaq, KeptStim, KeptStill, KeptMoves, KeptStimPacket
    DEF Next, MainStep, Dispatch
  <2>3. CASE Kept
    BY <2>1, <2>3 DEF Kept, Intact, IInv, Typed
  <2>4. CASE DispatchTruncated
    BY <2>1, <2>4, TruncatedExclusive DEF IInv, Typed
  <2>. QED  BY <2>2, <2>3, <2>4
<1>. QED  BY <1>1, <1>2

\* The invariant that carries the other results.
THEOREM Invariant == ASSUME Separate PROVE Spec => []IInv
<1>1. Init => IInv
  BY SafeInit
<1>2. IInv /\ [Next]_vars => IInv'
  BY SafeStep
<1>. QED  BY <1>1, <1>2, PTL DEF Spec

\* No buffer is ever in two places: on two queues, twice on one, in the
\* hands of two contexts, or queued while somebody still writes to it.
THEOREM OnePlace == ASSUME Separate PROVE Spec => []Exclusive
<1>1. IInv => Exclusive
  BY DEF IInv
<1>. QED  BY <1>1, Invariant, PTL

\* No buffer is ever lost, if no command is shorter than its table entry.
THEOREM NothingLost ==
  ASSUME Separate, "TRUNCATED" \notin Packets PROVE Spec => []NoLeak
<1>1. Init => IInv /\ NoLeak
  BY SafeInit
<1>2. (IInv /\ NoLeak) /\ [Next]_vars => (IInv /\ NoLeak)'
  BY SafeStep
<1>. QED  BY <1>1, <1>2, PTL DEF Spec

\* A frame is never appended to what an earlier use left in its buffer.
THEOREM CleanBuffers == ASSUME Separate PROVE Spec => []NoStaleBytes
<1>1. IInv => NoStaleBytes
  <2>. SUFFICES ASSUME IInv PROVE NoStaleBytes
    OBVIOUS
  <2>1. ASSUME NEW t PROVE Len(<<t>>) = 1
    OBVIOUS
  <2>. QED  BY <2>1 DEF IInv, Contents, NoStaleBytes, PacketFrame, OneToken
<1>. QED  BY <1>1, Invariant, PTL

-----------------------------------------------------------------------------
(* XcpCore implements FifoLink: what the contexts queue for transmission   *)
(* goes out once each and in order.                                        *)

\* The frames in the buffers of a queue.
FramesOf(c, q) == [i \in DOMAIN q |-> c[q[i]]]

LEMMA FramesSeq ==
  ASSUME NEW S, NEW c \in [Buffers -> S], NEW q \in Seq(Buffers)
  PROVE  /\ FramesOf(c, q) \in Seq(S)
         /\ Len(FramesOf(c, q)) = Len(q)
         /\ \A i \in 1..Len(q) : FramesOf(c, q)[i] = c[q[i]]
<1>1. Len(q) \in Nat /\ DOMAIN q = 1..Len(q) /\ \A i \in 1..Len(q) : q[i] \in Buffers
  BY LenProperties
<1>. QED  BY <1>1 DEF FramesOf

LEMMA FramesSame ==
  ASSUME NEW q \in Seq(Buffers), NEW c, NEW d, \A b \in Range(q) : c[b] = d[b]
  PROVE  FramesOf(c, q) = FramesOf(d, q)
BY DEF FramesOf, Range

LEMMA FramesAppend ==
  ASSUME NEW S, NEW c \in [Buffers -> S], NEW q \in Seq(Buffers), NEW b \in Buffers
  PROVE  FramesOf(c, Append(q, b)) = Append(FramesOf(c, q), c[b])
<1> DEFINE f == FramesOf(c, Append(q, b))
           g == Append(FramesOf(c, q), c[b])
<1>1. /\ Len(q) \in Nat /\ Append(q, b) \in Seq(Buffers)
      /\ Len(Append(q, b)) = Len(q) + 1 /\ c[b] \in S
      /\ \A i \in 1..Len(q) : Append(q, b)[i] = q[i]
      /\ Append(q, b)[Len(q) + 1] = b
  BY AppendProperties, LenProperties
<1>2. /\ f \in Seq(S) /\ Len(f) = Len(q) + 1
      /\ \A i \in 1..Len(q) + 1 : f[i] = c[Append(q, b)[i]]
  <2>1. \A a \in Seq(Buffers) : /\ FramesOf(c, a) \in Seq(S) /\ Len(FramesOf(c, a)) = Len(a)
                                 /\ \A i \in 1..Len(a) : FramesOf(c, a)[i] = c[a[i]]
    BY FramesSeq
  <2>. QED  BY <1>1, <2>1, Zenon
<1>3. /\ g \in Seq(S) /\ Len(g) = Len(q) + 1
      /\ \A i \in 1..Len(q) : g[i] = c[q[i]]
      /\ g[Len(q) + 1] = c[b]
  <2>1. /\ FramesOf(c, q) \in Seq(S) /\ Len(FramesOf(c, q)) = Len(q)
        /\ \A i \in 1..Len(q) : FramesOf(c, q)[i] = c[q[i]]
    BY FramesSeq
  <2>. QED  BY <1>1, <2>1, AppendProperties
<1>4. \A i \in 1..Len(q) + 1 : f[i] = g[i]
  <2>1. ASSUME NEW i \in 1..Len(q) + 1 PROVE i \in 1..Len(q) \/ i = Len(q) + 1
    BY <1>1
  <2>. QED  BY <1>1, <1>2, <1>3, <2>1
<1>. QED  BY <1>2, <1>3, <1>4, SeqEqual

LEMMA FramesFront ==
  ASSUME NEW S, NEW c \in [Buffers -> S], NEW q \in Seq(Buffers), NEW b \in Buffers
  PROVE  LET f == FramesOf(c, <<b>> \o q)
         IN f # <<>> /\ Head(f) = c[b] /\ Tail(f) = FramesOf(c, q)
<1> DEFINE f == FramesOf(c, <<b>> \o q)
           g == FramesOf(c, q)
<1>1. /\ <<b>> \in Seq(Buffers) /\ Len(<<b>>) = 1 /\ <<b>>[1] = b
      /\ Len(q) \in Nat
  BY LenProperties
<1>2. /\ <<b>> \o q \in Seq(Buffers) /\ Len(<<b>> \o q) = Len(q) + 1
      /\ (<<b>> \o q)[1] = b
      /\ \A i \in 1..Len(q) : (<<b>> \o q)[i + 1] = q[i]
  BY <1>1, ConcatProperties
<1>3. /\ f \in Seq(S) /\ Len(f) = Len(q) + 1
      /\ \A i \in 1..Len(q) + 1 : f[i] = c[(<<b>> \o q)[i]]
  <2>1. \A a \in Seq(Buffers) : /\ FramesOf(c, a) \in Seq(S) /\ Len(FramesOf(c, a)) = Len(a)
                                 /\ \A i \in 1..Len(a) : FramesOf(c, a)[i] = c[a[i]]
    BY FramesSeq
  <2>. QED  BY <1>2, <2>1, Zenon
<1>4. /\ g \in Seq(S) /\ Len(g) = Len(q)
      /\ \A i \in 1..Len(q) : g[i] = c[q[i]]
  BY FramesSeq
<1>5. f # <<>> /\ Head(f) = c[b]
  BY <1>1, <1>2, <1>3
<1>6. /\ Tail(f) \in Seq(S) /\ Len(Tail(f)) = Len(q)
      /\ \A i \in 1..Len(q) : Tail(f)[i] = f[i + 1]
  BY <1>1, <1>3, <1>5, HeadTailProperties
<1>7. ASSUME NEW i \in 1..Len(q) PROVE Tail(f)[i] = g[i]
  <2>1. i + 1 \in 1..Len(q) + 1
    BY <1>1
  <2>2. f[i + 1] = c[q[i]]
    BY <1>2, <1>3, <2>1
  <2>. QED  BY <1>4, <1>6, <2>2
<1>. QED  BY <1>4, <1>5, <1>6, <1>7, SeqEqual

-----------------------------------------------------------------------------
(* The frames on their way: those in the transmit queue, behind the one    *)
(* that Xcp_Transmit_Main has in its hands.                                *)

Sending == IF mpc = "send" THEN {held["item"]} ELSE {}

LEMMA InFlightRange ==
  ASSUME IInv
  PROVE  /\ InFlight \in Seq(Buffers)
         /\ Range(InFlight) = Range(tx) \cup Sending
         /\ mpc = "send" => held["item"] \in Buffers /\ held["item"] \notin Range(tx)
<1>1. PoolOK /\ tx \in Seq(Buffers) /\ IsInjective(tx) /\ Exclusive /\ Control
  BY DEF IInv, TypeOK, PoolOK, Exclusive
<1>2. "item" \in Slots \ StimLists /\ Own["item"] = held["item"]
  BY NotStim, OwnHeld DEF MainSlots
<1>3. mpc = "send" => held["item"] \in Buffers /\ held["item"] \notin Range(tx)
  BY <1>1, <1>2 DEF Control, PoolOK, Exclusive
<1>4. CASE mpc = "send"
  <2>1. /\ <<held["item"]>> \o tx \in Seq(Buffers)
        /\ Range(<<held["item"]>> \o tx) = {held["item"]} \cup Range(tx)
    BY <1>1, <1>3, <1>4, FrontRange
  <2>. QED  BY <1>3, <1>4, <2>1 DEF InFlight, Sending
<1>5. CASE mpc # "send"
  BY <1>1, <1>3, <1>5 DEF InFlight, Sending
<1>. QED  BY <1>4, <1>5

\* A free buffer, and one in the hands of another slot, is not on its way.
LEMMA NotInFlight ==
  ASSUME IInv
  PROVE  /\ \A b \in Range(free) : b \notin Range(InFlight)
         /\ \A s \in Slots \ {"item"} : Own[s] # NoBuffer => Own[s] \notin Range(InFlight)
<1>1. Exclusive /\ Control
  BY DEF IInv
<1>2. "item" \in Slots /\ Own["item"] = held["item"]
  BY NotStim, OwnHeld DEF MainSlots
<1>3. Range(InFlight) = Range(tx) \cup Sending
  BY InFlightRange
<1>4. mpc = "send" => held["item"] # NoBuffer
  BY <1>1 DEF Control
<1>. QED  BY <1>1, <1>2, <1>3, <1>4 DEF Exclusive, Sending

\* A step that touches neither the queue nor a buffer on its way.
LEMMA LinkStays ==
  ASSUME IInv, tx' = tx, wire' = wire, held'["item"] = held["item"],
         mpc' = "send" <=> mpc = "send",
         \A b \in Range(InFlight) : content'[b] = content[b]
  PROVE  UNCHANGED Link!linkVars
<1>1. InFlight' = InFlight
  BY DEF InFlight
<1>2. FramesOf(content', InFlight) = FramesOf(content, InFlight)
  BY InFlightRange, FramesSame
<1>. QED  BY <1>1, <1>2 DEF Link!linkVars, Carried, FramesOf

\* A buffer is taken from the free list by another slot.
LEMMA LinkGetFree ==
  ASSUME IInv, NEW s \in Slots \ {"item"}, NEW data, GetFree(s, data), wire' = wire,
         mpc' = "send" <=> mpc = "send"
  PROVE  UNCHANGED Link!linkVars
<1>1. PoolOK /\ IsInjective(free)
  BY DEF IInv, TypeOK, Exclusive
<1>2. Head(free) \in Range(free)
  BY <1>1, HeadTailRange DEF GetFree, PoolOK
<1>3. \A b \in Range(InFlight) : b \in Buffers /\ b # Head(free)
  BY <1>2, NotInFlight, InFlightRange, RangeOfSeq
<1>4. \A b \in Range(InFlight) : content'[b] = content[b]
  BY <1>1, <1>3 DEF GetFree, PoolOK
<1>5. tx' = tx /\ held'["item"] = held["item"]
  BY <1>1, NotStim DEF GetFree, PoolOK, MainSlots
<1>. QED  BY <1>4, <1>5, LinkStays

\* The buffer of another slot is freed.
LEMMA LinkFreeBuffer ==
  ASSUME IInv, NEW s \in Slots \ {"item"}, FreeBuffer(Own[s]), wire' = wire,
         held'["item"] = held["item"], mpc' = "send" <=> mpc = "send"
  PROVE  UNCHANGED Link!linkVars
<1>1. PoolOK
  BY DEF IInv, TypeOK
<1>2. \A b \in Range(InFlight) : b \in Buffers /\ (Own[s] # NoBuffer => b # Own[s])
  BY NotInFlight, InFlightRange, RangeOfSeq
<1>3. \A b \in Range(InFlight) : content'[b] = content[b]
  BY <1>1, <1>2 DEF FreeBuffer, PoolOK
<1>. QED  BY <1>3, LinkStays DEF FreeBuffer

\* A slot's frame is appended to the queue.
LEMMA LinkPutTx ==
  ASSUME IInv, NEW s \in DaqLists \cup {"e"}, held[s] # NoBuffer, PutTx(s), wire' = wire,
         mpc' = "send" <=> mpc = "send"
  PROVE  Link!Next
<1>1. /\ PoolOK /\ s \in Slots /\ s # "item" /\ "item" \in Slots
      /\ content \in [Buffers -> Seq(Tokens)] /\ tx \in Seq(Buffers)
  BY NotStim, DistinctAssumption DEF IInv, TypeOK, PoolOK, MainSlots
<1>2. held[s] \in Buffers /\ OneToken(held[s])
  BY <1>1 DEF PoolOK, IInv, Contents
<1>3. tx' = Append(tx, held[s]) /\ content' = content /\ held'["item"] = held["item"]
  BY <1>1 DEF PutTx, PoolOK
<1>4. InFlight' = Append(InFlight, held[s])
  <2>1. CASE mpc = "send"
    <3>1. <<held["item"]>> \o Append(tx, held[s]) = Append(<<held["item"]>> \o tx, held[s])
      <4>1. held["item"] \in Buffers
        BY <2>1, InFlightRange
      <4>2. <<held["item"]>> \in Seq(Buffers) /\ <<held[s]>> \in Seq(Buffers)
        BY <1>2, <4>1
      <4>3. \A q \in Seq(Buffers) : Append(q, held[s]) = q \o <<held[s]>>
        BY <1>2, AppendIsConcat
      <4>4. <<held["item"]>> \o tx \in Seq(Buffers)
        BY <1>1, <4>2, ConcatProperties
      <4>5. <<held["item"]>> \o (tx \o <<held[s]>>) = (<<held["item"]>> \o tx) \o <<held[s]>>
        BY <1>1, <4>2, ConcatAssociative
      <4>. QED  BY <1>1, <4>3, <4>4, <4>5
    <3>. QED  BY <1>3, <2>1, <3>1 DEF InFlight
  <2>2. CASE mpc # "send"
    BY <1>3, <2>2 DEF InFlight
  <2>. QED  BY <2>1, <2>2
<1>5. FramesOf(content, Append(InFlight, held[s]))
        = Append(FramesOf(content, InFlight), content[held[s]])
  BY <1>1, <1>2, InFlightRange, FramesAppend
<1>6. Carried(InFlight)' = Append(Carried(InFlight), content[held[s]])
  BY <1>3, <1>4, <1>5 DEF Carried, FramesOf
<1>7. content[held[s]] \in {<<t>> : t \in Tokens}
  BY <1>2 DEF OneToken
<1>. QED  BY <1>6, <1>7 DEF Link!Next, Link!Accept

\* Xcp_Transmit_Main takes a frame and puts it back, or it goes out.
LEMMA LinkTransmit ==
  ASSUME IInv, Transmit \/ SendFail
  PROVE  UNCHANGED Link!linkVars
<1>1. PoolOK /\ TypeOK /\ tx \in Seq(Buffers) /\ "item" \in Slots
  BY NotStim DEF IInv, TypeOK, PoolOK, MainSlots
<1>2. InFlight' = InFlight
  <2>1. CASE Transmit
    <3>1. tx # <<>> /\ tx' = Tail(tx) /\ held'["item"] = Head(tx) /\ mpc' = "send"
      BY <1>1, <2>1 DEF Transmit, GetTx, Goto, PoolOK
    <3>2. <<Head(tx)>> \o Tail(tx) = tx
      <4>1. Head(tx) \in Buffers /\ Tail(tx) \in Seq(Buffers)
        BY <1>1, <3>1, HeadTailProperties
      <4>2. /\ <<Head(tx)>> \in Seq(Buffers) /\ Len(<<Head(tx)>>) = 1
            /\ <<Head(tx)>>[1] = Head(tx)
        BY <4>1
      <4>3. /\ Len(tx) \in Nat \ {0} /\ Head(tx) = tx[1] /\ Len(Tail(tx)) = Len(tx) - 1
            /\ \A i \in 1..Len(tx) - 1 : Tail(tx)[i] = tx[i + 1]
        BY <1>1, <3>1, HeadTailProperties, EmptySeq
      <4>4. /\ <<Head(tx)>> \o Tail(tx) \in Seq(Buffers)
            /\ Len(<<Head(tx)>> \o Tail(tx)) = Len(tx)
            /\ \A i \in 1..Len(tx) : (<<Head(tx)>> \o Tail(tx))[i]
                                       = IF i <= 1 THEN Head(tx) ELSE Tail(tx)[i - 1]
        BY <4>1, <4>2, <4>3, ConcatProperties
      <4>5. ASSUME NEW i \in 1..Len(tx) PROVE (<<Head(tx)>> \o Tail(tx))[i] = tx[i]
        BY <4>3, <4>4
      <4>. QED  BY <1>1, <4>4, <4>5, SeqEqual
    <3>. QED  BY <2>1, <3>1, <3>2 DEF InFlight, Transmit
  <2>2. CASE SendFail
    <3>1. mpc = "send" /\ mpc' # "send"
      BY <1>1, <2>2, TypedReturn DEF SendFail
    <3>. QED  BY <2>2, <3>1 DEF SendFail, PutFrontTx, InFlight
  <2>. QED  BY <2>1, <2>2
<1>3. content' = content /\ wire' = wire
  BY DEF Transmit, SendFail, GetTx, PutFrontTx
<1>. QED  BY <1>2, <1>3 DEF Link!linkVars, Carried

LEMMA LinkDeliver ==
  ASSUME IInv, SendOk
  PROVE  Link!Deliver
<1>1. /\ PoolOK /\ TypeOK /\ mpc = "send" /\ tx \in Seq(Buffers)
      /\ content \in [Buffers -> Seq(Tokens)]
  BY DEF IInv, TypeOK, PoolOK, SendOk
<1>2. held["item"] \in Buffers /\ held["item"] \notin Range(tx) /\ held["item"] # NoBuffer
  BY <1>1, InFlightRange, DistinctAssumption
<1>3. /\ tx' = tx /\ wire' = content[held["item"]]
      /\ content' = [content EXCEPT ![held["item"]] = <<>>]
  BY <1>2 DEF SendOk, FreeBuffer
<1>4. mpc' # "send"
  BY <1>1, TypedReturn DEF SendOk, Goto
<1>5. InFlight = <<held["item"]>> \o tx /\ InFlight' = tx
  BY <1>1, <1>3, <1>4 DEF InFlight
<1>6. /\ FramesOf(content, InFlight) # <<>>
      /\ Head(FramesOf(content, InFlight)) = content[held["item"]]
      /\ Tail(FramesOf(content, InFlight)) = FramesOf(content, tx)
  BY <1>1, <1>2, <1>5, FramesFront
<1>7. FramesOf(content', tx) = FramesOf(content, tx)
  <2>1. \A b \in Range(tx) : b \in Buffers /\ b # held["item"]
    BY <1>1, <1>2, RangeOfSeq
  <2>2. \A b \in Range(tx) : content'[b] = content[b]
    BY <1>1, <1>3, <2>1
  <2>. QED  BY <1>1, <2>2, FramesSame
<1>8. Carried(InFlight) = FramesOf(content, InFlight) /\ Carried(InFlight)' = FramesOf(content', tx)
  BY <1>5 DEF Carried, FramesOf
<1>. QED  BY <1>3, <1>6, <1>7, <1>8 DEF Link!Deliver

-----------------------------------------------------------------------------
(* The steps of each context                                               *)

\* The steps that leave the queue and the contents of the buffers alone.
LEMMA LinkStill ==
  ASSUME IInv, UNCHANGED <<tx, content, wire>>, held'["item"] = held["item"],
         mpc' = "send" <=> mpc = "send"
  PROVE  UNCHANGED Link!linkVars
BY LinkStays

LEMMA LinkRx ==
  ASSUME IInv, NEW r \in RxContexts, RxStep(r)
  PROVE  UNCHANGED Link!linkVars
<1>1. r \in Slots \ {"item"} /\ "item" \in Slots /\ PoolOK
  BY NotStim, DistinctAssumption DEF IInv, TypeOK, MainSlots
<1>2. CASE RxPut(r)
  BY <1>1, <1>2, LinkStill DEF RxPut, PutRx, PoolOK, call
<1>3. ASSUME NEW p \in Packets, RxGet(r, p) PROVE UNCHANGED Link!linkVars
  BY <1>1, <1>3, LinkGetFree DEF RxGet, call
<1>. QED  BY <1>2, <1>3 DEF RxStep

LEMMA LinkDaq ==
  ASSUME IInv, NEW d \in DaqLists, StartDaq(d) \/ DaqStep(d)
  PROVE  Link!Next \/ UNCHANGED Link!linkVars
<1>1. d \in Slots \ {"item"} /\ Control /\ mpc' = mpc /\ wire' = wire
  BY NotStim, DistinctAssumption
  DEF IInv, MainSlots, StartDaq, DaqStep, Sample, QueueSample, MissSample, EndDaq, call
<1>2. CASE Sample(d)
  BY <1>1, <1>2, LinkGetFree DEF Sample
<1>3. CASE QueueSample(d)
  BY <1>1, <1>3, LinkPutTx DEF QueueSample, Control
<1>4. CASE StartDaq(d) \/ MissSample(d) \/ EndDaq(d)
  BY <1>1, <1>4, LinkStill DEF StartDaq, MissSample, EndDaq, pool
<1>. QED  BY <1>2, <1>3, <1>4 DEF DaqStep

LEMMA LinkStim ==
  ASSUME IInv, Separate, NEW s \in StimLists, StartStim(s) \/ StimStep(s)
  PROVE  UNCHANGED Link!linkVars
<1>1. /\ s \in Slots \ {"item"} /\ PoolOK /\ "item" \in Slots /\ Scheduled
      /\ mpc' = mpc /\ wire' = wire
  BY NotStim, DistinctAssumption
  DEF IInv, TypeOK, MainSlots, Slots, Tasks, StartStim, StimStep, FreeStim, ClearStim, call
<1>2. CASE StartStim(s)
  BY <1>1, <1>2, LinkStill DEF StartStim, pool
<1>3. CASE FreeStim(s)
  <2>1. Own[s] = held[s]
    BY <1>1, <1>3, TaskAlone DEF FreeStim, Own, Dangling
  <2>. QED  BY <1>1, <1>3, <2>1, LinkFreeBuffer DEF FreeStim
<1>4. CASE ClearStim(s)
  BY <1>1, <1>4, LinkStill DEF ClearStim, PoolOK
<1>. QED  BY <1>2, <1>3, <1>4 DEF StimStep

\* The steps of Xcp_MainFunction that move no frame.
LEMMA LinkControl ==
  ASSUME IInv,
         \/ MainStart \/ DisconnectStart \/ DisconnectEvent
         \/ DisconnectRecall \/ DisconnectFinish
         \/ Work \/ Receive \/ ReceiveEmpty \/ TransmitEmpty \/ DropReply \/ Ignore
         \/ DispatchConnect \/ DispatchDisconnect \/ DispatchCommand
         \/ DispatchSilent \/ DispatchUpload \/ DispatchTransport \/ DispatchTruncated
         \/ \E s \in StimLists : StoreStim(s)
  PROVE  UNCHANGED Link!linkVars
<1>1. TypeOK /\ Control /\ PoolOK /\ "item" \in Slots /\ StimLists \subseteq Slots \ MainSlots
  BY NotStim DEF IInv, TypeOK, MainSlots
<1>2. mpc # "send" /\ UNCHANGED <<tx, content, wire>>
  BY DEF MainStart, DisconnectStart, DisconnectEvent, DisconnectRecall, DisconnectFinish,
         Work, Receive, GetRx, ReceiveEmpty, TransmitEmpty, DropReply, Ignore,
         DispatchConnect, DispatchDisconnect, DispatchCommand, DispatchSilent,
         DispatchUpload, DispatchTransport, DispatchTruncated, StoreStim, Dispatched,
         Answer, pool
<1>3. held'["item"] = held["item"]
  <2>1. CASE Receive \/ DispatchTruncated
    BY <1>1, <2>1 DEF Receive, GetRx, DispatchTruncated, PoolOK
  <2>2. ASSUME NEW s \in StimLists, StoreStim(s) PROVE held'["item"] = held["item"]
    BY <1>1, <2>2 DEF StoreStim, PoolOK, MainSlots
  <2>3. CASE ~Receive /\ ~DispatchTruncated /\ ~\E s \in StimLists : StoreStim(s)
    BY <2>3 DEF MainStart, DisconnectStart, DisconnectEvent, DisconnectRecall,
         DisconnectFinish, Work, ReceiveEmpty, TransmitEmpty, DropReply, Ignore,
         DispatchConnect, DispatchDisconnect, DispatchCommand, DispatchSilent,
         DispatchUpload, DispatchTransport, Answer, pool
  <2>. QED  BY <2>1, <2>2, <2>3
<1>4. mpc' # "send"
  <2>1. CASE TransmitEmpty
    BY <1>1, <2>1, TypedReturn DEF TransmitEmpty
  <2>2. CASE DropReply
    BY <1>1, <2>2, TypedAnswered DEF DropReply
  <2>3. CASE ~TransmitEmpty /\ ~DropReply
    BY <2>3 DEF MainStart, DisconnectStart, DisconnectEvent, DisconnectRecall,
         DisconnectFinish, Work, Receive, ReceiveEmpty, Ignore, DispatchConnect,
         DispatchDisconnect, DispatchCommand, DispatchSilent, DispatchUpload,
         DispatchTransport, DispatchTruncated, StoreStim, Answer, CallMain, Goto
  <2>. QED  BY <2>1, <2>2, <2>3
<1>. QED  BY <1>2, <1>3, <1>4, LinkStill

\* Those that do.
LEMMA LinkMoves ==
  ASSUME IInv, Separate,
         \/ Release \/ Respond \/ QueueReply \/ Transmit \/ SendOk \/ SendFail
         \/ \E s \in StimLists : DispatchStim(s)
  PROVE  Link!Next \/ UNCHANGED Link!linkVars
<1>1. /\ TypeOK /\ Control /\ PoolOK /\ Scheduled
      /\ MainSlots \subseteq Slots \ StimLists /\ StimLists \subseteq Slots \ MainSlots
      /\ \A s \in MainSlots : Own[s] = held[s]
  BY NotStim, OwnHeld DEF IInv, TypeOK
<1>2. CASE Release
  <2>1. /\ "it" \in Slots \ {"item"} /\ FreeBuffer(Own["it"]) /\ wire' = wire
        /\ held'["item"] = held["item"] /\ mpc # "send" /\ mpc' # "send"
    BY <1>1, <1>2 DEF Release, Goto, PoolOK, MainSlots
  <2>. QED  BY <2>1, LinkFreeBuffer
<1>3. CASE Respond
  <2>1. /\ "e" \in Slots \ {"item"} /\ GetFree("e", Written(Head(reply), 0))
        /\ wire' = wire /\ mpc # "send" /\ mpc' # "send"
    BY <1>1, <1>3 DEF Respond, Goto, MainSlots
  <2>. QED  BY <2>1, LinkGetFree
<1>4. CASE QueueReply
  <2>1. mpc' # "send"
    BY <1>1, <1>4, TypedAnswered DEF QueueReply
  <2>2. held["e"] # NoBuffer /\ PutTx("e") /\ wire' = wire /\ mpc # "send"
    BY <1>1, <1>4 DEF QueueReply, Control
  <2>. QED  BY <2>1, <2>2, LinkPutTx
<1>5. CASE Transmit \/ SendFail
  BY <1>5, LinkTransmit
<1>6. CASE SendOk
  BY <1>6, LinkDeliver DEF Link!Next
<1>7. ASSUME NEW s \in StimLists, DispatchStim(s) PROVE UNCHANGED Link!linkVars
  <2>1. tpc[s] = "idle" /\ mpc = "dispatch"
    BY <1>1, <1>7, MainAlone DEF DispatchStim, Dispatched
  <2>2. Own[s] = held[s]
    BY <1>1, <2>1 DEF Own, Dangling
  <2>3. /\ s \in Slots \ {"item"} /\ FreeBuffer(Own[s]) /\ wire' = wire
        /\ held'["item"] = held["item"] /\ mpc' # "send"
    BY <1>1, <1>7, <2>2 DEF DispatchStim, Goto, MainSlots
  <2>. QED  BY <2>1, <2>3, LinkFreeBuffer
<1>. QED  BY <1>2, <1>3, <1>4, <1>5, <1>6, <1>7

-----------------------------------------------------------------------------
(* The theorem                                                             *)

LEMMA LinkInit == Init => Link!Init
<1>. SUFFICES ASSUME Init PROVE Link!Init
  OBVIOUS
<1>1. InFlight = <<>> /\ wire = <<>>
  BY DEF Init, InFlight
<1>2. Carried(<<>>) = <<>>
  BY DEF Carried
<1>. QED  BY <1>1, <1>2 DEF Link!Init

LEMMA LinkStep == Separate /\ IInv /\ [Next]_vars => [Link!Next]_(Link!linkVars)
<1>1. ASSUME IInv, UNCHANGED vars PROVE UNCHANGED Link!linkVars
  BY <1>1, LinkStill DEF vars, pool, call
<1>2. ASSUME Separate, IInv, Next PROVE Link!Next \/ UNCHANGED Link!linkVars
  BY <1>2, LinkRx, LinkDaq, LinkStim, LinkControl, LinkMoves
  DEF Next, MainStep, Dispatch
<1>. QED  BY <1>1, <1>2

\* The transmit side of XcpCore is the FIFO link of FifoLink: the responses
\* of Xcp_Recieve_Main, the frames of the upload worker, the events and the
\* samples of the channel tasks leave through Xcp_Transmit_Main once each and
\* in the order in which they were queued, whatever the transport refuses.
THEOREM ImplementsLink == ASSUME Separate PROVE Spec => TxInOrder
<1>1. Spec => []IInv
  BY Invariant
<1>2. IInv /\ [Next]_vars => [Link!Next]_(Link!linkVars)
  BY LinkStep
<1>. QED  BY <1>1, <1>2, LinkInit, PTL DEF Spec, TxInOrder, Link!Spec
=============================================================================
