----------------------------- MODULE QueueLemmas -----------------------------
(***************************************************************************)
(* What the proofs need about queues and numbers: the queues of frames are *)
(* sequences that grow at the end and shrink at the front, and induction   *)
(* over the natural numbers goes by the least number that would be a       *)
(* counterexample.                                                         *)
(***************************************************************************)
EXTENDS Integers, SequenceTheorems, FiniteSetTheorems, WellFoundedInduction, TLAPS

IsSequence(s) == \E S : s \in Seq(S)

-----------------------------------------------------------------------------
(* Induction                                                               *)

LEMMA LeastNumber ==
  ASSUME NEW T \in SUBSET Nat, T # {}
  PROVE  \E n \in T : \A m \in T : n <= m
<1> DEFINE R == OpToRel(<, Nat)
<1>1. IsWellFoundedOn(R, Nat)
  BY NatLessThanWellFounded DEF OpToRel
<1>2. PICK n \in T : \A m \in T : <<m, n>> \notin R
  <2>. HIDE DEF R
  <2>. QED  BY <1>1, WFMin
<1>3. \A m \in T : ~(m < n)
  BY <1>2 DEF OpToRel
<1>. QED  BY <1>3

\* A set of numbers that 0 is in and with each number the next one.
LEMMA AllNumbers ==
  ASSUME NEW S, 0 \in S, \A n \in Nat : n \in S => n + 1 \in S
  PROVE  Nat \subseteq S
<1>. SUFFICES ASSUME Nat \ S # {} PROVE FALSE
  OBVIOUS
<1>1. PICK n \in Nat \ S : \A m \in Nat \ S : n <= m
  BY LeastNumber
<1>2. n # 0 /\ n - 1 \in Nat /\ n - 1 \in S
  BY <1>1
<1>3. (n - 1) + 1 \in S
  BY <1>2
<1>. QED  BY <1>1, <1>2, <1>3

\* A finite set of numbers has a greatest one.
LEMMA GreatestNumber ==
  ASSUME NEW T \in SUBSET Nat, T # {}, IsFiniteSet(T)
  PROVE  \E n \in T : \A m \in T : m <= n
<1>0. PICK n \in Nat : ExistsSurjection(1..n, T)
  BY FS_NatSurjection
<1>1. PICK f : f \in Surjection(1..n, T)
  BY <1>0 DEF ExistsSurjection
<1>2. f \in [1..n -> T] /\ \A t \in T : \E i \in 1..n : f[i] = t
  BY <1>1 DEF Surjection
<1> DEFINE Bounded(k) == \E b \in T : \A i \in 1..k : f[i] <= b
           S == {k \in Nat : k \in 0..n => Bounded(k)}
<1>3. 0 \in S
  <2>1. \A i : i \notin 1..0
    OBVIOUS
  <2>. QED  BY <2>1
<1>4. ASSUME NEW k \in Nat, k \in S PROVE k + 1 \in S
  <2>. SUFFICES ASSUME k + 1 \in 0..n PROVE Bounded(k + 1)
    OBVIOUS
  <2>1. PICK b \in T : \A i \in 1..k : f[i] <= b
    BY <1>4
  <2>2. f[k + 1] \in T
    BY <1>2
  <2>3. PICK c \in T : c = IF f[k + 1] <= b THEN b ELSE f[k + 1]
    BY <2>2
  <2>4. b <= c /\ f[k + 1] <= c
    BY <2>2, <2>3
  <2>5. \A i \in 1..k + 1 : i \in 1..k \/ i = k + 1
    OBVIOUS
  <2>6. \A i \in 1..k : f[i] \in Nat
    <3>1. \A i \in 1..k : i \in 1..n
      OBVIOUS
    <3>. QED  BY <1>2, <3>1
  <2>. QED  BY <2>1, <2>4, <2>5, <2>6
<1>5. Nat \subseteq S
  <2>. HIDE DEF S
  <2>. QED  BY <1>3, <1>4, AllNumbers
<1>6. PICK b \in T : \A i \in 1..n : f[i] <= b
  BY <1>5
<1>. QED  BY <1>2, <1>6

-----------------------------------------------------------------------------
(* Sequences                                                               *)

LEMMA Appended ==
  ASSUME NEW S, NEW s \in Seq(S), NEW e
  PROVE  /\ Append(s, e) \in Seq(S \cup {e}) /\ Len(s) \in Nat
         /\ Len(Append(s, e)) = Len(s) + 1
         /\ DOMAIN s = 1..Len(s) /\ DOMAIN Append(s, e) = 1..Len(s) + 1
         /\ \A i \in 1..Len(s) : Append(s, e)[i] = s[i]
         /\ Append(s, e)[Len(s) + 1] = e
<1>1. s \in Seq(S \cup {e})
  BY SeqMonotonic
<1>. QED  BY <1>1, AppendProperties, LenProperties

LEMMA Dropped ==
  ASSUME NEW S, NEW s \in Seq(S), s # <<>>
  PROVE  /\ Tail(s) \in Seq(S) /\ Len(s) \in Nat \ {0}
         /\ Len(Tail(s)) = Len(s) - 1
         /\ DOMAIN s = 1..Len(s) /\ DOMAIN Tail(s) = 1..Len(s) - 1
         /\ \A i \in 1..Len(s) - 1 : Tail(s)[i] = s[i + 1]
         /\ Head(s) = s[1]
BY HeadTailProperties, LenProperties, EmptySeq

LEMMA Joined ==
  ASSUME NEW S, NEW s \in Seq(S), NEW n \in Nat, NEW f, f = [o \in 1..n |-> f[o]]
  PROVE  /\ IsSequence(s \o f)
         /\ Len(s) \in Nat /\ Len(s \o f) = Len(s) + n
         /\ DOMAIN s = 1..Len(s) /\ DOMAIN (s \o f) = 1..Len(s) + n
         /\ \A i \in 1..Len(s) : (s \o f)[i] = s[i]
         /\ \A o \in 1..n : (s \o f)[Len(s) + o] = f[o]
<1> DEFINE T == S \cup {f[o] : o \in 1..n}
<1>1. s \in Seq(T)
  BY SeqMonotonic
<1>2. f \in Seq(T) /\ Len(f) = n
  <2>1. f \in [1..n -> T]
    OBVIOUS
  <2>. QED  BY <2>1, IsASeq, LenProperties
<1>3. s \o f \in Seq(T) /\ Len(s \o f) = Len(s) + n /\ Len(s) \in Nat
  BY <1>1, <1>2, ConcatProperties, LenProperties
<1>4. IsSequence(s \o f)
  BY <1>3 DEF IsSequence
<1>. QED  BY <1>1, <1>2, <1>3, <1>4, ConcatProperties, LenProperties

\* What goes into a queue and out of it.
LEMMA Pushed ==
  ASSUME NEW s, IsSequence(s), NEW e
  PROVE  /\ IsSequence(Append(s, e)) /\ Len(s) \in Nat /\ Len(Append(s, e)) = Len(s) + 1
         /\ DOMAIN s = 1..Len(s) /\ DOMAIN Append(s, e) = 1..Len(s) + 1
         /\ \A i \in DOMAIN s : Append(s, e)[i] = s[i]
         /\ Append(s, e)[Len(s) + 1] = e
<1>1. PICK S : s \in Seq(S)
  BY DEF IsSequence
<1>2. /\ Append(s, e) \in Seq(S \cup {e}) /\ Len(s) \in Nat
      /\ Len(Append(s, e)) = Len(s) + 1
      /\ DOMAIN s = 1..Len(s) /\ DOMAIN Append(s, e) = 1..Len(s) + 1
      /\ \A i \in 1..Len(s) : Append(s, e)[i] = s[i]
      /\ Append(s, e)[Len(s) + 1] = e
  BY <1>1, Appended
<1>3. IsSequence(Append(s, e))
  BY <1>2 DEF IsSequence
<1>. QED  BY <1>2, <1>3

\* What goes into an empty queue is alone in it.
LEMMA PushedFirst ==
  ASSUME NEW s, IsSequence(s), Len(s) = 0, NEW e
  PROVE  IsSequence(Append(s, e)) /\ DOMAIN Append(s, e) = {1} /\ Append(s, e)[1] = e
<1>1. /\ IsSequence(Append(s, e)) /\ DOMAIN Append(s, e) = 1..Len(s) + 1
      /\ Append(s, e)[Len(s) + 1] = e
  BY Pushed
<1>2. 1..0 + 1 = {1} /\ 0 + 1 = 1
  OBVIOUS
<1>. QED  BY <1>1, <1>2

LEMMA Popped ==
  ASSUME NEW s, IsSequence(s), s # <<>>
  PROVE  /\ IsSequence(Tail(s)) /\ Len(s) \in Nat \ {0} /\ Len(Tail(s)) = Len(s) - 1
         /\ DOMAIN s = 1..Len(s) /\ DOMAIN Tail(s) = 1..Len(s) - 1 /\ 1 \in DOMAIN s
         /\ \A i \in DOMAIN Tail(s) : i + 1 \in DOMAIN s /\ Tail(s)[i] = s[i + 1]
         /\ Head(s) = s[1]
<1>1. PICK S : s \in Seq(S)
  BY DEF IsSequence
<1>. QED  BY <1>1, Dropped DEF IsSequence

LEMMA Nonempty ==
  ASSUME NEW s, IsSequence(s)
  PROVE  /\ Len(s) \in Nat /\ DOMAIN s = 1..Len(s)
         /\ s = <<>> <=> DOMAIN s = {}
         /\ s = <<>> <=> Len(s) = 0
<1>1. PICK S : s \in Seq(S)
  BY DEF IsSequence
<1>. QED  BY <1>1, EmptySeq, LenProperties
==============================================================================
