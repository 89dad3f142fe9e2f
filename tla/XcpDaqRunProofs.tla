---------------------------- MODULE XcpDaqRunProofs ----------------------------
(***************************************************************************)
(* Proofs about XcpDaqRun, for every layout of the lists, every number of  *)
(* buffers and every store.                                                *)
(*                                                                         *)
(* What Xcp_GetOdt finds for a number is by induction, taken from the      *)
(* least number that would be a counterexample.  The rest is about the     *)
(* buffers and their order: where each one is, and which frames of which   *)
(* list can still be heard.                                                *)
(***************************************************************************)
EXTENDS XcpDaqRun, QueueLemmas, FiniteSetTheorems

-----------------------------------------------------------------------------
(* The inductive invariant                                                 *)

\* The ODTs there are.
Places == UNION {{l} \X Odts(l) : l \in Lists}

Typed ==
  /\ header \in Headers /\ built \in BOOLEAN
  /\ mode \in [Lists -> SUBSET {"RUNNING", "STIM", "CHANNEL"}]
  /\ \A l \in Lists : ~built => mode[l] = {}
  /\ pending = [l \in Lists |-> [o \in Odts(l) |-> pending[l][o]]]
  /\ due = [l \in Lists |-> [o \in Odts(l) |-> due[l][o]]]
  /\ free \in Nat /\ leaked \in Nat /\ IsSequence(rx) /\ IsSequence(tx)
  /\ master \in [call : Calls \cup {NoCall}, quiet : SUBSET Lists]
  /\ heard = [l \in Lists |-> heard[l]]
  /\ bounds \in [calls : Nat, packets : Nat, refused : Nat]

\* STIM packets and calls do not overlap: the master waits for the answers.
IsStim(p) == /\ p.cmd = "STIM" /\ p.pid \in Nat /\ p.list \in Lists /\ p.odt \in Odts(p.list)
             /\ p.len \in Int /\ p.data \in Seq(Nat)
IsSample(f) == f.kind = "DTO"
Unanswered == \A i \in DOMAIN tx : IsSample(tx[i])

InFlight ==
  /\ \A i \in DOMAIN tx : tx[i].kind \in {"DTO", "RES", "ERR"}
  /\ master.call = NoCall => \A i \in DOMAIN rx : IsStim(rx[i])
  /\ master.call # NoCall =>
       /\ \A i \in DOMAIN rx : i = 1 /\ rx[i] = master.call
       /\ rx # <<>> => Unanswered
       /\ \A i, j \in DOMAIN tx : ~IsSample(tx[i]) /\ ~IsSample(tx[j]) => i = j

\* A list that is stopped, or whose STOP was answered, sends nothing more:
\* behind the answer there is no frame of it.
SampleOf(f, l) == f.kind = "DTO" /\ f.list = l

Stopped ==
  \A l \in master.quiet :
    /\ "RUNNING" \notin mode[l]
    /\ master.call # [cmd |-> "START", list |-> l]
    /\ \A i \in DOMAIN tx : ~SampleOf(tx[i], l)

Stopping ==
  master.call # NoCall /\ master.call.cmd = "STOP" =>
    \A i \in DOMAIN tx : tx[i].kind = "RES" =>
      /\ "RUNNING" \notin mode[master.call.list]
      /\ \A j \in DOMAIN tx : j > i => ~SampleOf(tx[j], master.call.list)

\* An ODT that is not the first one has the one before it in front of it.
Follows(f, g) == f.kind = "DTO" /\ f.list = g.list /\ f.event = g.event /\ f.odt = g.odt - 1

InOrder ==
  \A i \in DOMAIN tx : IsSample(tx[i]) =>
    /\ tx[i].list \in Lists /\ tx[i].odt \in Nat
    /\ \/ tx[i].odt = 1
       \/ IF i = 1 THEN heard[tx[1].list] = [event |-> tx[1].event, odt |-> tx[1].odt - 1]
          ELSE Follows(tx[i - 1], tx[i])

IInv == Typed /\ BuffersAccounted /\ InFlight /\ Stopped /\ Stopping /\ InOrder

-----------------------------------------------------------------------------
(* Xcp_GetOdt                                                              *)

LEMMA LayoutType ==
  /\ Len(Layout) \in Nat /\ Lists = 1..Len(Layout) /\ IsFiniteSet(Lists)
  /\ \A l \in Lists : Len(Layout[l]) \in Nat \ {0} /\ Odts(l) = 1..Len(Layout[l]) /\ IsFiniteSet(Odts(l))
<1>1. Len(Layout) \in Nat
  BY RunAssumption, LenProperties
<1>2. ASSUME NEW l \in Lists PROVE Len(Layout[l]) \in Nat \ {0} /\ IsFiniteSet(Odts(l))
  <2>1. Layout[l] \in Seq(Seq(Entries))
    BY RunAssumption, ElementOfSeq DEF Lists
  <2>2. Len(Layout[l]) \in Nat
    BY <2>1, LenProperties
  <2>3. Len(Layout[l]) \in Nat \ {0}
    BY <2>2, RunAssumption
  <2>. QED  BY <2>3, FS_Interval DEF Odts
<1>. QED  BY <1>1, <1>2, FS_Interval DEF Lists, Odts

LEMMA PlaceNumbers ==
  ASSUME NEW l \in Lists, NEW o \in Odts(l)
  PROVE  l \in Nat \ {0} /\ l <= Len(Layout) /\ o \in Nat \ {0} /\ o <= Len(Layout[l])
<1>1. l \in 1..Len(Layout) /\ o \in 1..Len(Layout[l]) /\ Len(Layout[l]) \in Nat /\ Len(Layout) \in Nat
  BY LayoutType
<1>. QED  BY <1>1

LEMMA PlacesType ==
  /\ IsFiniteSet(Places)
  /\ \A at : at \in Places <=> \E l \in Lists : \E o \in Odts(l) : at = <<l, o>>
<1>1. \A at : at \in Places <=> \E l \in Lists : \E o \in Odts(l) : at = <<l, o>>
  BY DEF Places
<1>2. \A l \in Lists : IsFiniteSet({l} \X Odts(l))
  BY LayoutType, FS_Singleton, FS_Product
<1> DEFINE Rows == {{l} \X Odts(l) : l \in Lists}
<1>3. IsFiniteSet(Rows)
  <2> DEFINE row == [l \in Lists |-> {l} \X Odts(l)]
  <2>1. row \in Surjection(Lists, Rows)
    BY DEF Surjection
  <2>. QED  BY <2>1, LayoutType, FS_Surjection
<1>4. IsFiniteSet(UNION Rows)
  <2>1. \A T \in Rows : IsFiniteSet(T)
    BY <1>2
  <2>. QED  BY <1>3, <2>1, FS_UNION
<1>. QED  BY <1>1, <1>4 DEF Places

\* One step of the walk stays in the lists, or leaves them for good.
Next1(at) == IF at = NoOdt THEN NoOdt ELSE NextOdt(at)

LEMMA NextPlace ==
  ASSUME NEW at \in Places \cup {NoOdt}
  PROVE  Next1(at) \in Places \cup {NoOdt}
<1>1. CASE at = NoOdt
  BY <1>1 DEF Next1
<1>2. CASE at # NoOdt
  <2>1. PICK l \in Lists : \E o \in Odts(l) : at = <<l, o>>
    BY <1>2, PlacesType
  <2>6. PICK o \in Odts(l) : at = <<l, o>>
    BY <2>1
  <2>2. Next1(at) = IF o < Len(Layout[l]) THEN <<l, o + 1>>
                    ELSE IF l < Len(Layout) THEN <<l + 1, 1>> ELSE NoOdt
    BY <1>2, <2>6 DEF Next1, NextOdt
  <2>3. o < Len(Layout[l]) => o + 1 \in Odts(l)
    BY <2>6, LayoutType
  <2>4. l < Len(Layout) => l + 1 \in Lists /\ 1 \in Odts(l + 1)
    <3>1. l < Len(Layout) => l + 1 \in Lists
      BY LayoutType
    <3>2. \A k \in Lists : 1 \in Odts(k)
      BY LayoutType
    <3>. QED  BY <3>1, <3>2
  <2>. QED  BY <2>2, <2>3, <2>4, PlacesType
<1>. QED  BY <1>1, <1>2

\* There is a walk of every length.
Walks(list, n) ==
  {w \in [0..n -> Places \cup {NoOdt}] : w[0] = <<list, 1>> /\ \A j \in 1..n : w[j] = Next1(w[j - 1])}

LEMMA WalkExists ==
  ASSUME NEW list \in Lists, NEW n \in Nat
  PROVE  Walks(list, n) # {}
<1> DEFINE S == {m \in Nat : Walks(list, m) # {}}
<1>1. 0 \in S
  <2> DEFINE w == [j \in 0..0 |-> <<list, 1>>]
  <2>1. 1 \in Odts(list)
    BY LayoutType
  <2>2. <<list, 1>> \in Places
    BY <2>1, PlacesType
  <2>3. w \in Walks(list, 0)
    BY <2>2 DEF Walks
  <2>. QED  BY <2>3
<1>2. ASSUME NEW m \in Nat, m \in S PROVE m + 1 \in S
  <2>1. PICK w \in Walks(list, m) : TRUE
    BY <1>2
  <2>2. /\ w \in [0..m -> Places \cup {NoOdt}] /\ w[0] = <<list, 1>>
        /\ \A j \in 1..m : w[j] = Next1(w[j - 1])
    BY DEF Walks
  <2> DEFINE v == [j \in 0..m + 1 |-> IF j = m + 1 THEN Next1(w[m]) ELSE w[j]]
  <2>3. Next1(w[m]) \in Places \cup {NoOdt}
    BY <2>2, NextPlace
  <2>4. v \in [0..m + 1 -> Places \cup {NoOdt}]
    BY <2>2, <2>3
  <2>5. v[0] = <<list, 1>>
    BY <2>2
  <2>6. ASSUME NEW j \in 1..m + 1 PROVE v[j] = Next1(v[j - 1])
    <3>1. CASE j = m + 1
      <4>1. v[j] = Next1(w[m]) /\ j - 1 = m /\ v[m] = w[m]
        BY <3>1
      <4>. QED  BY <4>1
    <3>2. CASE j # m + 1
      <4>1. j \in 1..m /\ v[j] = w[j] /\ v[j - 1] = w[j - 1]
        BY <3>2
      <4>. QED  BY <2>2, <4>1
    <3>. QED  BY <3>1, <3>2
  <2>7. v \in Walks(list, m + 1)
    BY <2>4, <2>5, <2>6 DEF Walks
  <2>. QED  BY <2>7
<1>3. Nat \subseteq S
  <2>. HIDE DEF S
  <2>. QED  BY <1>1, <1>2, AllNumbers
<1>. QED  BY <1>3

\* Xcp_GetOdt goes that walk.
LEMMA GetOdtWalks ==
  ASSUME NEW list \in Lists, NEW n \in Nat
  PROVE  \E walk : /\ GetOdt(list, n) = IF built THEN walk[n] ELSE NoOdt
                   /\ walk[0] = <<list, 1>>
                   /\ \A j \in 1..n : walk[j] = Next1(walk[j - 1])
<1>1. PICK start \in Places : start = <<list, 1>>
  <2>1. 1 \in Odts(list)
    BY LayoutType
  <2>. QED  BY <2>1, PlacesType
<1> DEFINE Is(w) == w = [j \in 0..n |-> IF j = 0 THEN start
                                        ELSE IF w[j - 1] = NoOdt THEN NoOdt ELSE NextOdt(w[j - 1])]
           walk == CHOOSE w : Is(w)
<1>2. PICK v \in Walks(list, n) : TRUE
  BY WalkExists
<1>3. Is(v)
  <2>1. v \in [0..n -> Places \cup {NoOdt}] /\ v[0] = start /\ \A j \in 1..n : v[j] = Next1(v[j - 1])
    BY <1>1 DEF Walks
  <2>2. ASSUME NEW j \in 0..n
        PROVE  v[j] = IF j = 0 THEN start ELSE Next1(v[j - 1])
    BY <2>1
  <2>. QED  BY <2>1, <2>2 DEF Next1
<1>4. Is(walk)
  BY <1>3
<1>5. GetOdt(list, n) = IF built THEN walk[n] ELSE NoOdt
  BY <1>1 DEF GetOdt
<1>. HIDE DEF walk
<1>6. walk[0] = start /\ \A j \in 1..n : walk[j] = Next1(walk[j - 1])
  BY <1>4 DEF Next1
<1>. QED  BY <1>1, <1>5, <1>6

\* It finds an ODT of a list, or none, for every number.
LEMMA GetOdtType ==
  ASSUME NEW list \in Lists, NEW n \in Nat
  PROVE  GetOdt(list, n) \in Places \cup {NoOdt}
<1>1. PICK walk : /\ GetOdt(list, n) = IF built THEN walk[n] ELSE NoOdt
                  /\ walk[0] = <<list, 1>>
                  /\ \A j \in 1..n : walk[j] = Next1(walk[j - 1])
  BY GetOdtWalks
<1> DEFINE S == {k \in Nat : k \in 0..n => walk[k] \in Places \cup {NoOdt}}
<1>2. 0 \in S
  <2>1. 1 \in Odts(list)
    BY LayoutType
  <2>. QED  BY <1>1, <2>1, PlacesType
<1>3. ASSUME NEW k \in Nat, k \in S PROVE k + 1 \in S
  <2>1. k + 1 \in 0..n => k \in 0..n /\ k + 1 \in 1..n /\ (k + 1) - 1 = k
    OBVIOUS
  <2>. QED  BY <1>1, <1>3, <2>1, NextPlace
<1>4. Nat \subseteq S
  <2>. HIDE DEF S
  <2>. QED  BY <1>2, <1>3, AllNumbers
<1>. QED  BY <1>1, <1>4

\* What counts the ODTs in front of a list.
LEMMA BeforeCounts ==
  /\ Before(1) = 0
  /\ \A l \in Lists : Before(l) \in Nat
  /\ \A l \in Lists : l # 1 => l - 1 \in Lists /\ Before(l) = Before(l - 1) + Len(Layout[l - 1])
<1> DEFINE S(l) == UNION {{k} \X Odts(k) : k \in 1..l - 1}
<1>1. S(1) = {}
  <2>1. \A k : k \notin 1..1 - 1
    OBVIOUS
  <2>. QED  BY <2>1
<1>2. ASSUME NEW l \in Lists PROVE IsFiniteSet(S(l)) /\ Cardinality(S(l)) \in Nat
  <2>1. \A k \in 1..l - 1 : k \in Lists
    BY LayoutType
  <2>2. S(l) \subseteq Places
    BY <2>1 DEF Places
  <2>3. S(l) \in SUBSET Places
    BY <2>2
  <2>. HIDE DEF S
  <2>. QED  BY <2>3, PlacesType, FS_Subset, FS_CardinalityType
<1>3. ASSUME NEW l \in Lists, l # 1
      PROVE  l - 1 \in Lists /\ Cardinality(S(l)) = Cardinality(S(l - 1)) + Len(Layout[l - 1])
  <2>1. l - 1 \in Lists
    BY <1>3, LayoutType
  <2>2. PICK T : T = {l - 1} \X Odts(l - 1)
    OBVIOUS
  <2>3. S(l) = S(l - 1) \cup T
    <3>1. \A k : k \in 1..l - 1 <=> (k \in 1..(l - 1) - 1 \/ k = l - 1)
      BY <1>3, LayoutType
    <3>. QED  BY <2>2, <3>1
  <2>4. S(l - 1) \cap T = {}
    <3>1. l - 1 \notin 1..(l - 1) - 1
      BY <2>1, LayoutType
    <3>. QED  BY <2>2, <3>1
  <2>5. IsFiniteSet(T) /\ Cardinality(T) = Len(Layout[l - 1])
    <3>1. Cardinality(Odts(l - 1)) = Len(Layout[l - 1]) /\ IsFiniteSet(Odts(l - 1))
      <4>1. PICK n \in Nat \ {0} : n = Len(Layout[l - 1]) /\ Odts(l - 1) = 1..n
        BY <2>1, LayoutType
      <4>2. IsFiniteSet(1..n) /\ Cardinality(1..n) = IF 1 > n THEN 0 ELSE n - 1 + 1
        BY FS_Interval
      <4>. QED  BY <4>1, <4>2
    <3>2. IsFiniteSet({l - 1}) /\ Cardinality({l - 1}) = 1
      BY FS_Singleton
    <3>3. IsFiniteSet(T) /\ Cardinality(T) = Cardinality({l - 1}) * Cardinality(Odts(l - 1))
      BY <2>2, <3>1, <3>2, FS_Product
    <3>. QED  BY <2>1, <3>1, <3>2, <3>3, LayoutType
  <2>6. IsFiniteSet(S(l - 1)) /\ Cardinality(S(l - 1)) \in Nat
    BY <1>2, <2>1
  <2>. HIDE DEF S
  <2>7. Cardinality(S(l - 1) \cup T) = Cardinality(S(l - 1)) + Cardinality(T) - Cardinality(S(l - 1) \cap T)
    BY <2>5, <2>6, FS_Union
  <2>8. Cardinality(S(l - 1) \cap T) = 0
    BY <2>4, FS_EmptySet
  <2>9. Len(Layout[l - 1]) \in Nat
    BY <2>1, LayoutType
  <2>. QED  BY <2>1, <2>3, <2>5, <2>6, <2>7, <2>8, <2>9
<1>4. Cardinality(S(1)) = 0
  BY <1>1, FS_EmptySet
<1>5. \A l : Before(l) = Cardinality(S(l))
  BY DEF Before
<1>. HIDE DEF S
<1>. QED  BY <1>2, <1>3, <1>4, <1>5

\* The number that an ODT has over all lists leads from the first list to it,
\* the one it has in its list from there.
LEMMA OdtFound ==
  ASSUME built, NEW l \in Lists, NEW o \in Odts(l)
  PROVE  /\ GetOdt(1, Before(l) + o - 1) = <<l, o>>
         /\ GetOdt(l, o - 1) = <<l, o>>
<1>1. l \in Nat \ {0} /\ o \in Nat \ {0} /\ o <= Len(Layout[l]) /\ Before(l) \in Nat /\ 1 \in Lists
  BY LayoutType, PlaceNumbers, BeforeCounts
<1>2. GetOdt(l, o - 1) = <<l, o>>
  <2>1. PICK n \in Nat : n = o - 1
    BY <1>1
  <2>2. PICK walk : /\ GetOdt(l, n) = IF built THEN walk[n] ELSE NoOdt
                    /\ walk[0] = <<l, 1>>
                    /\ \A j \in 1..n : walk[j] = Next1(walk[j - 1])
    BY GetOdtWalks
  <2> DEFINE S == {k \in Nat : k \in 0..n => walk[k] = <<l, k + 1>>}
  <2>3. 0 \in S
    BY <2>2
  <2>4. ASSUME NEW k \in Nat, k \in S PROVE k + 1 \in S
    <3>. SUFFICES ASSUME k + 1 \in 0..n PROVE walk[k + 1] = <<l, (k + 1) + 1>>
      OBVIOUS
    <3>1. k \in 0..n /\ k + 1 \in 1..n /\ (k + 1) - 1 = k
      OBVIOUS
    <3>2. walk[k] = <<l, k + 1>> /\ walk[k + 1] = Next1(walk[k])
      BY <2>2, <2>4, <3>1
    <3>3. k + 1 < Len(Layout[l]) /\ <<l, k + 1>> # NoOdt
      BY <1>1, <2>1, <3>1, LayoutType DEF NoOdt
    <3>. QED  BY <3>2, <3>3 DEF Next1, NextOdt
  <2>5. Nat \subseteq S
    <3>. HIDE DEF S
    <3>. QED  BY <2>3, <2>4, AllNumbers
  <2>6. walk[n] = <<l, n + 1>>
    BY <2>5
  <2>. QED  BY <1>1, <2>1, <2>2, <2>6
<1>3. GetOdt(1, Before(l) + o - 1) = <<l, o>>
  <2>1. PICK n \in Nat : n = Before(l) + o - 1
    BY <1>1
  <2>2. PICK walk : /\ GetOdt(1, n) = IF built THEN walk[n] ELSE NoOdt
                    /\ walk[0] = <<1, 1>>
                    /\ \A j \in 1..n : walk[j] = Next1(walk[j - 1])
    BY <1>1, GetOdtWalks
  <2> DEFINE At(k) == \A m \in Lists : \A p \in Odts(m) : Before(m) + p - 1 = k => walk[k] = <<m, p>>
             S == {k \in Nat : k \in 0..n => At(k)}
  <2>3. 0 \in S
    <3>. SUFFICES ASSUME NEW m \in Lists, NEW p \in Odts(m), Before(m) + p - 1 = 0 PROVE <<m, p>> = <<1, 1>>
      BY <2>2
    <3>1. m \in Nat \ {0} /\ p \in Nat \ {0} /\ Before(m) \in Nat
      BY PlaceNumbers, BeforeCounts
    <3>2. p = 1 /\ Before(m) = 0
      BY <3>1
    <3>3. m # 1 => m - 1 \in Lists /\ Before(m - 1) \in Nat /\ Len(Layout[m - 1]) \in Nat \ {0}
                   /\ Before(m) = Before(m - 1) + Len(Layout[m - 1])
      BY BeforeCounts, LayoutType
    <3>. QED  BY <3>1, <3>2, <3>3
  <2>4. ASSUME NEW k \in Nat, k \in S PROVE k + 1 \in S
    <3>. SUFFICES ASSUME k + 1 \in 0..n, NEW m \in Lists, NEW p \in Odts(m), Before(m) + p - 1 = k + 1
                  PROVE  walk[k + 1] = <<m, p>>
      OBVIOUS
    <3>1. k \in 0..n /\ k + 1 \in 1..n /\ (k + 1) - 1 = k
      OBVIOUS
    <3>2. At(k) /\ walk[k + 1] = Next1(walk[k])
      BY <2>2, <2>4, <3>1
    <3>3. m \in Nat \ {0} /\ p \in Nat \ {0} /\ p <= Len(Layout[m]) /\ Before(m) \in Nat
          /\ Len(Layout[m]) \in Nat /\ m <= Len(Layout)
      BY LayoutType, PlaceNumbers, BeforeCounts
    <3>4. CASE p # 1
      <4>1. p - 1 \in Odts(m) /\ Before(m) + (p - 1) - 1 = k
        <5>1. Odts(m) = 1..Len(Layout[m])
          BY LayoutType
        <5>2. p - 1 \in 1..Len(Layout[m])
          BY <3>3, <3>4
        <5>3. Before(m) + (p - 1) - 1 = k
          BY <3>3
        <5>. QED  BY <5>1, <5>2, <5>3
      <4>2. walk[k] = <<m, p - 1>>
        BY <3>2, <4>1
      <4>3. p - 1 < Len(Layout[m]) /\ (p - 1) + 1 = p /\ <<m, p - 1>> # NoOdt
        BY <3>3, <3>4 DEF NoOdt
      <4>. QED  BY <3>2, <4>2, <4>3 DEF Next1, NextOdt
    <3>5. CASE p = 1
      <4>1. m # 1
        BY <3>3, <3>5, BeforeCounts
      <4>2. PICK q \in Lists : q = m - 1
        BY <4>1, BeforeCounts
      <4>3. PICK r \in Odts(q) : r = Len(Layout[q])
        <5>1. Odts(q) = 1..Len(Layout[q]) /\ Len(Layout[q]) \in Nat \ {0}
          BY LayoutType
        <5>2. Len(Layout[q]) \in Odts(q)
          BY <5>1
        <5>. QED  BY <5>2
      <4>4. Before(m) = Before(q) + r /\ r \in Nat \ {0} /\ Before(q) \in Nat
        BY <4>1, <4>2, <4>3, BeforeCounts, LayoutType
      <4>5. Before(q) + r - 1 = k
        BY <3>3, <3>5, <4>4
      <4>6. walk[k] = <<q, r>>
        BY <3>2, <4>5
      <4>7. ~(r < Len(Layout[q])) /\ q < Len(Layout) /\ q + 1 = m /\ <<q, r>> # NoOdt
        <5>1. Len(Layout[q]) \in Nat /\ Len(Layout) \in Nat
          BY LayoutType
        <5>2. ~(r < Len(Layout[q]))
          BY <4>3, <4>4, <5>1
        <5>3. q < Len(Layout) /\ q + 1 = m
          BY <3>3, <4>2, <5>1
        <5>4. <<q, r>> # NoOdt
          BY <4>4 DEF NoOdt
        <5>. QED  BY <5>2, <5>3, <5>4
      <4>. QED  BY <3>2, <3>5, <4>6, <4>7 DEF Next1, NextOdt
    <3>. QED  BY <3>4, <3>5
  <2>5. Nat \subseteq S
    <3>. HIDE DEF S
    <3>. QED  BY <2>3, <2>4, AllNumbers
  <2>6. At(n)
    BY <2>5
  <2>7. walk[n] = <<l, o>>
    BY <2>1, <2>6
  <2>. QED  BY <2>1, <2>2, <2>7
<1>. QED  BY <1>2, <1>3

-----------------------------------------------------------------------------
(* What the steps do to the queues                                         *)

LEMMA InitInv == Init => IInv
<1>. SUFFICES ASSUME Init PROVE IInv
  OBVIOUS
<1>. USE DEF Init
<1>1. IsSequence(<<>>) /\ Len(<<>>) = 0 /\ DOMAIN <<>> = {}
  BY EmptySeq DEF IsSequence
<1>2. pending = [l \in Lists |-> [o \in Odts(l) |-> NoPacket]] /\ due = pending
  BY DEF Nothing
<1>3. Typed
  <2>1. pending = [l \in Lists |-> [o \in Odts(l) |-> pending[l][o]]]
    BY <1>2
  <2>2. Buffers \in Nat
    BY RunAssumption
  <2>. QED  BY <1>1, <1>2, <2>1, <2>2 DEF Typed
<1>4. Waiting = {}
  BY <1>2, PlacesType DEF Waiting, Places
<1>5. BuffersAccounted
  BY <1>1, <1>4, FS_EmptySet, RunAssumption DEF BuffersAccounted
<1>6. InFlight /\ Stopped /\ Stopping /\ InOrder
  <2>1. master.call = NoCall /\ \A l \in Lists : [cmd |-> "START", list |-> l] \in Calls
    BY DEF Calls
  <2>. QED  BY <1>1, <2>1, RunAssumption DEF InFlight, Stopped, Stopping, InOrder
<1>. QED  BY <1>3, <1>5, <1>6 DEF IInv

\* An answer takes a buffer if there is one.
LEMMA Answering ==
  ASSUME IsSequence(tx), NEW kind, NEW before \in Nat, NEW after \in Nat, Answer(kind, before, after)
  PROVE  /\ free' \in Nat /\ IsSequence(tx')
         /\ free' + Len(tx') = before + after + Len(tx)
         /\ tx' = tx \/ tx' = Append(tx, [kind |-> kind])
<1>1. PICK S : tx \in Seq(S)
  BY DEF IsSequence
<1>2. CASE before > 0
  <2>1. tx' = Append(tx, [kind |-> kind]) /\ free' = before - 1 + after
    BY <1>2 DEF Answer
  <2>2. IsSequence(tx') /\ Len(tx') = Len(tx) + 1 /\ Len(tx) \in Nat
    BY <1>1, <2>1, Appended DEF IsSequence
  <2>. QED  BY <1>2, <2>1, <2>2
<1>3. CASE ~(before > 0)
  <2>1. tx' = tx /\ free' = after /\ before = 0 /\ Len(tx) \in Nat
    BY <1>1, <1>3, LenProperties DEF Answer
  <2>. QED  BY <2>1
<1>. QED  BY <1>2, <1>3

LEMMA Received ==
  ASSUME IsSequence(rx), NEW cmd, Receive(cmd)
  PROVE  /\ IsSequence(rx') /\ Len(rx) \in Nat \ {0} /\ Len(rx') = Len(rx) - 1
         /\ 1 \in DOMAIN rx /\ Packet = rx[1]
         /\ \A i \in DOMAIN rx' : i + 1 \in DOMAIN rx /\ rx'[i] = rx[i + 1] /\ i \in Nat
<1>1. PICK S : rx \in Seq(S)
  BY DEF IsSequence
<1>2. rx # <<>> /\ rx' = Tail(rx)
  BY DEF Receive
<1>. QED  BY <1>1, <1>2, Dropped DEF IsSequence, Packet

\* A packet that is no STIM packet is the call of the master, and the only one.
LEMMA TheCall ==
  ASSUME IInv, NEW cmd, Receive(cmd), cmd # "STIM"
  PROVE  /\ master.call \in Calls /\ master.call # NoCall /\ Packet = master.call /\ Packet.cmd = cmd
         /\ Unanswered /\ DOMAIN rx' = {} /\ UNCHANGED <<store, master, heard, events, bounds>>
<1>1. IsSequence(rx) /\ InFlight /\ master.call \in Calls \cup {NoCall}
  BY DEF IInv, Typed
<1>2. /\ 1 \in DOMAIN rx /\ Packet = rx[1] /\ Packet.cmd = cmd /\ rx # <<>>
      /\ \A i \in DOMAIN rx' : i + 1 \in DOMAIN rx /\ i \in Nat
      /\ UNCHANGED <<store, master, heard, events, bounds>> /\ Len(rx) \in Nat
      /\ IsSequence(rx')
  BY <1>1, Received DEF Receive, mind
<1>3. master.call # NoCall
  BY <1>1, <1>2 DEF InFlight, IsStim
<1>4. Packet = master.call /\ Unanswered /\ \A i \in DOMAIN rx : i = 1
  BY <1>1, <1>2, <1>3 DEF InFlight
<1>5. \A i \in DOMAIN rx' : FALSE
  <2>1. DOMAIN rx' = 1..Len(rx')
    BY <1>2, LenProperties DEF IsSequence
  <2>. QED  BY <1>2, <1>4, <2>1
<1>. QED  BY <1>1, <1>2, <1>3, <1>4, <1>5

\* A packet of the STIM kind.
LEMMA TheStim ==
  ASSUME IInv, Receive("STIM")
  PROVE  /\ master.call = NoCall /\ IsStim(Packet) /\ UNCHANGED <<store, master, heard, events, bounds>>
         /\ \A i \in DOMAIN rx' : IsStim(rx'[i])
<1>1. IsSequence(rx) /\ InFlight /\ master.call \in Calls \cup {NoCall}
  BY DEF IInv, Typed
<1>2. /\ 1 \in DOMAIN rx /\ Packet = rx[1] /\ Packet.cmd = "STIM"
      /\ \A i \in DOMAIN rx' : i + 1 \in DOMAIN rx /\ rx'[i] = rx[i + 1]
      /\ UNCHANGED <<store, master, heard, events, bounds>>
  BY <1>1, Received DEF Receive, mind
<1>3. master.call = NoCall
  <2>. SUFFICES ASSUME master.call # NoCall PROVE FALSE
    OBVIOUS
  <2>1. rx[1] = master.call /\ master.call \in Calls
    BY <1>1, <1>2 DEF InFlight
  <2>. QED  BY <1>2, <2>1 DEF Calls
<1>. QED  BY <1>1, <1>2, <1>3 DEF InFlight

\* Xcp_RxIndication.
LEMMA Indicated ==
  ASSUME IsSequence(rx), free \in Nat, NEW packet, Indicate(packet)
  PROVE  /\ IsSequence(rx') /\ free' \in Nat /\ free' + Len(rx') = free + Len(rx)
         /\ rx' = rx \/ rx' = Append(rx, packet)
<1>1. PICK S : rx \in Seq(S)
  BY DEF IsSequence
<1>2. CASE free > 0
  <2>1. rx' = Append(rx, packet) /\ free' = free - 1
    BY <1>2 DEF Indicate
  <2>2. IsSequence(rx') /\ Len(rx') = Len(rx) + 1 /\ Len(rx) \in Nat
    BY <1>1, <2>1, Appended DEF IsSequence
  <2>. QED  BY <1>2, <2>1, <2>2
<1>3. CASE ~(free > 0)
  BY <1>3 DEF Indicate
<1>. QED  BY <1>2, <1>3

-----------------------------------------------------------------------------
(* Where the buffers are                                                   *)

LEMMA WaitingType ==
  /\ IsFiniteSet(Waiting) /\ Cardinality(Waiting) \in Nat
  /\ Waiting = {at \in Places : pending[at[1]][at[2]] # NoPacket}
<1>1. Waiting = {at \in Places : pending[at[1]][at[2]] # NoPacket}
  BY DEF Waiting, Places
<1>2. Waiting \in SUBSET Places
  BY <1>1
<1>. QED  BY <1>1, <1>2, PlacesType, FS_Subset, FS_CardinalityType

\* STIM packets: one more waits, or one for another.
LEMMA StimAccounts ==
  ASSUME IInv, NEW at \in Places, Stim(at), Receive("STIM")
  PROVE  /\ pending' = [l \in Lists |-> [o \in Odts(l) |-> pending'[l][o]]]
         /\ free' \in Nat /\ IsSequence(tx')
         /\ (leaked' = leaked => BuffersAccounted')
<1>1. /\ Typed /\ BuffersAccounted /\ free \in Nat /\ leaked \in Nat /\ IsSequence(tx) /\ IsSequence(rx)
      /\ pending = [l \in Lists |-> [o \in Odts(l) |-> pending[l][o]]]
  BY DEF IInv, Typed
<1>2. IsStim(Packet) /\ Len(rx) \in Nat \ {0} /\ Len(rx') = Len(rx) - 1
  BY <1>1, TheStim, Received
<1> DEFINE new == [len |-> Packet.len, data |-> Packet.data]
<1>0. PICK old \in {0, 1} : old = IF pending[at[1]][at[2]] = NoPacket THEN 0 ELSE 1
  OBVIOUS
<1>3. new # NoPacket
  <2>1. new \in [len : Int, data : Seq(Nat)]
    BY <1>2 DEF IsStim
  <2>. QED  BY <2>1, RunAssumption
<1>4. PICK l \in Lists : \E o \in Odts(l) : at = <<l, o>>
  BY PlacesType
<1>5. PICK o \in Odts(l) : at = <<l, o>>
  BY <1>4
<1>6. /\ free' \in Nat /\ IsSequence(tx') /\ free' + Len(tx') = (free + old) + Len(tx)
      /\ pending' = [pending EXCEPT ![l][o] = new]
  <2>1. Answer("RES", free + old, 0) /\ free + old \in Nat
    BY <1>0, <1>1 DEF Stim
  <2>2. /\ free' \in Nat /\ IsSequence(tx')
        /\ free' + Len(tx') = (free + old) + 0 + Len(tx)
    BY <1>1, <2>1, Answering
  <2>3. pending' = [pending EXCEPT ![l][o] = new]
    BY <1>5 DEF Stim
  <2>. QED  BY <2>1, <2>2, <2>3
<1>7. pending' = [m \in Lists |-> [n \in Odts(m) |-> IF m = l /\ n = o THEN new ELSE pending[m][n]]]
  BY <1>1, <1>6
<1>8. Waiting' = Waiting \cup {at}
  <2>1. \A m \in Lists : \A n \in Odts(m) :
          pending'[m][n] # NoPacket <=> (<<m, n>> = at \/ pending[m][n] # NoPacket)
    BY <1>3, <1>5, <1>7
  <2>2. Waiting' = {k \in Places : pending'[k[1]][k[2]] # NoPacket}
    BY DEF Waiting, Places
  <2>3. \A k \in Places : pending'[k[1]][k[2]] # NoPacket <=> (k = at \/ pending[k[1]][k[2]] # NoPacket)
    BY <2>1, PlacesType
  <2>. QED  BY <2>2, <2>3, WaitingType
<1>9. Cardinality(Waiting') + old = Cardinality(Waiting) + 1
  <2>1. at \in Waiting <=> old = 1
    BY <1>0, WaitingType
  <2>2. Cardinality(Waiting \cup {at}) = IF at \in Waiting THEN Cardinality(Waiting) ELSE Cardinality(Waiting) + 1
    BY WaitingType, FS_AddElement
  <2>. QED  BY <1>8, <2>1, <2>2, WaitingType
<1>10. leaked' = leaked => BuffersAccounted'
  <2>1. Len(tx') \in Nat /\ Len(tx) \in Nat
    BY <1>1, <1>6, LenProperties DEF IsSequence
  <2>2. Cardinality(Waiting') \in Nat /\ Cardinality(Waiting) \in Nat
    BY <1>8, WaitingType, FS_AddElement, FS_CardinalityType
  <2>3. PICK w \in Nat, v \in Nat : w = Cardinality(Waiting) /\ v = Cardinality(Waiting')
    BY <2>2
  <2>4. v + old = w + 1
    BY <1>9, <2>3
  <2>5. free + Len(rx) + Len(tx) + w + leaked = Buffers
    BY <1>1, <2>3 DEF BuffersAccounted
  <2>6. free' \in Nat /\ free' + Len(tx') = free + old + Len(tx) /\ free \in Nat /\ leaked \in Nat
        /\ Len(rx) \in Nat \ {0} /\ Len(rx') = Len(rx) - 1
    BY <1>1, <1>2, <1>6
  <2>7. free' + Len(rx') + Len(tx') + v + leaked = free + Len(rx) + Len(tx) + w + leaked
    <3>1. PICK f \in Nat, g \in Nat, k \in Nat : f = free /\ g = free' /\ k = leaked
      BY <2>6
    <3>2. PICK s \in Nat, t \in Nat : s = Len(tx) /\ t = Len(tx')
      BY <2>1
    <3>3. PICK r \in Nat, q \in Nat : r = Len(rx) /\ q = Len(rx') /\ q + 1 = r
      BY <2>6
    <3>4. g + t = f + old + s
      BY <2>6, <3>1, <3>2
    <3>5. g + q + t + v + k = f + r + s + w + k
      BY <2>4, <3>3, <3>4
    <3>. QED  BY <3>1, <3>2, <3>3, <3>5
  <2>. QED  BY <2>3, <2>5, <2>7 DEF BuffersAccounted
<1>11. pending' = [m \in Lists |-> [n \in Odts(m) |-> pending'[m][n]]]
  BY <1>7
<1>. QED  BY <1>6, <1>10, <1>11

\* An answer to a packet whose buffer is freed.
LEMMA AnswerAccounts ==
  ASSUME IInv, NEW cmd, Receive(cmd), NEW kind, Answer(kind, free, 1)
  PROVE  /\ free' \in Nat /\ IsSequence(tx') /\ IsSequence(rx')
         /\ (UNCHANGED <<pending, leaked>> => BuffersAccounted')
         /\ free' + Len(rx') + Len(tx') = free + Len(rx) + Len(tx)
<1>1. Typed /\ BuffersAccounted /\ free \in Nat /\ leaked \in Nat /\ IsSequence(tx) /\ IsSequence(rx)
  BY DEF IInv, Typed
<1>2. IsSequence(rx') /\ Len(rx) \in Nat \ {0} /\ Len(rx') = Len(rx) - 1
  BY <1>1, Received
<1>3. /\ free' \in Nat /\ IsSequence(tx') /\ free' + Len(tx') = free + 1 + Len(tx)
  BY <1>1, Answering
<1>4. Len(tx') \in Nat /\ Len(tx) \in Nat
  BY <1>1, <1>3, LenProperties DEF IsSequence
<1>5. free' + Len(rx') + Len(tx') = free + Len(rx) + Len(tx)
  <2>. PICK a \in Nat, b \in Nat, c \in Nat, x \in Nat \ {0}, y \in Nat :
         a = free' /\ b = Len(tx') /\ c = free /\ x = Len(rx) /\ y = Len(tx)
    BY <1>1, <1>2, <1>3, <1>4
  <2>1. a + b = c + 1 + y
    BY <1>3
  <2>2. a + (x - 1) + b = (a + b) + (x - 1) /\ (c + 1 + y) + (x - 1) = c + x + y
    OBVIOUS
  <2>3. Len(rx') = x - 1
    BY <1>2
  <2>. QED  BY <2>1, <2>2, <2>3
<1>6. UNCHANGED <<pending, leaked>> => BuffersAccounted'
  <2>1. UNCHANGED <<pending, leaked>> => UNCHANGED Waiting
    BY DEF Waiting
  <2>. QED  BY <1>1, <1>5, <2>1 DEF BuffersAccounted
<1>. QED  BY <1>2, <1>3, <1>5, <1>6

\* Xcp_ProcessDaq of a list whose direction is STIM gives the buffers back.
LEMMA EventAccounts ==
  ASSUME IInv, NEW l \in Lists, StimEvent(l)
  PROVE  /\ free' \in Nat /\ BuffersAccounted'
         /\ pending' = [m \in Lists |-> [n \in Odts(m) |-> pending'[m][n]]]
<1>1. /\ Typed /\ BuffersAccounted /\ free \in Nat /\ leaked \in Nat /\ IsSequence(tx) /\ IsSequence(rx)
      /\ pending = [m \in Lists |-> [o \in Odts(m) |-> pending[m][o]]]
  BY DEF IInv, Typed
<1>0. PICK Held : Held = {o \in Odts(l) : pending[l][o] # NoPacket}
  OBVIOUS
<1>2. /\ free' = free + Cardinality(Held) /\ UNCHANGED <<rx, tx, leaked>>
      /\ pending' = [pending EXCEPT ![l] = [o \in Odts(l) |-> NoPacket]]
  BY <1>0 DEF StimEvent, Nothing
<1>3. pending' = [m \in Lists |-> [n \in Odts(m) |-> IF m = l THEN NoPacket ELSE pending[m][n]]]
  BY <1>1, <1>2
<1>4. Waiting' = Waiting \ ({l} \X Held)
  <2>1. Waiting' = {k \in Places : pending'[k[1]][k[2]] # NoPacket}
    BY DEF Waiting, Places
  <2>2. \A m \in Lists : \A n \in Odts(m) :
          pending'[m][n] # NoPacket <=> (pending[m][n] # NoPacket /\ m # l)
    BY <1>3
  <2>3. \A k \in Places : pending'[k[1]][k[2]] # NoPacket
          <=> (pending[k[1]][k[2]] # NoPacket /\ k \notin {l} \X Held)
    BY <1>0, <2>2, PlacesType
  <2>. QED  BY <2>1, <2>3, WaitingType
<1>5. {l} \X Held \subseteq Waiting /\ IsFiniteSet(Held) /\ Cardinality(Held) \in Nat
  <2>1. IsFiniteSet(Held)
    BY <1>0, LayoutType, FS_Subset
  <2>2. \A k \in {l} \X Held : k \in Places /\ pending[k[1]][k[2]] # NoPacket
    BY <1>0, PlacesType
  <2>. QED  BY <2>1, <2>2, WaitingType, FS_CardinalityType
<1>6. Cardinality(Waiting') = Cardinality(Waiting) - Cardinality(Held)
  <2>1. Cardinality({l} \X Held) = Cardinality(Held)
    <3>1. IsFiniteSet({l}) /\ Cardinality({l}) = 1
      BY FS_Singleton
    <3>2. Cardinality({l} \X Held) = Cardinality({l}) * Cardinality(Held)
      BY <1>5, <3>1, FS_Product
    <3>. QED  BY <1>5, <3>1, <3>2
  <2>2. Waiting \cap ({l} \X Held) = {l} \X Held
    BY <1>5
  <2>3. Cardinality(Waiting \ ({l} \X Held))
          = Cardinality(Waiting) - Cardinality(Waiting \cap ({l} \X Held))
    BY WaitingType, FS_Difference
  <2>. QED  BY <1>4, <2>1, <2>2, <2>3
<1>7. free' \in Nat
  BY <1>1, <1>2, <1>5
<1>8. BuffersAccounted'
  <2>1. Len(tx) \in Nat /\ Len(rx) \in Nat
    BY <1>1, LenProperties DEF IsSequence
  <2>2. Cardinality(Waiting)' = Cardinality(Waiting') /\ Cardinality(Waiting) \in Nat
    BY WaitingType
  <2>. QED  BY <1>1, <1>2, <1>5, <1>6, <2>1, <2>2 DEF BuffersAccounted
<1>9. pending' = [m \in Lists |-> [n \in Odts(m) |-> pending'[m][n]]]
  BY <1>3
<1>. QED  BY <1>7, <1>8, <1>9

\* A call takes one buffer for its answer and gives its own back, and leaves
\* what is not its own.
LEMMA CallTyped ==
  ASSUME IInv, NEW cmd, Receive(cmd), cmd # "STIM", NEW kind, Answer(kind, free, 1),
         UNCHANGED <<header, pending, history>>, built' \in BOOLEAN,
         mode' \in [Lists -> SUBSET {"RUNNING", "STIM", "CHANNEL"}],
         \A l \in Lists : ~built' => mode'[l] = {}
  PROVE  Typed' /\ BuffersAccounted'
<1>1. Typed
  BY DEF IInv
<1>2. UNCHANGED <<store, master, heard, events, bounds>>
  BY TheCall
<1>3. UNCHANGED <<pending, leaked, due, header>>
  BY DEF history
<1>4. free' \in Nat /\ IsSequence(tx') /\ IsSequence(rx') /\ BuffersAccounted'
  BY <1>3, AnswerAccounts
<1>5. Typed'
  BY <1>1, <1>2, <1>3, <1>4 DEF Typed
<1>. QED  BY <1>4, <1>5

LEMMA StartTyped == ASSUME IInv, Start PROVE Typed' /\ BuffersAccounted'
<1>1. Typed /\ Receive("START") /\ Packet \in Calls /\ Packet.cmd = "START"
  BY TheCall DEF IInv, Start
<1>2. Packet.list \in Lists
  BY <1>1 DEF Calls
<1>3. built' = built /\ mode' \in [Lists -> SUBSET {"RUNNING", "STIM", "CHANNEL"}]
  BY <1>1, <1>2 DEF Start, Typed
<1>4. \A l \in Lists : ~built' => mode'[l] = {}
  BY <1>1, <1>3 DEF Start, Typed
<1>5. PICK kind : Answer(kind, free, 1)
  BY DEF Start
<1>. QED  BY <1>1, <1>3, <1>4, <1>5, CallTyped DEF Start, Typed

LEMMA StopTyped == ASSUME IInv, Stop PROVE Typed' /\ BuffersAccounted'
<1>1. Typed /\ Receive("STOP") /\ Packet \in Calls /\ Packet.cmd = "STOP"
  BY TheCall DEF IInv, Stop
<1>2. Packet.list \in Lists
  BY <1>1 DEF Calls
<1>3. built' = built /\ mode' \in [Lists -> SUBSET {"RUNNING", "STIM", "CHANNEL"}]
  BY <1>1, <1>2 DEF Stop, Typed
<1>4. \A l \in Lists : ~built' => mode'[l] = {}
  BY <1>1, <1>3 DEF Stop, Typed
<1>5. PICK kind : Answer(kind, free, 1)
  BY DEF Stop
<1>. QED  BY <1>1, <1>3, <1>4, <1>5, CallTyped DEF Stop, Typed

LEMMA ModeTyped == ASSUME IInv, SetDaqListMode PROVE Typed' /\ BuffersAccounted'
<1>1. Typed /\ Receive("SET_DAQ_LIST_MODE") /\ Packet \in Calls /\ Packet.cmd = "SET_DAQ_LIST_MODE"
  BY TheCall DEF IInv, SetDaqListMode
<1>2. Packet.list \in Lists
  BY <1>1 DEF Calls
<1>3. built' = built
  BY DEF SetDaqListMode
<1>4. \/ mode' = mode
      \/ built /\ \E m \in SUBSET {"STIM", "CHANNEL"} : mode' = [mode EXCEPT ![Packet.list] = m]
  <2>1. PICK new : new = {"CHANNEL"} \cup IF Packet.stim THEN {"STIM"} ELSE {}
    OBVIOUS
  <2>2. \/ mode' = mode
        \/ built /\ mode' = [mode EXCEPT ![Packet.list] = new]
    BY <2>1 DEF SetDaqListMode
  <2>3. new \in SUBSET {"STIM", "CHANNEL"}
    BY <2>1
  <2>. QED  BY <2>2, <2>3
<1>5. /\ mode' \in [Lists -> SUBSET {"RUNNING", "STIM", "CHANNEL"}]
      /\ \A l \in Lists : ~built' => mode'[l] = {}
  BY <1>1, <1>2, <1>3, <1>4 DEF Typed
<1>6. PICK kind : Answer(kind, free, 1)
  BY DEF SetDaqListMode
<1>. QED  BY <1>1, <1>3, <1>5, <1>6, CallTyped DEF SetDaqListMode, Typed

LEMMA BuildTyped == ASSUME IInv, Build PROVE Typed' /\ BuffersAccounted'
<1>1. Typed /\ Receive("BUILD") /\ built' = TRUE /\ UNCHANGED <<header, mode, pending, history>>
  BY DEF IInv, Build
<1>2. PICK kind : Answer(kind, free, 1)
  BY DEF Build
<1>. QED  BY <1>1, <1>2, CallTyped DEF Typed

\* FREE_DAQ forgets the packets that wait, and with them their buffers.
LEMMA FreeTyped == ASSUME IInv, FreeDaq PROVE Typed' /\ BuffersAccounted'
<1>1. Typed /\ BuffersAccounted /\ Receive("FREE_DAQ") /\ UNCHANGED <<store, master, heard, events, bounds>>
  BY TheCall DEF IInv, FreeDaq
<1>2. /\ built' = FALSE /\ mode' = [l \in Lists |-> {}] /\ pending' = Nothing /\ due' = Nothing
      /\ leaked' = leaked + Cardinality(Waiting) /\ header' = header
  BY DEF FreeDaq
<1>3. /\ free' \in Nat /\ IsSequence(tx') /\ IsSequence(rx')
      /\ free' + Len(rx') + Len(tx') = free + Len(rx) + Len(tx)
  BY <1>1, AnswerAccounts DEF FreeDaq
<1>4. Nothing = [l \in Lists |-> [o \in Odts(l) |-> Nothing[l][o]]]
  BY DEF Nothing
<1>5. Typed'
  <2>1. /\ pending' = [l \in Lists |-> [o \in Odts(l) |-> pending'[l][o]]]
        /\ due' = [l \in Lists |-> [o \in Odts(l) |-> due'[l][o]]]
    BY <1>2, <1>4
  <2>2. leaked' \in Nat
    <3>1. PICK w \in Nat : w = Cardinality(Waiting)
      BY WaitingType
    <3>2. leaked \in Nat
      BY <1>1 DEF Typed
    <3>. QED  BY <1>2, <3>1, <3>2
  <2>3. mode' \in [Lists -> SUBSET {"RUNNING", "STIM", "CHANNEL"}] /\ \A l \in Lists : mode'[l] = {}
    BY <1>2
  <2>. QED  BY <1>1, <1>2, <1>3, <2>1, <2>2, <2>3 DEF Typed
<1>6. Cardinality(Waiting') = 0
  <2>1. Waiting' = {}
    <3>1. \A k \in Places : pending'[k[1]][k[2]] = NoPacket
      BY <1>2, PlacesType DEF Nothing
    <3>. QED  BY <3>1 DEF Waiting, Places
  <2>. QED  BY <2>1, FS_EmptySet
<1>7. BuffersAccounted'
  <2>1. /\ free \in Nat /\ leaked \in Nat /\ Len(rx) \in Nat /\ Len(tx) \in Nat
        /\ Len(rx') \in Nat /\ Len(tx') \in Nat /\ free' \in Nat
    BY <1>1, <1>3, LenProperties DEF Typed, IsSequence
  <2>2. PICK w \in Nat : w = Cardinality(Waiting)
    BY WaitingType
  <2>3. free + Len(rx) + Len(tx) + w + leaked = Buffers /\ leaked' = leaked + w
    BY <1>1, <1>2, <2>2 DEF BuffersAccounted
  <2>4. free' + Len(rx') + Len(tx') + 0 + leaked' = Buffers
    BY <1>3, <2>1, <2>3
  <2>. QED  BY <1>6, <2>4 DEF BuffersAccounted
<1>. QED  BY <1>5, <1>7

LEMMA StimTyped == ASSUME IInv, ReceiveStim PROVE Typed' /\ BuffersAccounted'
<1>1. /\ Typed /\ Receive("STIM") /\ UNCHANGED <<store, master, heard, events, bounds>>
      /\ UNCHANGED <<header, built, mode, leaked>> /\ IsStim(Packet)
  BY TheStim DEF IInv, ReceiveStim
<1>2. 1 \in Lists
  BY <1>1, LayoutType DEF IsStim
<1>3. PICK at \in Places \cup {NoOdt} : at = GetOdt(IF Absolute THEN 1 ELSE Packet.list, Packet.pid)
  BY <1>1, <1>2, GetOdtType DEF IsStim
<1>4. /\ free' \in Nat /\ IsSequence(tx') /\ IsSequence(rx') /\ BuffersAccounted'
      /\ pending' = [l \in Lists |-> [o \in Odts(l) |-> pending'[l][o]]]
  <2>1. CASE at # NoOdt /\ "STIM" \in mode[at[1]]
    <3>1. Stim(at) /\ at \in Places
      BY <1>3, <2>1 DEF ReceiveStim
    <3>2. IsSequence(rx')
      BY <1>1, Received DEF Typed
    <3>. QED  BY <1>1, <3>1, <3>2, StimAccounts
  <2>2. CASE ~(at # NoOdt /\ "STIM" \in mode[at[1]])
    <3>1. Answer("ERR", free, 1) /\ pending' = pending
      BY <1>3, <2>2 DEF ReceiveStim
    <3>2. free' \in Nat /\ IsSequence(tx') /\ IsSequence(rx') /\ BuffersAccounted'
      BY <1>1, <3>1, AnswerAccounts
    <3>. QED  BY <1>1, <3>1, <3>2 DEF Typed
  <2>. QED  BY <2>1, <2>2
<1>5. due' = [l \in Lists |-> [o \in Odts(l) |-> due'[l][o]]]
  <2>1. PICK d : d = [len |-> Packet.len, data |-> Packet.data]
    OBVIOUS
  <2>2. due' = due \/ due' = [due EXCEPT ![Packet.list][Packet.odt] = d]
    BY <2>1 DEF ReceiveStim
  <2>3. due = [l \in Lists |-> [o \in Odts(l) |-> due[l][o]]] /\ Packet.list \in Lists
    BY <1>1 DEF Typed, IsStim
  <2>. QED  BY <2>2, <2>3
<1>6. Typed'
  BY <1>1, <1>4, <1>5 DEF Typed
<1>. QED  BY <1>4, <1>6

\* What is not about the queues and what waits leaves the buffers where they
\* are.
LEMMA Settled ==
  ASSUME BuffersAccounted, UNCHANGED <<pending, leaked>>,
         free' + Len(rx') + Len(tx') = free + Len(rx) + Len(tx)
  PROVE  BuffersAccounted'
<1>1. Waiting' = Waiting
  BY DEF Waiting
<1>. QED  BY <1>1 DEF BuffersAccounted

\* DAQ: as many frames as there are buffers, and no more than ODTs.
Sent(l) == IF free < Len(Layout[l]) THEN free ELSE Len(Layout[l])

LEMMA FramesSent ==
  ASSUME IInv, NEW l \in Lists, NEW junk, NEW n, n = Sent(l),
         tx' = tx \o [o \in 1..n |-> Frame(l, o, junk)], free' = free - n
  PROVE  /\ IsSequence(tx') /\ free' \in Nat /\ free' + Len(tx') = free + Len(tx)
         /\ n \in Nat /\ n <= Len(Layout[l]) /\ Len(tx) \in Nat
         /\ DOMAIN tx = 1..Len(tx) /\ DOMAIN tx' = 1..Len(tx) + n
         /\ \A i \in 1..Len(tx) : tx'[i] = tx[i]
         /\ \A o \in 1..n : tx'[Len(tx) + o] = Frame(l, o, junk)
<1>1. free \in Nat /\ Len(Layout[l]) \in Nat /\ IsSequence(tx)
  BY LayoutType DEF IInv, Typed
<1>2. n \in Nat /\ n <= free /\ n <= Len(Layout[l])
  BY <1>1 DEF Sent
<1>3. PICK S : tx \in Seq(S)
  BY <1>1 DEF IsSequence
<1>4. PICK f : f = [o \in 1..n |-> Frame(l, o, junk)]
  OBVIOUS
<1>5. f = [o \in 1..n |-> f[o]] /\ \A o \in 1..n : f[o] = Frame(l, o, junk)
  BY <1>4
<1>6. /\ IsSequence(tx \o f)
      /\ Len(tx) \in Nat /\ Len(tx \o f) = Len(tx) + n
      /\ DOMAIN tx = 1..Len(tx) /\ DOMAIN (tx \o f) = 1..Len(tx) + n
      /\ \A i \in 1..Len(tx) : (tx \o f)[i] = tx[i]
      /\ \A o \in 1..n : (tx \o f)[Len(tx) + o] = f[o]
  BY <1>2, <1>3, <1>5, Joined
<1>7. tx' = tx \o f /\ IsSequence(tx')
  BY <1>4, <1>6 DEF IsSequence
<1>. QED  BY <1>1, <1>2, <1>5, <1>6, <1>7

LEMMA EventTyped == ASSUME IInv, NEW l \in Lists, Event(l) PROVE Typed' /\ BuffersAccounted'
<1>1. Typed /\ BuffersAccounted /\ UNCHANGED <<master, heard, bounds>>
  BY DEF IInv, Event, mind
<1>2. CASE StimEvent(l)
  <2>1. /\ free' \in Nat /\ BuffersAccounted'
        /\ pending' = [m \in Lists |-> [n \in Odts(m) |-> pending'[m][n]]]
    BY <1>2, EventAccounts
  <2>2. UNCHANGED <<header, built, mode, rx, tx, leaked>> /\ due' = [due EXCEPT ![l] = [o \in Odts(l) |-> NoPacket]]
    BY <1>2 DEF StimEvent, Nothing
  <2>3. due' = [m \in Lists |-> [n \in Odts(m) |-> due'[m][n]]]
    BY <1>1, <2>2 DEF Typed
  <2>. QED  BY <1>1, <2>1, <2>2, <2>3 DEF Typed
<1>3. CASE DaqEvent(l)
  <2>1. PICK n : n = Sent(l)
    OBVIOUS
  <2>2. PICK junk : tx' = tx \o [o \in 1..n |-> Frame(l, o, junk)] /\ free' = free - n
    BY <1>3, <2>1 DEF DaqEvent, Sent
  <2>3. IsSequence(tx') /\ free' \in Nat /\ free' + Len(tx') = free + Len(tx)
    BY <2>1, <2>2, FramesSent
  <2>4. UNCHANGED <<header, built, mode, pending, rx, store, due, leaked>>
    BY <1>3 DEF DaqEvent, daq, history
  <2>5. Len(rx) \in Nat /\ Len(tx) \in Nat /\ Len(tx') \in Nat /\ free \in Nat
    BY <1>1, <2>3, LenProperties DEF Typed, IsSequence
  <2>6. free' + Len(rx') + Len(tx') = free + Len(rx) + Len(tx)
    BY <2>3, <2>4, <2>5
  <2>. QED  BY <1>1, <2>3, <2>4, <2>6, Settled DEF Typed
<1>. QED  BY <1>2, <1>3 DEF Event

\* A frame goes out.
LEMMA Sending ==
  ASSUME IInv, Transmit
  PROVE  /\ IsSequence(tx') /\ Len(tx) \in Nat \ {0} /\ Len(tx') = Len(tx) - 1
         /\ DOMAIN tx = 1..Len(tx) /\ DOMAIN tx' = 1..Len(tx) - 1
         /\ \A i \in 1..Len(tx) - 1 : tx'[i] = tx[i + 1]
         /\ Head(tx) = tx[1] /\ free' = free + 1
         /\ UNCHANGED <<header, built, mode, pending, rx, store, due, leaked, events, bounds>>
         /\ \/ Head(tx).kind = "DTO" /\ master' = master
            \/ Head(tx).kind # "DTO" /\ heard' = heard /\ master'.call = NoCall
<1>1. PICK S : tx \in Seq(S)
  BY DEF IInv, Typed, IsSequence
<1>2. tx # <<>> /\ tx' = Tail(tx) /\ free' = free + 1
  BY DEF Transmit
<1>3. UNCHANGED <<header, built, mode, pending, rx, store, due, leaked, events, bounds>>
  BY DEF Transmit, daq, history
<1>4. \/ Head(tx).kind = "DTO" /\ master' = master
      \/ Head(tx).kind # "DTO" /\ heard' = heard /\ master'.call = NoCall
  BY DEF Transmit
<1>. QED  BY <1>1, <1>2, <1>3, <1>4, Dropped DEF IsSequence

LEMMA TransmitTyped == ASSUME IInv, Transmit PROVE Typed' /\ BuffersAccounted'
<1>1. Typed /\ BuffersAccounted
  BY DEF IInv
<1>2. /\ IsSequence(tx') /\ Len(tx) \in Nat \ {0} /\ Len(tx') = Len(tx) - 1 /\ free' = free + 1
      /\ UNCHANGED <<header, built, mode, pending, rx, store, due, leaked, events, bounds>>
  BY Sending
<1>3. heard' = [l \in Lists |-> heard'[l]]
  <2>1. PICK h : h = [event |-> Head(tx).event, odt |-> Head(tx).odt]
    OBVIOUS
  <2>2. heard' = heard \/ heard' = [heard EXCEPT ![Head(tx).list] = h]
    BY <2>1 DEF Transmit
  <2>. QED  BY <1>1, <2>2 DEF Typed
<1>4. master' \in [call : Calls \cup {NoCall}, quiet : SUBSET Lists]
  <2>1. \/ master' = master
        \/ master' = [call |-> NoCall, quiet |-> master.quiet]
        \/ /\ master.call # NoCall /\ master.call.cmd = "STOP"
           /\ master' = [call |-> NoCall, quiet |-> master.quiet \cup {master.call.list}]
    BY DEF Transmit
  <2>2. master.call \in Calls /\ master.call.cmd = "STOP" => master.call.list \in Lists
    BY DEF Calls
  <2>. QED  BY <1>1, <2>1, <2>2 DEF Typed
<1>5. free' \in Nat /\ free' + Len(rx') + Len(tx') = free + Len(rx) + Len(tx)
  <2>1. free \in Nat /\ Len(rx) \in Nat
    BY <1>1, LenProperties DEF Typed, IsSequence
  <2>. QED  BY <1>2, <2>1
<1>6. Typed'
  BY <1>1, <1>2, <1>3, <1>4, <1>5 DEF Typed
<1>. QED  BY <1>1, <1>2, <1>5, <1>6, Settled

LEMMA RefuseTyped == ASSUME IInv, Refuse PROVE Typed' /\ BuffersAccounted'
<1>1. Typed /\ BuffersAccounted /\ UNCHANGED <<daq, pool, store, mind, history>>
  BY DEF IInv, Refuse
<1>2. bounds' \in [calls : Nat, packets : Nat, refused : Nat]
  BY <1>1 DEF Refuse, Within, Typed
<1>. QED  BY <1>1, <1>2, Settled DEF Typed, daq, pool, mind, history

\* The number of the first ODT of a list.
LEMMA PidType ==
  ASSUME Typed, NEW l \in Lists, NEW o \in Odts(l)
  PROVE  Pid(l, o) \in Nat
<1>1. Before(l) \in Nat
  BY BeforeCounts
<1>2. o \in Nat \ {0}
  BY LayoutType
<1>. QED  BY <1>1, <1>2 DEF Pid

LEMMA StimulateRx ==
  ASSUME IInv, Stimulate
  PROVE  /\ master.call = NoCall /\ UNCHANGED <<daq, tx, store, mind, history, events>>
         /\ bounds' \in [calls : Nat, packets : Nat, refused : Nat]
         /\ \E p : IsStim(p) /\ Indicate(p) /\ p.pid = Pid(p.list, p.odt)
<1>1. Typed /\ Within("packets", MaxPackets) /\ master.call = NoCall
      /\ UNCHANGED <<daq, tx, store, mind, history>>
  BY DEF IInv, Stimulate
<1>2. bounds' \in [calls : Nat, packets : Nat, refused : Nat] /\ events' = events
  BY <1>1 DEF Within, Typed
<1>3. PICK l \in CanStim, n \in Lengths \cup (IF TooShort THEN {1 - header} ELSE {}) :
        \E o \in Odts(l) :
          Indicate([cmd |-> "STIM", pid |-> Pid(l, o), list |-> l, odt |-> o, len |-> n,
                    data |-> [i \in 1..n |-> (bounds.packets + i) % 3]])
  BY DEF Stimulate
<1>4. PICK o \in Odts(l) :
        Indicate([cmd |-> "STIM", pid |-> Pid(l, o), list |-> l, odt |-> o, len |-> n,
                  data |-> [i \in 1..n |-> (bounds.packets + i) % 3]])
  BY <1>3
<1>5. PICK d : d = [i \in 1..n |-> (bounds.packets + i) % 3]
  OBVIOUS
<1>6. n \in Int /\ l \in Lists
  <2>1. l \in Lists /\ Lengths \subseteq Nat /\ Headers \subseteq 1..4
    BY RunAssumption
  <2>2. header \in Int
    BY <1>1, <2>1 DEF Typed
  <2>3. 1 - header \in Int
    BY <2>2
  <2>. QED  BY <2>1, <2>3
<1>7. d \in Seq(Nat)
  <2>1. CASE n \in Nat
    <3>1. bounds.packets \in Nat
      BY <1>1 DEF Typed
    <3>2. \A i \in 1..n : (bounds.packets + i) % 3 \in Nat
      BY <2>1, <3>1
    <3>3. d \in [1..n -> Nat]
      BY <1>5, <3>2
    <3>. QED  BY <2>1, <3>3, IsASeq
  <2>2. CASE n \notin Nat
    <3>1. 1..n = {}
      BY <1>6, <2>2
    <3>2. d \in [1..0 -> Nat]
      BY <1>5, <3>1
    <3>. QED  BY <3>2, IsASeq
  <2>. QED  BY <2>1, <2>2
<1>8. PICK p : p = [cmd |-> "STIM", pid |-> Pid(l, o), list |-> l, odt |-> o, len |-> n, data |-> d]
  OBVIOUS
<1>9. IsStim(p) /\ p.pid = Pid(p.list, p.odt)
  BY <1>1, <1>6, <1>7, <1>8, PidType DEF IsStim
<1>10. Indicate(p)
  BY <1>4, <1>5, <1>8
<1>. QED  BY <1>1, <1>2, <1>9, <1>10

LEMMA StimulateTyped == ASSUME IInv, Stimulate PROVE Typed' /\ BuffersAccounted'
<1>1. PICK p : IsStim(p) /\ Indicate(p)
  BY StimulateRx
<1>2. /\ UNCHANGED <<daq, tx, store, mind, history, events>> /\ Typed /\ BuffersAccounted
      /\ bounds' \in [calls : Nat, packets : Nat, refused : Nat]
  BY StimulateRx DEF IInv
<1>3. IsSequence(rx') /\ free' \in Nat /\ free' + Len(rx') = free + Len(rx)
  BY <1>1, <1>2, Indicated DEF Typed
<1>4. free' + Len(rx') + Len(tx') = free + Len(rx) + Len(tx)
  BY <1>2, <1>3
<1>. QED  BY <1>2, <1>3, <1>4, Settled DEF Typed, daq, mind, history

LEMMA CallRx ==
  ASSUME IInv, Call
  PROVE  /\ master.call = NoCall /\ rx = <<>> /\ DOMAIN rx = {} /\ Unanswered
         /\ UNCHANGED <<daq, tx, store, heard, history, events>>
         /\ bounds' \in [calls : Nat, packets : Nat, refused : Nat]
         /\ \E c \in Calls : /\ Indicate(c)
                             /\ master' = [call |-> c, quiet |-> IF c.cmd = "START" THEN master.quiet \ {c.list}
                                                                 ELSE master.quiet]
<1>1. /\ Typed /\ InFlight /\ Within("calls", MaxCalls) /\ master.call = NoCall /\ Answered
      /\ UNCHANGED <<daq, tx, store, heard, history>>
  BY DEF IInv, Call
<1>2. bounds' \in [calls : Nat, packets : Nat, refused : Nat] /\ events' = events
  BY <1>1 DEF Within, Typed
<1>3. Unanswered /\ \A i \in DOMAIN rx : FALSE
  BY <1>1 DEF Answered, Unanswered, InFlight, IsStim, IsSample
<1>4. PICK S : rx \in Seq(S)
  BY <1>1 DEF Typed, IsSequence
<1>5. rx = <<>>
  <2>1. rx # <<>> => 1 \in DOMAIN rx
    BY <1>4, Dropped
  <2>. QED  BY <1>3, <2>1
<1>. QED  BY <1>1, <1>2, <1>3, <1>5 DEF Call

LEMMA CallStepTyped == ASSUME IInv, Call PROVE Typed' /\ BuffersAccounted'
<1>1. /\ UNCHANGED <<daq, tx, store, heard, history, events>> /\ Typed /\ BuffersAccounted
      /\ bounds' \in [calls : Nat, packets : Nat, refused : Nat]
  BY CallRx DEF IInv
<1>2. PICK c \in Calls : /\ Indicate(c)
                         /\ master' = [call |-> c, quiet |-> IF c.cmd = "START" THEN master.quiet \ {c.list}
                                                             ELSE master.quiet]
  BY CallRx
<1>3. IsSequence(rx') /\ free' \in Nat /\ free' + Len(rx') = free + Len(rx)
  BY <1>1, <1>2, Indicated DEF Typed
<1>4. free' + Len(rx') + Len(tx') = free + Len(rx) + Len(tx)
  BY <1>1, <1>3
<1>5. master' \in [call : Calls \cup {NoCall}, quiet : SUBSET Lists]
  BY <1>1, <1>2 DEF Typed
<1>. QED  BY <1>1, <1>3, <1>4, <1>5, Settled DEF Typed, daq, history

LEMMA TimeoutTyped == ASSUME IInv, Timeout PROVE Typed' /\ BuffersAccounted'
<1>1. Typed /\ BuffersAccounted /\ UNCHANGED <<daq, pool, store, heard, history, events, bounds>>
  BY DEF IInv, Timeout
<1>2. master' \in [call : Calls \cup {NoCall}, quiet : SUBSET Lists]
  BY <1>1 DEF Timeout, Typed
<1>. QED  BY <1>1, <1>2, Settled DEF Typed, daq, pool, history

LEMMA NextTyped == ASSUME IInv, [Next]_vars PROVE Typed' /\ BuffersAccounted'
<1>1. CASE Slave
  BY <1>1, StimTyped, StartTyped, StopTyped, ModeTyped, FreeTyped, BuildTyped, TransmitTyped, RefuseTyped,
     EventTyped DEF Slave
<1>2. CASE Application \/ UNCHANGED vars
  <2>1. Typed /\ BuffersAccounted /\ UNCHANGED <<daq, pool, mind, history, events, bounds>>
    BY <1>2 DEF IInv, Application, vars
  <2>. QED  BY <2>1, Settled DEF Typed, daq, pool, mind, history
<1>. QED  BY <1>1, <1>2, CallStepTyped, StimulateTyped, TimeoutTyped DEF Next

-----------------------------------------------------------------------------
(* What is under way                                                       *)

\* An answer goes behind the frames there are, and is none of them.
LEMMA AnswerBehind ==
  ASSUME IInv, NEW kind \in {"RES", "ERR"}, NEW before \in Nat, NEW after \in Nat,
         Answer(kind, before, after)
  PROVE  /\ \A i \in DOMAIN tx' : tx'[i].kind \in {"DTO", "RES", "ERR"}
         /\ \A i \in DOMAIN tx' : IsSample(tx'[i]) => i \in DOMAIN tx /\ tx'[i] = tx[i]
         /\ UNCHANGED heard => InOrder'
         /\ Unanswered => /\ \A i, j \in DOMAIN tx' : ~IsSample(tx'[i]) /\ ~IsSample(tx'[j]) => i = j
                          /\ \A i \in DOMAIN tx' : tx'[i].kind = "RES" =>
                               kind = "RES" /\ \A j \in DOMAIN tx' : j <= i
<1>1. PICK S : tx \in Seq(S)
  BY DEF IInv, Typed, IsSequence
<1>2. /\ \A i \in DOMAIN tx : tx[i].kind \in {"DTO", "RES", "ERR"}
      /\ InOrder
  BY DEF IInv, InFlight
<1>3. CASE tx' = tx
  BY <1>2, <1>3 DEF InOrder, Unanswered, IsSample, Follows
<1>4. CASE tx' = Append(tx, [kind |-> kind])
  <2>1. /\ Len(tx) \in Nat /\ DOMAIN tx = 1..Len(tx) /\ DOMAIN tx' = 1..Len(tx) + 1
        /\ \A i \in 1..Len(tx) : tx'[i] = tx[i]
        /\ tx'[Len(tx) + 1] = [kind |-> kind]
    BY <1>1, <1>4, Appended
  <2>2. /\ \A i \in DOMAIN tx' : i \in DOMAIN tx \/ i = Len(tx) + 1
        /\ tx'[Len(tx) + 1].kind = kind /\ kind # "DTO"
    BY <2>1
  <2>3. \A i \in DOMAIN tx' : tx'[i].kind \in {"DTO", "RES", "ERR"}
    BY <1>2, <2>1, <2>2
  <2>4. \A i \in DOMAIN tx' : IsSample(tx'[i]) => i \in DOMAIN tx /\ tx'[i] = tx[i]
    BY <2>1, <2>2 DEF IsSample
  <2>5. ASSUME UNCHANGED heard PROVE InOrder'
    <3>. SUFFICES ASSUME NEW i \in DOMAIN tx', IsSample(tx'[i])
                  PROVE  /\ tx'[i].list \in Lists /\ tx'[i].odt \in Nat
                         /\ \/ tx'[i].odt = 1
                            \/ IF i = 1 THEN heard[tx'[1].list] = [event |-> tx'[1].event, odt |-> tx'[1].odt - 1]
                               ELSE Follows(tx'[i - 1], tx'[i])
      BY <2>5 DEF InOrder, IsSample, Follows
    <3>1. i \in DOMAIN tx /\ tx'[i] = tx[i]
      BY <2>4
    <3>2. i # 1 => i - 1 \in DOMAIN tx /\ tx'[i - 1] = tx[i - 1]
      BY <2>1, <3>1
    <3>. QED  BY <1>2, <3>1, <3>2 DEF InOrder
  <2>6. ASSUME Unanswered
        PROVE  /\ \A i, j \in DOMAIN tx' : ~IsSample(tx'[i]) /\ ~IsSample(tx'[j]) => i = j
               /\ \A i \in DOMAIN tx' : tx'[i].kind = "RES" => kind = "RES" /\ \A j \in DOMAIN tx' : j <= i
    <3>1. \A i \in DOMAIN tx' : ~IsSample(tx'[i]) => i = Len(tx) + 1
      BY <2>1, <2>2, <2>6 DEF Unanswered, IsSample
    <3>2. \A i \in DOMAIN tx' : tx'[i].kind = "RES" => ~IsSample(tx'[i])
      BY DEF IsSample
    <3>3. \A j \in DOMAIN tx' : j <= Len(tx) + 1
      BY <2>1
    <3>. QED  BY <2>2, <3>1, <3>2, <3>3
  <2>. QED  BY <2>3, <2>4, <2>5, <2>6
<1>. QED  BY <1>3, <1>4 DEF Answer

\* A call is answered: what it changes in the modes must not make a stopped
\* list run.
LEMMA CallStep ==
  ASSUME IInv, NEW cmd, Receive(cmd), cmd # "STIM", NEW kind \in {"RES", "ERR"}, Answer(kind, free, 1),
         \A l \in master.quiet : "RUNNING" \notin mode[l] => "RUNNING" \notin mode'[l],
         cmd = "STOP" /\ kind = "RES" => "RUNNING" \notin mode'[master.call.list]
  PROVE  InFlight' /\ Stopped' /\ Stopping' /\ InOrder'
<1>1. /\ master.call \in Calls /\ master.call # NoCall /\ master.call.cmd = cmd /\ Unanswered
      /\ DOMAIN rx' = {} /\ UNCHANGED <<master, heard>> /\ IsSequence(rx')
  BY TheCall, AnswerAccounts
<1>2. free \in Nat /\ Stopped
  BY DEF IInv, Typed
<1>3. /\ \A i \in DOMAIN tx' : tx'[i].kind \in {"DTO", "RES", "ERR"}
      /\ \A i \in DOMAIN tx' : IsSample(tx'[i]) => i \in DOMAIN tx /\ tx'[i] = tx[i]
      /\ InOrder'
      /\ \A i, j \in DOMAIN tx' : ~IsSample(tx'[i]) /\ ~IsSample(tx'[j]) => i = j
      /\ \A i \in DOMAIN tx' : tx'[i].kind = "RES" => kind = "RES" /\ \A j \in DOMAIN tx' : j <= i
  BY <1>1, <1>2, AnswerBehind
<1>4. InFlight'
  <2>1. rx' = <<>>
    BY <1>1, EmptySeq, LenProperties DEF IsSequence
  <2>. QED  BY <1>1, <1>3, <2>1 DEF InFlight, IsSample
<1>5. Stopped'
  <2>. SUFFICES ASSUME NEW l \in master.quiet
                PROVE  /\ "RUNNING" \notin mode'[l] /\ master.call # [cmd |-> "START", list |-> l]
                       /\ \A i \in DOMAIN tx' : ~SampleOf(tx'[i], l)
    BY <1>1 DEF Stopped
  <2>1. "RUNNING" \notin mode'[l] /\ master.call # [cmd |-> "START", list |-> l]
    BY <1>2 DEF Stopped
  <2>2. ASSUME NEW i \in DOMAIN tx', SampleOf(tx'[i], l) PROVE FALSE
    <3>1. i \in DOMAIN tx /\ tx'[i] = tx[i]
      BY <1>3, <2>2 DEF SampleOf, IsSample
    <3>. QED  BY <1>2, <2>2, <3>1 DEF Stopped
  <2>. QED  BY <2>1, <2>2
<1>6. Stopping'
  <2>. SUFFICES ASSUME master.call.cmd = "STOP", NEW i \in DOMAIN tx', tx'[i].kind = "RES"
                PROVE  /\ "RUNNING" \notin mode'[master.call.list]
                       /\ \A j \in DOMAIN tx' : j > i => ~SampleOf(tx'[j], master.call.list)
    BY <1>1 DEF Stopping, SampleOf
  <2>1. "RUNNING" \notin mode'[master.call.list]
    BY <1>1, <1>3
  <2>2. \A j \in DOMAIN tx' : ~(j > i)
    <3>1. IsSequence(tx')
      BY AnswerAccounts
    <3>2. DOMAIN tx' = 1..Len(tx') /\ Len(tx') \in Nat
      BY <3>1, LenProperties DEF IsSequence
    <3>. QED  BY <1>3, <3>2
  <2>. QED  BY <2>1, <2>2
<1>. QED  BY <1>3, <1>4, <1>5, <1>6

Rest == InFlight /\ Stopped /\ Stopping /\ InOrder

LEMMA StartStep == ASSUME IInv, Start PROVE Rest'
<1>1. /\ Receive("START") /\ Packet = master.call /\ master.call \in Calls /\ master.call.cmd = "START"
      /\ Typed /\ Stopped
  BY TheCall DEF IInv, Start
<1>2. master.call = [cmd |-> "START", list |-> master.call.list] /\ master.call.list \in Lists
  BY <1>1 DEF Calls
<1>3. master.call.list \notin master.quiet
  BY <1>1, <1>2 DEF Stopped
<1>4. \A l \in master.quiet : mode'[l] = mode[l]
  BY <1>1, <1>3 DEF Start, Typed
<1>5. PICK kind \in {"RES", "ERR"} : Answer(kind, free, 1)
  BY DEF Start
<1>. QED  BY <1>1, <1>4, <1>5, CallStep DEF Rest

LEMMA StopStep == ASSUME IInv, Stop PROVE Rest'
<1>1. /\ Receive("STOP") /\ Packet = master.call /\ master.call \in Calls /\ master.call.cmd = "STOP"
      /\ Typed /\ Stopped
  BY TheCall DEF IInv, Stop
<1>2. master.call.list \in Lists
  BY <1>1 DEF Calls
<1>3. \A l \in Lists : "RUNNING" \notin mode[l] => "RUNNING" \notin mode'[l]
  BY <1>1, <1>2 DEF Stop, Typed
<1>4. PICK kind \in {"RES", "ERR"} : kind = (IF built THEN "RES" ELSE "ERR") /\ Answer(kind, free, 1)
  BY DEF Stop
<1>5. kind = "RES" => "RUNNING" \notin mode'[master.call.list]
  BY <1>1, <1>2, <1>4 DEF Stop, Typed
<1>6. master.quiet \subseteq Lists
  BY <1>1 DEF Typed
<1>. QED  BY <1>1, <1>3, <1>4, <1>5, <1>6, CallStep DEF Rest

LEMMA ModeStep == ASSUME IInv, SetDaqListMode PROVE Rest'
<1>1. /\ Receive("SET_DAQ_LIST_MODE") /\ Packet = master.call /\ master.call \in Calls
      /\ master.call.cmd = "SET_DAQ_LIST_MODE" /\ Typed /\ Stopped
  BY TheCall DEF IInv, SetDaqListMode
<1>2. master.call.list \in Lists
  BY <1>1 DEF Calls
<1>3. PICK new : new = {"CHANNEL"} \cup IF Packet.stim THEN {"STIM"} ELSE {}
  OBVIOUS
<1>4. mode' = mode \/ mode' = [mode EXCEPT ![Packet.list] = new]
  BY <1>3 DEF SetDaqListMode
<1>5. \A l \in Lists : "RUNNING" \notin mode[l] => "RUNNING" \notin mode'[l]
  <2>1. "RUNNING" \notin new
    BY <1>3
  <2>. QED  BY <1>1, <1>2, <1>4, <2>1 DEF Typed
<1>6. PICK kind \in {"RES", "ERR"} : Answer(kind, free, 1)
  BY DEF SetDaqListMode
<1>7. master.quiet \subseteq Lists
  BY <1>1 DEF Typed
<1>. QED  BY <1>1, <1>5, <1>6, <1>7, CallStep DEF Rest

LEMMA FreeStep == ASSUME IInv, FreeDaq PROVE Rest'
<1>1. Receive("FREE_DAQ") /\ Answer("RES", free, 1) /\ Typed
  BY DEF IInv, FreeDaq
<1>2. \A l \in master.quiet : "RUNNING" \notin mode'[l]
  BY <1>1 DEF FreeDaq, Typed
<1>. QED  BY <1>1, <1>2, CallStep DEF Rest

LEMMA BuildStep == ASSUME IInv, Build PROVE Rest'
<1>1. Receive("BUILD") /\ mode' = mode
  BY DEF Build
<1>2. PICK kind \in {"RES", "ERR"} : Answer(kind, free, 1)
  BY DEF Build
<1>. QED  BY <1>1, <1>2, CallStep DEF Rest

LEMMA StimStep == ASSUME IInv, ReceiveStim PROVE Rest'
<1>1. /\ Typed /\ Receive("STIM") /\ UNCHANGED <<store, master, heard, events, bounds>>
      /\ UNCHANGED <<header, built, mode, leaked>>
      /\ master.call = NoCall /\ \A i \in DOMAIN rx' : IsStim(rx'[i])
  BY TheStim DEF IInv, ReceiveStim
<1>2. PICK at : at = GetOdt(IF Absolute THEN 1 ELSE Packet.list, Packet.pid)
  OBVIOUS
<1>3. PICK old \in {0, 1} : old = IF pending[at[1]][at[2]] = NoPacket THEN 0 ELSE 1
  OBVIOUS
<1>4. Stim(at) \/ Answer("ERR", free, 1)
  BY <1>2 DEF ReceiveStim
<1>5. Answer("RES", free + old, 0) \/ Answer("ERR", free, 1)
  BY <1>3, <1>4 DEF Stim
<1>6. free \in Nat /\ free + old \in Nat
  BY <1>1 DEF Typed
<1>7. /\ \A i \in DOMAIN tx' : tx'[i].kind \in {"DTO", "RES", "ERR"}
      /\ \A i \in DOMAIN tx' : IsSample(tx'[i]) => i \in DOMAIN tx /\ tx'[i] = tx[i]
      /\ InOrder'
  BY <1>1, <1>5, <1>6, AnswerBehind
<1>8. Stopped'
  BY <1>1, <1>7 DEF IInv, Stopped, SampleOf, IsSample
<1>. QED  BY <1>1, <1>7, <1>8 DEF InFlight, Stopping, Rest

LEMMA RefuseStep == ASSUME IInv, UNCHANGED <<mode, rx, tx, master, heard>> PROVE Rest'
BY DEF IInv, Rest, InFlight, Stopped, Stopping, InOrder, Unanswered, IsSample, SampleOf, Follows

LEMMA TimeoutStep == ASSUME IInv, Timeout PROVE Rest'
<1>1. UNCHANGED <<mode, rx, tx, heard>> /\ master' = [master EXCEPT !.call = NoCall]
      /\ rx = <<>> /\ Typed /\ InFlight /\ Stopped /\ InOrder
  BY DEF IInv, Timeout, daq, pool
<1>2. master'.call = NoCall /\ master'.quiet = master.quiet /\ master.quiet \subseteq Lists
  BY <1>1 DEF Typed
<1>3. DOMAIN rx = {}
  BY <1>1, EmptySeq
<1>4. \A l \in Lists : NoCall # [cmd |-> "START", list |-> l]
  BY RunAssumption DEF Calls
<1>5. InFlight'
  BY <1>1, <1>2, <1>3 DEF InFlight
<1>6. Stopped'
  BY <1>1, <1>2, <1>4 DEF Stopped, SampleOf
<1>7. Stopping'
  BY <1>2 DEF Stopping
<1>8. InOrder'
  BY <1>1 DEF InOrder, IsSample, Follows
<1>. QED  BY <1>5, <1>6, <1>7, <1>8 DEF Rest

LEMMA StimulateStep == ASSUME IInv, Stimulate PROVE Rest'
<1>1. UNCHANGED <<daq, tx, mind>> /\ master.call = NoCall /\ Typed
  BY StimulateRx DEF IInv
<1>2. PICK p : IsStim(p) /\ Indicate(p)
  BY StimulateRx
<1>3. rx' = rx \/ rx' = Append(rx, p)
  BY <1>1, <1>2, Indicated DEF Typed
<1>4. PICK S : rx \in Seq(S)
  BY <1>1 DEF Typed, IsSequence
<1>5. \A i \in DOMAIN rx' : (i \in DOMAIN rx /\ rx'[i] = rx[i]) \/ rx'[i] = p
  BY <1>3, <1>4, Appended
<1>6. \A i \in DOMAIN rx' : IsStim(rx'[i])
  BY <1>1, <1>2, <1>5 DEF IInv, InFlight
<1>7. InFlight /\ Stopped /\ Stopping /\ InOrder /\ UNCHANGED <<mode, tx, master, heard>>
  BY <1>1 DEF IInv, daq, mind
<1>8. InFlight'
  BY <1>1, <1>6, <1>7 DEF InFlight
<1>9. Stopped' /\ Stopping' /\ InOrder'
  BY <1>7 DEF Stopped, Stopping, InOrder, SampleOf, IsSample, Follows
<1>. QED  BY <1>8, <1>9 DEF Rest

\* The master gives a command when nothing else is under way.
LEMMA CallStepRest == ASSUME IInv, Call PROVE Rest'
<1>1. /\ rx = <<>> /\ DOMAIN rx = {} /\ Unanswered /\ UNCHANGED <<daq, tx, heard>>
      /\ Typed /\ InFlight /\ Stopped /\ InOrder
  BY CallRx DEF IInv
<1>2. PICK c \in Calls : /\ Indicate(c)
                         /\ master' = [call |-> c, quiet |-> IF c.cmd = "START" THEN master.quiet \ {c.list}
                                                             ELSE master.quiet]
  BY CallRx
<1>3. rx' = <<>> \/ rx' = Append(<<>>, c)
  BY <1>1, <1>2, Indicated DEF Typed
<1>4. \/ DOMAIN rx' = {}
      \/ DOMAIN rx' = {1} /\ rx'[1] = c
  <2>1. Append(<<>>, c) = <<c>> /\ DOMAIN <<c>> = {1} /\ <<c>>[1] = c
    OBVIOUS
  <2>. QED  BY <1>1, <1>3, <2>1
<1>5. c # NoCall /\ master'.call = c
  BY <1>2, RunAssumption
<1>6. InFlight'
  <2>1. \A i \in DOMAIN tx : tx[i].kind \in {"DTO", "RES", "ERR"} /\ IsSample(tx[i])
    BY <1>1 DEF InFlight, Unanswered
  <2>. QED  BY <1>1, <1>4, <1>5, <2>1 DEF InFlight, Unanswered, daq
<1>7. Stopped'
  <2>. SUFFICES ASSUME NEW l \in master'.quiet
                PROVE  /\ "RUNNING" \notin mode'[l] /\ master'.call # [cmd |-> "START", list |-> l]
                       /\ \A i \in DOMAIN tx' : ~SampleOf(tx'[i], l)
    BY DEF Stopped, SampleOf
  <2>1. l \in master.quiet /\ ~(c.cmd = "START" /\ c.list = l)
    BY <1>2
  <2>2. c # [cmd |-> "START", list |-> l]
    BY <2>1
  <2>. QED  BY <1>1, <1>5, <2>1, <2>2 DEF Stopped, daq
<1>8. Stopping'
  BY <1>1 DEF Stopping, Unanswered, IsSample
<1>9. InOrder'
  BY <1>1 DEF InOrder, IsSample, Follows
<1>. QED  BY <1>6, <1>7, <1>8, <1>9 DEF Rest

\* Only a list that runs sends frames, each behind the one before it.
LEMMA EventStep == ASSUME IInv, NEW l \in Lists, Event(l) PROVE Rest'
<1>1. /\ Typed /\ InFlight /\ Stopped /\ Stopping /\ InOrder /\ UNCHANGED <<master, heard>>
      /\ "RUNNING" \in mode[l]
  BY DEF IInv, Event, mind
<1>2. CASE StimEvent(l)
  BY <1>1, <1>2, RefuseStep DEF StimEvent
<1>3. CASE DaqEvent(l)
  <2>1. PICK n : n = Sent(l)
    OBVIOUS
  <2>2. PICK junk : tx' = tx \o [o \in 1..n |-> Frame(l, o, junk)] /\ free' = free - n
    BY <1>3, <2>1 DEF DaqEvent, Sent
  <2>3. /\ n \in Nat /\ Len(tx) \in Nat /\ DOMAIN tx = 1..Len(tx) /\ DOMAIN tx' = 1..Len(tx) + n
        /\ \A i \in 1..Len(tx) : tx'[i] = tx[i]
        /\ \A o \in 1..n : tx'[Len(tx) + o] = Frame(l, o, junk)
    BY <2>1, <2>2, FramesSent
  <2>4. PICK e : e = events[l] + 1
    OBVIOUS
  <2>5. \A o : LET f == Frame(l, o, junk) IN f.kind = "DTO" /\ f.list = l /\ f.odt = o /\ f.event = e
    BY <2>4 DEF Frame
  <2>6. UNCHANGED <<mode, rx>>
    BY <1>3 DEF DaqEvent, daq
  <2>7. \A i \in DOMAIN tx' : \/ i \in DOMAIN tx /\ tx'[i] = tx[i]
                              \/ i \notin DOMAIN tx /\ \E o \in 1..n : i = Len(tx) + o /\ tx'[i] = Frame(l, o, junk)
    <3>1. \A i \in 1..Len(tx) + n : i \notin 1..Len(tx) => i - Len(tx) \in 1..n /\ i = Len(tx) + (i - Len(tx))
      BY <2>3
    <3>. QED  BY <2>3, <3>1
  <2>8. \A i \in DOMAIN tx' : \/ i \in DOMAIN tx /\ tx'[i] = tx[i]
                              \/ IsSample(tx'[i]) /\ SampleOf(tx'[i], l)
    BY <2>5, <2>7 DEF IsSample, SampleOf
  <2>9. InFlight'
    <3>1. \A i \in DOMAIN tx' : tx'[i].kind \in {"DTO", "RES", "ERR"}
      BY <1>1, <2>8 DEF InFlight, IsSample
    <3>2. \A i \in DOMAIN tx' : ~IsSample(tx'[i]) => i \in DOMAIN tx /\ ~IsSample(tx[i])
      BY <2>8
    <3>. QED  BY <1>1, <2>6, <3>1, <3>2 DEF InFlight, Unanswered
  <2>10. l \notin master.quiet
    BY <1>1 DEF Stopped
  <2>11. Stopped'
    <3>. SUFFICES ASSUME NEW k \in master.quiet
                  PROVE  /\ "RUNNING" \notin mode[k] /\ master.call # [cmd |-> "START", list |-> k]
                         /\ \A i \in DOMAIN tx' : ~SampleOf(tx'[i], k)
      BY <1>1, <2>6 DEF Stopped, SampleOf
    <3>1. k # l
      BY <2>10
    <3>. QED  BY <1>1, <2>8, <3>1 DEF Stopped, SampleOf
  <2>12. Stopping'
    <3>. SUFFICES ASSUME master.call # NoCall, master.call.cmd = "STOP", NEW i \in DOMAIN tx', tx'[i].kind = "RES"
                  PROVE  /\ "RUNNING" \notin mode[master.call.list]
                         /\ \A j \in DOMAIN tx' : j > i => ~SampleOf(tx'[j], master.call.list)
      BY <1>1, <2>6 DEF Stopping, SampleOf
    <3>1. i \in DOMAIN tx /\ tx[i].kind = "RES"
      BY <2>8 DEF IsSample
    <3>2. /\ "RUNNING" \notin mode[master.call.list]
          /\ \A j \in DOMAIN tx : j > i => ~SampleOf(tx[j], master.call.list)
      BY <1>1, <3>1 DEF Stopping
    <3>3. master.call.list # l
      BY <1>1, <3>2
    <3>. QED  BY <2>8, <3>2, <3>3 DEF SampleOf
  <2>13. InOrder'
    <3>. SUFFICES ASSUME NEW i \in DOMAIN tx', IsSample(tx'[i])
                  PROVE  /\ tx'[i].list \in Lists /\ tx'[i].odt \in Nat
                         /\ \/ tx'[i].odt = 1
                            \/ IF i = 1 THEN heard[tx'[1].list] = [event |-> tx'[1].event, odt |-> tx'[1].odt - 1]
                               ELSE Follows(tx'[i - 1], tx'[i])
      BY <1>1 DEF InOrder, IsSample, Follows
    <3>1. CASE i \in DOMAIN tx
      <4>1. tx'[i] = tx[i]
        BY <2>7, <3>1
      <4>2. i # 1 => i - 1 \in DOMAIN tx /\ tx'[i - 1] = tx[i - 1]
        BY <2>3, <3>1
      <4>. QED  BY <1>1, <3>1, <4>1, <4>2 DEF InOrder
    <3>2. CASE i \notin DOMAIN tx
      <4>1. PICK o \in 1..n : i = Len(tx) + o /\ tx'[i] = Frame(l, o, junk)
        BY <2>7, <3>2
      <4>2. /\ tx'[i].kind = "DTO" /\ tx'[i].list = l /\ tx'[i].odt = o /\ tx'[i].event = e /\ o \in Nat
        BY <2>5, <4>1
      <4>3. o # 1 => Follows(tx'[i - 1], tx'[i]) /\ i # 1
        <5>. SUFFICES ASSUME o # 1 PROVE Follows(tx'[i - 1], tx'[i]) /\ i # 1
          OBVIOUS
        <5>1. o - 1 \in 1..n /\ i - 1 = Len(tx) + (o - 1) /\ i # 1
          BY <2>3, <4>1
        <5>2. tx'[i - 1] = Frame(l, o - 1, junk)
          BY <2>3, <5>1
        <5>3. /\ tx'[i - 1].kind = "DTO" /\ tx'[i - 1].list = l /\ tx'[i - 1].odt = o - 1
              /\ tx'[i - 1].event = e
          BY <2>5, <5>2
        <5>. QED  BY <4>2, <5>1, <5>3 DEF Follows
      <4>. QED  BY <4>2, <4>3
    <3>. QED  BY <3>1, <3>2
  <2>. QED  BY <2>9, <2>11, <2>12, <2>13 DEF Rest
<1>. QED  BY <1>2, <1>3 DEF Event

\* The first frame goes; what was behind it is in front.
LEMMA TransmitStep == ASSUME IInv, Transmit PROVE Rest'
<1>1. /\ Len(tx) \in Nat \ {0} /\ DOMAIN tx = 1..Len(tx) /\ DOMAIN tx' = 1..Len(tx) - 1
      /\ \A i \in 1..Len(tx) - 1 : tx'[i] = tx[i + 1]
      /\ Head(tx) = tx[1] /\ UNCHANGED <<mode, rx>>
      /\ \/ tx[1].kind = "DTO" /\ master' = master
         \/ tx[1].kind # "DTO" /\ heard' = heard /\ master'.call = NoCall
  BY Sending
<1>2. \A i \in DOMAIN tx' : i + 1 \in DOMAIN tx /\ tx'[i] = tx[i + 1] /\ i \in Nat \ {0}
  BY <1>1
<1>3. Typed /\ InFlight /\ Stopped /\ Stopping /\ InOrder /\ 1 \in DOMAIN tx
  BY <1>1 DEF IInv
<1>4. InFlight'
  <2>1. \A i \in DOMAIN tx' : tx'[i].kind \in {"DTO", "RES", "ERR"}
    BY <1>2, <1>3 DEF InFlight
  <2>2. CASE tx[1].kind = "DTO"
    <3>1. master' = master
      BY <1>1, <2>2
    <3>2. \A i, j \in DOMAIN tx' : i + 1 = j + 1 => i = j
      BY <1>1
    <3>. QED  BY <1>1, <1>2, <1>3, <2>1, <3>1, <3>2 DEF InFlight, Unanswered, IsSample
  <2>3. CASE tx[1].kind # "DTO"
    <3>1. master'.call = NoCall /\ ~Unanswered
      BY <1>1, <1>3, <2>3 DEF Unanswered, IsSample
    <3>2. \A i \in DOMAIN rx : IsStim(rx[i])
      <4>1. master.call # NoCall => DOMAIN rx = {}
        BY <1>3, <3>1, EmptySeq DEF InFlight
      <4>. QED  BY <1>3, <4>1 DEF InFlight
    <3>. QED  BY <1>1, <2>1, <3>1, <3>2 DEF InFlight
  <2>. QED  BY <2>2, <2>3
<1>5. Stopped'
  <2>1. \A l : (\A i \in DOMAIN tx : ~SampleOf(tx[i], l)) => \A i \in DOMAIN tx' : ~SampleOf(tx'[i], l)
    BY <1>2
  <2>2. CASE tx[1].kind = "DTO"
    <3>1. master' = master
      BY <1>1, <2>2
    <3>. QED  BY <1>1, <1>3, <2>1, <3>1 DEF Stopped, SampleOf
  <2>3. CASE tx[1].kind # "DTO"
    <3>. SUFFICES ASSUME NEW l \in master'.quiet
                  PROVE  /\ "RUNNING" \notin mode'[l] /\ master'.call # [cmd |-> "START", list |-> l]
                         /\ \A i \in DOMAIN tx' : ~SampleOf(tx'[i], l)
      BY DEF Stopped, SampleOf
    <3>1. \/ l \in master.quiet
          \/ /\ master.call # NoCall /\ master.call.cmd = "STOP" /\ tx[1].kind = "RES"
             /\ l = master.call.list
      BY <1>1, <2>3 DEF Transmit
    <3>2. l \in Lists
      <4>1. master.call # NoCall /\ master.call.cmd = "STOP" => master.call.list \in Lists
        BY <1>3 DEF Typed, Calls
      <4>. QED  BY <1>3, <3>1, <4>1 DEF Typed
    <3>3. master'.call # [cmd |-> "START", list |-> l]
      BY <1>1, <2>3, <3>2, RunAssumption DEF Calls
    <3>4. CASE l \in master.quiet
      BY <1>1, <1>3, <2>1, <3>3, <3>4 DEF Stopped
    <3>5. CASE l \notin master.quiet
      <4>1. /\ master.call # NoCall /\ master.call.cmd = "STOP" /\ tx[1].kind = "RES" /\ l = master.call.list
        BY <3>1, <3>5
      <4>2. "RUNNING" \notin mode[l] /\ \A j \in DOMAIN tx : j > 1 => ~SampleOf(tx[j], l)
        BY <1>3, <4>1 DEF Stopping
      <4>3. \A i \in DOMAIN tx' : i + 1 > 1
        BY <1>2
      <4>. QED  BY <1>1, <1>2, <3>3, <4>2, <4>3
    <3>. QED  BY <3>4, <3>5
  <2>. QED  BY <2>2, <2>3
<1>6. Stopping'
  <2>1. CASE tx[1].kind = "DTO"
    <3>1. master' = master
      BY <1>1, <2>1
    <3>. SUFFICES ASSUME master.call # NoCall, master.call.cmd = "STOP", NEW i \in DOMAIN tx', tx'[i].kind = "RES"
                  PROVE  /\ "RUNNING" \notin mode[master.call.list]
                         /\ \A j \in DOMAIN tx' : j > i => ~SampleOf(tx'[j], master.call.list)
      BY <1>1, <3>1 DEF Stopping, SampleOf
    <3>2. /\ "RUNNING" \notin mode[master.call.list]
          /\ \A j \in DOMAIN tx : j > i + 1 => ~SampleOf(tx[j], master.call.list)
      BY <1>2, <1>3 DEF Stopping
    <3>3. \A j \in DOMAIN tx' : j > i => j + 1 > i + 1
      BY <1>1
    <3>. QED  BY <1>2, <3>2, <3>3
  <2>2. CASE tx[1].kind # "DTO"
    BY <1>1, <2>2 DEF Stopping
  <2>. QED  BY <2>1, <2>2
<1>7. InOrder'
  <2>. SUFFICES ASSUME NEW i \in DOMAIN tx', IsSample(tx'[i])
                PROVE  /\ tx'[i].list \in Lists /\ tx'[i].odt \in Nat
                       /\ \/ tx'[i].odt = 1
                          \/ IF i = 1 THEN heard'[tx'[1].list] = [event |-> tx'[1].event, odt |-> tx'[1].odt - 1]
                             ELSE Follows(tx'[i - 1], tx'[i])
    BY DEF InOrder, IsSample, Follows
  <2>1. /\ i + 1 \in DOMAIN tx /\ tx'[i] = tx[i + 1] /\ i + 1 # 1 /\ (i + 1) - 1 = i
    BY <1>2
  <2>2. /\ tx[i + 1].list \in Lists /\ tx[i + 1].odt \in Nat
        /\ tx[i + 1].odt = 1 \/ Follows(tx[i], tx[i + 1])
    BY <1>3, <2>1 DEF InOrder
  <2>3. CASE i = 1 /\ tx'[1].odt # 1
    <3>1. /\ tx'[1] = tx[2] /\ tx[1].kind = "DTO" /\ tx[1].list = tx[2].list /\ tx[1].event = tx[2].event
          /\ tx[1].odt = tx[2].odt - 1 /\ tx[2].list \in Lists
      BY <2>1, <2>2, <2>3 DEF Follows
    <3>2. heard' = [heard EXCEPT ![tx[1].list] = [event |-> tx[1].event, odt |-> tx[1].odt]]
      BY <1>1, <3>1 DEF Transmit
    <3>3. heard'[tx[1].list] = [event |-> tx[1].event, odt |-> tx[1].odt]
      BY <1>3, <3>1, <3>2 DEF Typed
    <3>. QED  BY <2>1, <2>2, <2>3, <3>1, <3>3
  <2>4. CASE i # 1
    <3>1. i - 1 \in DOMAIN tx' /\ (i - 1) + 1 = i
      BY <1>1, <2>4
    <3>2. tx'[i - 1] = tx[i]
      BY <1>2, <3>1
    <3>. QED  BY <2>1, <2>2, <2>4, <3>2
  <2>. QED  BY <2>1, <2>2, <2>3, <2>4
<1>. QED  BY <1>4, <1>5, <1>6, <1>7 DEF Rest

-----------------------------------------------------------------------------
(* The theorems                                                            *)

LEMMA NextInv == ASSUME IInv, [Next]_vars PROVE IInv'
<1>1. Typed' /\ BuffersAccounted'
  BY NextTyped
<1>2. Rest'
  <2>1. CASE Slave
    <3>1. Refuse => UNCHANGED <<mode, rx, tx, master, heard>>
      BY DEF Refuse, daq, pool, mind
    <3>. QED  BY <2>1, <3>1, StimStep, StartStep, StopStep, ModeStep, FreeStep, BuildStep, TransmitStep,
              RefuseStep, EventStep DEF Slave
  <2>2. CASE Application \/ UNCHANGED vars
    <3>1. UNCHANGED <<mode, rx, tx, master, heard>>
      BY <2>2 DEF Application, vars, daq, pool, mind
    <3>. QED  BY <3>1, RefuseStep
  <2>. QED  BY <2>1, <2>2, CallStepRest, StimulateStep, TimeoutStep DEF Next
<1>. QED  BY <1>1, <1>2 DEF IInv, Rest

LEMMA Invariance == Spec => []IInv
BY InitInv, NextInv, PTL DEF Spec

\* The lists, what waits for them and what is free keep their types: a list
\* that is not allocated neither runs nor has a direction, and there are never
\* more free buffers than there are buffers.
THEOREM TypeCorrect == Spec => []TypeOK
<1>1. IInv => TypeOK
  <2>. SUFFICES ASSUME IInv PROVE TypeOK
    OBVIOUS
  <2>1. Typed /\ BuffersAccounted
    BY DEF IInv
  <2>2. /\ free \in Nat /\ leaked \in Nat /\ Len(rx) \in Nat /\ Len(tx) \in Nat
        /\ Cardinality(Waiting) \in Nat /\ Buffers \in Nat
    BY <2>1, LenProperties, WaitingType, RunAssumption DEF Typed, IsSequence
  <2>3. free \in 0..Buffers
    <3>1. PICK w \in Nat : w = Cardinality(Waiting)
      BY <2>2
    <3>2. free + Len(rx) + Len(tx) + w + leaked = Buffers
      BY <2>1, <3>1 DEF BuffersAccounted
    <3>. QED  BY <2>2, <3>2
  <2>4. \A l \in Lists : DOMAIN pending[l] = Odts(l) /\ DOMAIN due[l] = Odts(l)
    BY <2>1 DEF Typed
  <2>. QED  BY <2>1, <2>3, <2>4 DEF TypeOK, Typed
<1>. QED  BY <1>1, Invariance, PTL

\* Every buffer is free, in a queue or held by an ODT, but for those that
\* FREE_DAQ left in the ODTs it freed (Xcp_Recieve_Stim, Xcp_ProcessDaq,
\* Xcp_CmdFreeDaq), for every number of buffers and every layout.
THEOREM BuffersInPlace == Spec => []BuffersAccounted
<1>1. IInv => BuffersAccounted
  BY DEF IInv
<1>. QED  BY <1>1, Invariance, PTL

\* What is heard of a list that was stopped is nothing any more, and each
\* frame of an event follows the one of the ODT before it, whatever was left
\* out for want of a buffer (Xcp_ProcessDaq, Xcp_Transmit_Main,
\* Xcp_CmdStartStopDaqList).
THEOREM SamplesOrdered == Spec => SamplesInOrder
<1>1. IInv /\ IInv' /\ [Next]_vars =>
        [Len(tx') < Len(tx) /\ Head(tx).kind = "DTO" =>
           LET f == Head(tx)
           IN /\ f.list \notin master.quiet
              /\ f.odt = 1 \/ heard[f.list] = [event |-> f.event, odt |-> f.odt - 1]]_vars
  <2>. SUFFICES ASSUME IInv, IInv', Len(tx') < Len(tx), Head(tx).kind = "DTO"
                PROVE  LET f == Head(tx)
                       IN /\ f.list \notin master.quiet
                          /\ f.odt = 1 \/ heard[f.list] = [event |-> f.event, odt |-> f.odt - 1]
    OBVIOUS
  <2>1. PICK S : tx \in Seq(S)
    BY DEF IInv, Typed, IsSequence
  <2>2. Len(tx') \in Nat
    BY LenProperties DEF IInv, Typed, IsSequence
  <2>3. tx # <<>>
    BY <2>1, <2>2, EmptySeq, LenProperties
  <2>4. 1 \in DOMAIN tx /\ Head(tx) = tx[1]
    BY <2>1, <2>3, Dropped
  <2>. QED  BY <2>4 DEF IInv, Stopped, SampleOf, InOrder, IsSample
<1>. QED  BY <1>1, Invariance, PTL DEF Spec, SamplesInOrder

-----------------------------------------------------------------------------
(* Where STIM packets wait                                                 *)

\* The master numbers the ODTs as the build wants it.
Numbered == \A i \in DOMAIN rx : rx[i].cmd = "STIM" => rx[i].pid = Pid(rx[i].list, rx[i].odt)

LEMMA NumberedStep ==
  ASSUME IInv, Numbered, [Next]_vars
  PROVE  Numbered'
<1>1. Typed /\ IsSequence(rx)
  BY DEF IInv, Typed
<1>2. header' = header
  BY DEF Next, Slave, ReceiveStim, Start, Stop, SetDaqListMode, FreeDaq, Build, Transmit, Refuse, Event,
         StimEvent, DaqEvent, Call, Stimulate, Timeout, Application, vars, daq
<1>3. \A l, o : Pid(l, o)' = Pid(l, o)
  BY <1>2 DEF Pid, Absolute, Before
<1>4. SUFFICES ASSUME NEW i \in DOMAIN rx', rx'[i].cmd = "STIM"
               PROVE  rx'[i].pid = Pid(rx'[i].list, rx'[i].odt)
  BY <1>2 DEF Numbered, Pid, Absolute, Before
<1>5. ASSUME NEW cmd, Receive(cmd) PROVE rx'[i].pid = Pid(rx'[i].list, rx'[i].odt)
  <2>1. i + 1 \in DOMAIN rx /\ rx'[i] = rx[i + 1]
    BY <1>1, <1>5, Received
  <2>. QED  BY <1>4, <2>1 DEF Numbered
<1>6. CASE rx' = rx
  BY <1>4, <1>6 DEF Numbered
<1>7. CASE Call
  <2>1. PICK c \in Calls : Indicate(c)
    BY <1>7, CallRx
  <2>2. rx = <<>> /\ (rx' = rx \/ rx' = Append(<<>>, c)) /\ DOMAIN rx = {}
    BY <1>1, <1>7, <2>1, CallRx, Indicated DEF Typed
  <2>3. Append(<<>>, c) = <<c>> /\ DOMAIN <<c>> = {1} /\ <<c>>[1] = c
    OBVIOUS
  <2>4. rx'[i] = c
    BY <2>2, <2>3
  <2>. QED  BY <1>4, <2>4 DEF Calls
<1>8. CASE Stimulate
  <2>1. PICK p : IsStim(p) /\ Indicate(p) /\ p.pid = Pid(p.list, p.odt)
    BY <1>8, StimulateRx
  <2>2. rx' = rx \/ rx' = Append(rx, p)
    BY <1>1, <2>1, Indicated DEF Typed
  <2>3. PICK S : rx \in Seq(S)
    BY <1>1 DEF IsSequence
  <2>4. (i \in DOMAIN rx /\ rx'[i] = rx[i]) \/ rx'[i] = p
    BY <2>2, <2>3, Appended
  <2>. QED  BY <1>4, <2>1, <2>4 DEF Numbered
<1>9. CASE Slave
  <2>1. CASE ReceiveStim \/ Start \/ Stop \/ SetDaqListMode \/ FreeDaq \/ Build
    BY <1>5, <2>1 DEF ReceiveStim, Start, Stop, SetDaqListMode, FreeDaq, Build
  <2>2. CASE Transmit \/ Refuse \/ \E l \in Lists : Event(l)
    <3>1. rx' = rx
      BY <2>2 DEF Transmit, Refuse, Event, StimEvent, DaqEvent, pool
    <3>. QED  BY <1>6, <3>1
  <2>. QED  BY <1>9, <2>1, <2>2 DEF Slave
<1>10. CASE Timeout \/ Application \/ UNCHANGED vars
  <2>1. rx' = rx
    BY <1>10 DEF Timeout, Application, vars, pool
  <2>. QED  BY <1>6, <2>1
<1>. QED  BY <1>7, <1>8, <1>9, <1>10 DEF Next

\* Xcp_GetOdt finds the ODT that the packet is for.
LEMMA StimInPlace ==
  ASSUME IInv, Numbered, PacketsInPlace, ReceiveStim
  PROVE  PacketsInPlace'
<1>1. /\ Typed /\ IsStim(Packet) /\ Receive("STIM") /\ pending = due
  BY TheStim DEF IInv, ReceiveStim, PacketsInPlace
<1>2. Packet.pid = Pid(Packet.list, Packet.odt)
  <2>1. 1 \in DOMAIN rx /\ Packet = rx[1] /\ Packet.cmd = "STIM"
    BY <1>1, Received DEF Typed, Receive
  <2>. QED  BY <2>1 DEF Numbered
<1>3. PICK l \in Lists, o \in Odts(Packet.list) : l = Packet.list /\ o = Packet.odt
  BY <1>1 DEF IsStim
<1>4. PICK at : at = GetOdt(IF Absolute THEN 1 ELSE Packet.list, Packet.pid)
  OBVIOUS
<1>5. at = IF built THEN <<l, o>> ELSE NoOdt
  <2>1. CASE built
    <3>1. at = GetOdt(IF Absolute THEN 1 ELSE l, IF Absolute THEN Before(l) + o - 1 ELSE o - 1)
      BY <1>2, <1>3, <1>4 DEF Pid
    <3>. QED  BY <1>3, <2>1, <3>1, OdtFound
  <2>2. CASE ~built
    <3>1. PICK first \in Lists, n \in Nat : at = GetOdt(first, n)
      <4>1. 1 \in Lists
        BY <1>3, LayoutType
      <4>. QED  BY <1>1, <1>3, <1>4, <4>1 DEF IsStim
    <3>2. PICK walk : /\ GetOdt(first, n) = IF built THEN walk[n] ELSE NoOdt
                      /\ walk[0] = <<first, 1>>
                      /\ \A j \in 1..n : walk[j] = Next1(walk[j - 1])
      BY GetOdtWalks
    <3>. QED  BY <2>2, <3>1, <3>2
  <2>. QED  BY <2>1, <2>2
<1>6. PICK d : d = [len |-> Packet.len, data |-> Packet.data]
  OBVIOUS
<1>7. CASE built /\ "STIM" \in mode[l]
  <2>1. at = <<l, o>> /\ at # NoOdt
    BY <1>3, <1>5, <1>7, PlaceNumbers DEF NoOdt
  <2>2. Stim(at)
    BY <1>4, <1>7, <2>1 DEF ReceiveStim
  <2>3. pending' = [pending EXCEPT ![l][o] = d]
    BY <1>6, <2>1, <2>2 DEF Stim
  <2>4. due' = [due EXCEPT ![l][o] = d]
    BY <1>3, <1>6, <1>7 DEF ReceiveStim
  <2>. QED  BY <1>1, <2>3, <2>4 DEF PacketsInPlace
<1>8. CASE ~(built /\ "STIM" \in mode[l])
  <2>1. pending' = pending
    BY <1>4, <1>5, <1>8 DEF ReceiveStim
  <2>2. due' = due
    BY <1>3, <1>8 DEF ReceiveStim
  <2>. QED  BY <1>1, <2>1, <2>2 DEF PacketsInPlace
<1>. QED  BY <1>7, <1>8

\* Each STIM packet waits at the ODT it is for: the numbers of Xcp_GetOdt,
\* counted in a list or over all of them, lead there for every layout of the
\* lists (Xcp_Recieve_Stim, Xcp_GetOdt).
THEOREM PacketsFound == Spec => []PacketsInPlace
<1>1. Init => Numbered /\ PacketsInPlace
  <2>1. DOMAIN <<>> = {}
    BY EmptySeq
  <2>. QED  BY <2>1 DEF Init, Numbered, PacketsInPlace
<1>2. IInv /\ Numbered /\ PacketsInPlace /\ [Next]_vars => PacketsInPlace'
  <2>. SUFFICES ASSUME IInv, Numbered, PacketsInPlace, [Next]_vars PROVE PacketsInPlace'
    OBVIOUS
  <2>1. CASE ReceiveStim
    BY <2>1, StimInPlace
  <2>2. CASE UNCHANGED <<pending, due>>
    BY <2>2 DEF PacketsInPlace
  <2>3. CASE \E l \in Lists : Event(l)
    BY <2>3 DEF Event, StimEvent, DaqEvent, PacketsInPlace, daq, history
  <2>4. CASE FreeDaq
    BY <2>4 DEF FreeDaq, PacketsInPlace
  <2>5. CASE Start \/ Stop \/ SetDaqListMode \/ Build
    BY <2>2, <2>5 DEF Start, Stop, SetDaqListMode, Build, history
  <2>6. CASE Transmit \/ Refuse \/ Call \/ Stimulate \/ Timeout \/ Application \/ UNCHANGED vars
    BY <2>2, <2>6 DEF Transmit, Refuse, Call, Stimulate, Timeout, Application, vars, daq, history
  <2>. QED  BY <2>1, <2>3, <2>4, <2>5, <2>6 DEF Next, Slave
<1>3. IInv /\ Numbered /\ [Next]_vars => Numbered'
  BY NumberedStep
<1>. QED  BY <1>1, <1>2, <1>3, Invariance, PTL DEF Spec
================================================================================
