-------------------------- MODULE XcpDaqConfigProofs --------------------------
(***************************************************************************)
(* Proofs about XcpDaqConfig, for every number of lists, ODTs and entries, *)
(* for a master with all habits.                                           *)
(*                                                                         *)
(* Each property is shown for the slaves and the memory that the runs      *)
(* daq_uncounted, daq_predefined and daq_memory show it to need.           *)
(***************************************************************************)
EXTENDS XcpDaqConfig, SequenceTheorems, FiniteSetTheorems, TLAPS

\* What the configuration says of its ODTs is so, and dynamic lists are not
\* built behind predefined ones.
SoundSetups == \A s \in Setups : s.odtCount = s.odts /\ (s.dynamic => s.minDaq = 0)

\* What any one ALLOC command asks for is on the heap.
Room == used \in Nat /\ used + MaxOdts + MaxEntries < HeapSize

-----------------------------------------------------------------------------
(* The invariant                                                           *)

Contents == {"empty", "data", "garbage"}
Odts == [pid : Nat, count : Nat, entries : Seq(Contents), valid : Int]
DaqLists == [odts : Seq(Odts), odtCount : Nat, maxOdt : Nat, running : BOOLEAN]

Places == {"null", "live", "end", "freed", "leaked"}
Pointers == [at : Places, daq : Nat, odt : Nat, entry : Nat, left : Nat]

NonEmpty(entries) == {e \in DOMAIN entries : entries[e] # "empty"}

\* The counter of an ODT is that of its chain, and every entry with something
\* in it counts as valid.
OdtSound(odt) == /\ odt \in Odts
                 /\ odt.count = Len(odt.entries)
                 /\ Cardinality(NonEmpty(odt.entries)) <= odt.valid

ListSound(l) == /\ l \in DaqLists
                /\ l.odtCount = Len(l.odts) /\ l.maxOdt = l.odtCount
                /\ \A o \in DOMAIN l.odts : OdtSound(l.odts[o])
                /\ l.running => Written(l)

Chains == /\ lists \in Seq(DaqLists)
          /\ Len(lists) = maxDaq /\ MinDaq <= maxDaq
          /\ \A d \in DOMAIN lists : ListSound(lists[d])

\* A pointer that is live leads to an entry, with as many behind it as it says.
Pointer == /\ ptr \in Pointers
           /\ ptr.at = "live" =>
                /\ ptr.daq \in DOMAIN lists
                /\ ptr.odt \in DOMAIN lists[ptr.daq].odts
                /\ ptr.entry \in 1..Len(lists[ptr.daq].odts[ptr.odt].entries)
                /\ ptr.left = Len(lists[ptr.daq].odts[ptr.odt].entries) - ptr.entry

Block == /\ block \in {"none", "lists"}
         /\ setup.dynamic /\ block = "none" => lists = <<>>

\* The identification of an ODT is the one it was built with.
Numbered ==
  \A d \in DOMAIN lists : \A o \in DOMAIN lists[d].odts :
    IF setup.dynamic THEN lists[d].odts[o].pid = o - 1
    ELSE o <= setup.odts /\ lists[d].odts[o].pid = InitPid(d, o)

IInv == setup \in Setups /\ fault = "none" /\ Chains /\ Pointer /\ Block /\ Numbered

-----------------------------------------------------------------------------
(* ODTs and lists                                                          *)

\* The entries with something in them can be counted.
LEMMA NonEmptyFinite ==
  ASSUME NEW entries \in Seq(Contents)
  PROVE  /\ IsFiniteSet(NonEmpty(entries))
         /\ Cardinality(NonEmpty(entries)) \in 0..Len(entries)
<1>. PICK n \in Nat : n = Len(entries)
  OBVIOUS
<1>1. DOMAIN entries = 1..n /\ NonEmpty(entries) \subseteq 1..n
  BY DEF NonEmpty
<1>2. IsFiniteSet(1..n) /\ Cardinality(1..n) = n
  <2>1. 1 \in Int /\ n \in Int
    OBVIOUS
  <2>2. IsFiniteSet(1..n) /\ Cardinality(1..n) = IF 1 > n THEN 0 ELSE n - 1 + 1
    BY <2>1, FS_Interval, Zenon
  <2>. QED  BY <2>2
<1>3. IsFiniteSet(NonEmpty(entries)) /\ Cardinality(NonEmpty(entries)) <= n
  BY <1>1, <1>2, FS_Subset
<1>. QED  BY <1>3, FS_CardinalityType

\* An ODT with one thing in all of its entries.
Alike(p, n, content, v) == [pid |-> p, count |-> n, entries |-> [e \in 1..n |-> content], valid |-> v]

\* An ODT whose entries are all alike is sound if they count as valid.
LEMMA BuiltSound ==
  ASSUME NEW p \in Nat, NEW n \in Nat, NEW v \in Nat, NEW content \in Contents,
         content = "empty" \/ n <= v
  PROVE  OdtSound(Alike(p, n, content, v))
<1>. DEFINE entries == [e \in 1..n |-> content]
<1>1. entries \in Seq(Contents) /\ Len(entries) = n /\ DOMAIN entries = 1..n
  OBVIOUS
<1>2. Cardinality(NonEmpty(entries)) <= v
  <2>1. CASE content = "empty"
    BY <2>1, FS_EmptySet DEF NonEmpty
  <2>2. CASE n <= v
    <3>1. Cardinality(NonEmpty(entries)) \in 0..n
      BY <1>1, NonEmptyFinite
    <3>. QED  BY <2>2, <3>1
  <2>. QED  BY <2>1, <2>2
<1>. QED  BY <1>1, <1>2 DEF OdtSound, Odts, Alike

\* Two fields of an ODT change, the others stay.
LEMMA Changed ==
  ASSUME NEW odt \in Odts, NEW v, NEW entries
  PROVE  [odt EXCEPT !.valid = v, !.entries = entries]
           = [pid |-> odt.pid, count |-> odt.count, entries |-> entries, valid |-> v]
<1>1. DOMAIN odt = {"pid", "count", "entries", "valid"} /\ odt = [f \in DOMAIN odt |-> odt[f]]
  BY DEF Odts
<1>. DEFINE one == [odt EXCEPT !.valid = v]
            two == [one EXCEPT !.entries = entries]
<1>2. one = [f \in DOMAIN odt |-> IF f = "valid" THEN v ELSE odt[f]]
  BY <1>1
<1>3. two = [f \in DOMAIN odt |-> IF f = "entries" THEN entries ELSE IF f = "valid" THEN v ELSE odt[f]]
  BY <1>2
<1>. QED  BY <1>1, <1>3

Rebuild(odt, n, entries, v) == [odt EXCEPT !.count = n, !.entries = entries, !.valid = v]

LEMMA Rebuilt ==
  ASSUME NEW odt \in Odts, NEW n, NEW v, NEW entries
  PROVE  Rebuild(odt, n, entries, v) = [pid |-> odt.pid, count |-> n, entries |-> entries, valid |-> v]
<1>1. DOMAIN odt = {"pid", "count", "entries", "valid"} /\ odt = [f \in DOMAIN odt |-> odt[f]]
  BY DEF Odts
<1>. DEFINE one == [odt EXCEPT !.count = n]
            two == [one EXCEPT !.entries = entries]
            three == [two EXCEPT !.valid = v]
<1>2. one = [f \in DOMAIN odt |-> IF f = "count" THEN n ELSE odt[f]]
  BY <1>1
<1>3. two = [f \in DOMAIN odt |-> IF f = "entries" THEN entries ELSE IF f = "count" THEN n ELSE odt[f]]
  BY <1>2
<1>4. three = [f \in DOMAIN odt |-> IF f = "valid" THEN v ELSE IF f = "entries" THEN entries
                                     ELSE IF f = "count" THEN n ELSE odt[f]]
  BY <1>3
<1>. QED  BY <1>1, <1>4 DEF Rebuild

LEMMA NewOdtSound ==
  ASSUME NEW i \in Nat, 1 <= i
  PROVE  OdtSound(NewOdt(i)) /\ NewOdt(i).pid = i - 1
<1>1. NonEmpty(<<>>) = {}
  BY DEF NonEmpty
<1>. QED  BY <1>1, FS_EmptySet DEF NewOdt, OdtSound, Odts

\* Clearing keeps an ODT sound, and its chain as long as it was.
LEMMA ClearedSound ==
  ASSUME NEW odt, OdtSound(odt)
  PROVE  /\ OdtSound(Cleared(odt))
         /\ Cleared(odt).pid = odt.pid
         /\ Len(Cleared(odt).entries) = Len(odt.entries)
<1>. PICK n \in Nat : n = Len(odt.entries)
  BY DEF OdtSound, Odts
<1>1. odt \in Odts /\ odt.count = n /\ DOMAIN odt.entries = 1..n
  BY DEF OdtSound, Odts
<1>2. [e \in DOMAIN odt.entries |-> IF e <= odt.count THEN "empty" ELSE odt.entries[e]]
        = [e \in 1..n |-> "empty"]
  BY <1>1
<1>3. Cleared(odt) = [odt EXCEPT !.valid = 0, !.entries = [e \in 1..n |-> "empty"]]
  BY <1>1, <1>2 DEF Cleared, Odts
<1>4. Cleared(odt) = Alike(odt.pid, n, "empty", 0)
  BY <1>1, <1>3, Changed DEF Alike
<1>5. OdtSound(Cleared(odt))
  BY <1>1, <1>4, BuiltSound DEF Contents, Odts
<1>6. Len([e \in 1..n |-> "empty"]) = n
  OBVIOUS
<1>. QED  BY <1>4, <1>5, <1>6 DEF Alike

\* Writing an entry keeps an ODT sound: it counts as valid once there is
\* something in it, and no longer once there is nothing.
LEMMA WrittenSound ==
  ASSUME NEW odt, OdtSound(odt), ptr.entry \in DOMAIN odt.entries, NEW new \in {"data", "empty"}
  PROVE  /\ OdtSound(WriteEntry(odt, new))
         /\ WriteEntry(odt, new).pid = odt.pid
         /\ Len(WriteEntry(odt, new).entries) = Len(odt.entries)
<1>. DEFINE e == ptr.entry
            old == NonEmpty(odt.entries)
            entries == [odt.entries EXCEPT ![e] = new]
<1>1. odt \in Odts /\ odt.entries \in Seq(Contents) /\ odt.valid \in Int /\ odt.count = Len(odt.entries)
  BY DEF OdtSound, Odts
<1>2. /\ entries \in Seq(Contents) /\ Len(entries) = Len(odt.entries)
      /\ DOMAIN entries = DOMAIN odt.entries
  BY <1>1 DEF Contents
<1>3. NonEmpty(entries) = IF new = "empty" THEN old \ {e} ELSE old \cup {e}
  BY <1>1 DEF NonEmpty
<1>4. IsFiniteSet(old) /\ Cardinality(old) \in Nat
  BY <1>1, NonEmptyFinite
<1>5. e \in old <=> odt.entries[e] # "empty"
  BY DEF NonEmpty
<1>6. Cardinality(NonEmpty(entries)) =
        IF new = "empty" THEN IF e \in old THEN Cardinality(old) - 1 ELSE Cardinality(old)
                         ELSE IF e \in old THEN Cardinality(old) ELSE Cardinality(old) + 1
  <2>1. Cardinality(old \cup {e}) = IF e \in old THEN Cardinality(old) ELSE Cardinality(old) + 1
    BY <1>4, FS_AddElement
  <2>2. Cardinality(old \ {e}) = IF e \in old THEN Cardinality(old) - 1 ELSE Cardinality(old)
    BY <1>4, FS_RemoveElement
  <2>. HIDE DEF old, e
  <2>. QED  BY <1>3, <2>1, <2>2
<1>7. Cardinality(old) <= odt.valid
  BY DEF OdtSound
<1>8. Cardinality(NonEmpty(entries)) <= Valid(odt, new) /\ Valid(odt, new) \in Int
  BY <1>1, <1>4, <1>5, <1>6, <1>7 DEF Valid
<1>9. WriteEntry(odt, new) = [pid |-> odt.pid, count |-> odt.count, entries |-> entries, valid |-> Valid(odt, new)]
  <2>1. WriteEntry(odt, new) = [odt EXCEPT !.valid = Valid(odt, new), !.entries = entries]
    BY <1>1 DEF WriteEntry, Odts
  <2>. QED  BY <1>1, <2>1, Changed
<1>. QED  BY <1>1, <1>2, <1>8, <1>9 DEF OdtSound, Odts

LEMMA MinDaqType == setup \in Setups => MinDaq \in Nat
BY ConfigAssumption DEF IsSetup, MinDaq

LEMMA SetupType ==
  ASSUME setup \in Setups, SoundSetups
  PROVE  /\ setup.dynamic \in BOOLEAN /\ setup.absolute \in BOOLEAN
         /\ MinDaq \in Nat /\ setup.daqs \in Nat /\ MinDaq <= setup.daqs
         /\ setup.odts \in Nat \ {0} /\ setup.odtCount = setup.odts
         /\ setup.dynamic => MinDaq = 0 /\ setup.daqs = 0
BY ConfigAssumption DEF IsSetup, SoundSetups, MinDaq

\* One list is replaced by a sound one.
LEMMA ListReplaced ==
  ASSUME Chains, NEW d \in DOMAIN lists, NEW l, ListSound(l),
         lists' = [lists EXCEPT ![d] = l], UNCHANGED <<setup, maxDaq>>
  PROVE  Chains'
<1>1. l \in DaqLists
  BY DEF ListSound
<1>2. lists' \in Seq(DaqLists) /\ Len(lists') = Len(lists) /\ DOMAIN lists' = DOMAIN lists
  BY <1>1 DEF Chains
<1>3. ASSUME NEW i \in DOMAIN lists' PROVE ListSound(lists'[i])
  BY <1>2 DEF Chains
<1>. QED  BY <1>2, <1>3 DEF Chains, MinDaq

\* A list that does not run takes ODTs that are sound, as many as it counts.
LEMMA ListEdited ==
  ASSUME NEW l, ListSound(l), ~l.running, NEW odts \in Seq(Odts), Len(odts) = Len(l.odts),
         \A o \in DOMAIN odts : OdtSound(odts[o])
  PROVE  ListSound([l EXCEPT !.odts = odts])
<1>. PICK new : new = [l EXCEPT !.odts = odts]
  OBVIOUS
<1>1. /\ new \in DaqLists /\ new.odts = odts /\ new.odtCount = l.odtCount
      /\ new.maxOdt = l.maxOdt /\ new.running = l.running
  BY DEF ListSound, DaqLists
<1>2. ListSound(new)
  BY <1>1 DEF ListSound
<1>. QED  BY <1>2

\* Lists, ODTs and entries are as many as before, and ODTs keep their
\* identification.
SameShape ==
  /\ DOMAIN lists' = DOMAIN lists
  /\ \A d \in DOMAIN lists :
       /\ DOMAIN lists'[d].odts = DOMAIN lists[d].odts
       /\ \A o \in DOMAIN lists[d].odts :
            /\ lists'[d].odts[o].pid = lists[d].odts[o].pid
            /\ Len(lists'[d].odts[o].entries) = Len(lists[d].odts[o].entries)

LEMMA ShapeKept ==
  ASSUME IInv, SameShape, UNCHANGED setup
  PROVE  Numbered' /\ (UNCHANGED ptr => Pointer')
<1>1. Numbered'
  BY DEF IInv, SameShape, Numbered, InitPid
<1>2. UNCHANGED ptr => Pointer'
  BY DEF IInv, SameShape, Pointer
<1>. QED  BY <1>1, <1>2

\* An ODT of a list is one that is sound.
LEMMA OdtAt ==
  ASSUME Chains, NEW d \in DOMAIN lists
  PROVE  /\ ListSound(lists[d]) /\ lists[d].odts \in Seq(Odts)
         /\ Len(lists[d].odts) \in Nat /\ DOMAIN lists[d].odts = 1..Len(lists[d].odts)
         /\ \A o \in DOMAIN lists[d].odts : OdtSound(lists[d].odts[o])
<1>1. ListSound(lists[d])
  BY DEF Chains
<1>2. lists[d].odts \in Seq(Odts)
  BY <1>1 DEF ListSound, DaqLists
<1>. QED  BY <1>1, <1>2 DEF ListSound

-----------------------------------------------------------------------------
(* Filling in and running                                                  *)

LEMMA InitInv == SoundSetups /\ Init => IInv
<1>. SUFFICES ASSUME SoundSetups, Init PROVE IInv
  OBVIOUS
<1>1. setup \in Setups /\ fault = "none" /\ maxDaq = setup.daqs /\ block = "none"
  BY DEF Init
<1>2. PICK n \in Nat \ {0} : n = setup.odts
  BY <1>1, SetupType
<1>3. PICK m \in Nat : m = setup.daqs
  BY <1>1, SetupType
<1>4. MaxEntries \in Nat
  BY ConfigAssumption
<1>5. ASSUME NEW d \in 1..m, NEW o \in 1..n
      PROVE  OdtSound(StaticOdt(d, o)) /\ StaticOdt(d, o).pid = InitPid(d, o)
  <2>1. PICK k \in Nat : k = (d - 1) * n
    OBVIOUS
  <2>2. InitPid(d, o) \in Nat
    BY <1>2, <2>1 DEF InitPid
  <2>3. PICK entry \in Contents, v \in Nat :
          /\ entry = "empty" \/ MaxEntries <= v
          /\ entry = IF d <= MinDaq THEN "data" ELSE "empty"
          /\ v = IF d <= MinDaq THEN MaxEntries ELSE 0
    BY <1>4 DEF Contents
  <2>4. StaticOdt(d, o) = Alike(InitPid(d, o), MaxEntries, entry, v)
    BY <2>3 DEF StaticOdt, Alike
  <2>5. Alike(InitPid(d, o), MaxEntries, entry, v).pid = InitPid(d, o)
    BY DEF Alike
  <2>. QED  BY <1>4, <2>2, <2>3, <2>4, <2>5, BuiltSound
<1>6. ASSUME NEW d \in 1..m
      PROVE  /\ ListSound(StaticList(d)) /\ DOMAIN StaticList(d).odts = 1..n
             /\ \A o \in 1..n : StaticList(d).odts[o] = StaticOdt(d, o)
  <2>. DEFINE odts == [o \in 1..n |-> StaticOdt(d, o)]
  <2>1. odts \in Seq(Odts) /\ Len(odts) = n /\ DOMAIN odts = 1..n
    BY <1>5 DEF OdtSound
  <2>2. \A o \in DOMAIN odts : OdtSound(odts[o])
    BY <1>5
  <2>3. StaticList(d) = [odts |-> odts, odtCount |-> n, maxOdt |-> n, running |-> FALSE]
    BY <1>1, <1>2, SetupType DEF StaticList
  <2>. QED  BY <2>1, <2>2, <2>3 DEF ListSound, DaqLists
<1>7. lists \in Seq(DaqLists) /\ Len(lists) = m /\ DOMAIN lists = 1..m
      /\ \A d \in 1..m : lists[d] = StaticList(d)
  <2>1. lists = [d \in 1..m |-> StaticList(d)]
    BY <1>3 DEF Init
  <2>2. \A d \in 1..m : StaticList(d) \in DaqLists
    BY <1>6 DEF ListSound
  <2>. QED  BY <2>1, <2>2
<1>8. Chains
  BY <1>1, <1>3, <1>6, <1>7, SetupType DEF Chains
<1>9. Pointer
  BY DEF Init, NoPtr, Pointer, Pointers, Places
<1>10. Block
  <2>1. setup.dynamic => m = 0
    BY <1>1, <1>3, SetupType
  <2>. QED  BY <1>1, <1>7, <2>1, EmptySeq DEF Block
<1>11. Numbered
  <2>1. setup.dynamic => m = 0
    BY <1>1, <1>3, SetupType
  <2>. QED  BY <1>2, <1>5, <1>6, <1>7, <2>1 DEF Numbered
<1>. QED  BY <1>1, <1>8, <1>9, <1>10, <1>11 DEF IInv

\* Xcp_CmdClearDaqList
LEMMA ClearStep ==
  ASSUME IInv, NEW d \in Nat, ClearDaqList(d), UNCHANGED setup
  PROVE  IInv'
<1>1. d \in DOMAIN lists /\ ~lists[d].running
  BY MinDaqType DEF ClearDaqList, IInv, Chains
<1>2. PICK l : l = lists[d] /\ ListSound(l) /\ ~l.running
  BY <1>1, OdtAt DEF IInv
<1>3. PICK n \in Nat : n = Len(l.odts) /\ DOMAIN l.odts = 1..n /\ l.odtCount = n
  BY <1>2 DEF ListSound, DaqLists
<1>. DEFINE odts == [o \in 1..n |-> Cleared(l.odts[o])]
<1>4. Walkable(l)
  BY <1>2, <1>3 DEF Walkable, ListSound, OdtSound, Odts
<1>5. lists' = [lists EXCEPT ![d] = [l EXCEPT !.odts = odts]] /\ UNCHANGED <<maxDaq, ptr, block, fault>>
  <2>1. [o \in DOMAIN l.odts |-> IF o <= l.odtCount THEN Cleared(l.odts[o]) ELSE l.odts[o]] = odts
    BY <1>3
  <2>. QED  BY <1>1, <1>2, <1>4, <2>1 DEF ClearDaqList
<1>6. /\ odts \in Seq(Odts) /\ Len(odts) = n /\ DOMAIN odts = 1..n
      /\ \A o \in 1..n : /\ OdtSound(odts[o]) /\ odts[o].pid = l.odts[o].pid
                         /\ Len(odts[o].entries) = Len(l.odts[o].entries)
  <2>1. \A o \in 1..n : OdtSound(l.odts[o])
    BY <1>2, <1>3 DEF ListSound
  <2>2. \A o \in 1..n : /\ OdtSound(Cleared(l.odts[o])) /\ Cleared(l.odts[o]).pid = l.odts[o].pid
                        /\ Len(Cleared(l.odts[o]).entries) = Len(l.odts[o].entries)
    BY <2>1, ClearedSound
  <2>. QED  BY <2>2 DEF OdtSound
<1>. HIDE DEF odts
<1>7. Chains'
  BY <1>1, <1>2, <1>3, <1>5, <1>6, ListEdited, ListReplaced DEF IInv
<1>8. SameShape
  <2>1. l \in DaqLists /\ [l EXCEPT !.odts = odts].odts = odts
    BY <1>2 DEF ListSound, DaqLists
  <2>. QED  BY <1>1, <1>2, <1>3, <1>5, <1>6, <2>1 DEF SameShape, IInv, Chains
<1>9. Block'
  BY <1>1, <1>5 DEF IInv, Block, Chains
<1>. QED  BY <1>5, <1>7, <1>8, <1>9, ShapeKept DEF IInv

MovedTo(p, e, k) == [p EXCEPT !.entry = e, !.left = k]

LEMMA Moved ==
  ASSUME NEW p \in Pointers, NEW e \in Nat, NEW k \in Nat
  PROVE  /\ MovedTo(p, e, k) \in Pointers
         /\ MovedTo(p, e, k).at = p.at /\ MovedTo(p, e, k).daq = p.daq /\ MovedTo(p, e, k).odt = p.odt
         /\ MovedTo(p, e, k).entry = e /\ MovedTo(p, e, k).left = k
BY DEF Pointers, MovedTo

\* The pointer moves on to the next entry, or becomes NULL.
LEMMA AdvanceStep ==
  ASSUME Pointer, ptr.at \in {"live", "leaked"}, Advance, SameShape
  PROVE  Pointer'
<1>1. CASE ptr.left = 0
  BY <1>1 DEF Advance, NoPtr, Pointer, Pointers, Places
<1>2. CASE ptr.left # 0
  <2>1. /\ ptr' \in Pointers /\ ptr'.at = ptr.at /\ ptr'.daq = ptr.daq /\ ptr'.odt = ptr.odt
        /\ ptr'.entry = ptr.entry + 1 /\ ptr'.left = ptr.left - 1
    <3>1. PICK e \in Nat, k \in Nat : e = ptr.entry /\ k = ptr.left
      BY DEF Pointer, Pointers
    <3>2. e + 1 \in Nat /\ k - 1 \in Nat
      BY <1>2, <3>1
    <3>3. ptr \in Pointers /\ ptr' = MovedTo(ptr, e + 1, k - 1)
      BY <1>2, <3>1 DEF MovedTo, Advance, Pointer, Pointers
    <3>4. PICK x \in Nat, y \in Nat : x = e + 1 /\ y = k - 1
      BY <3>2
    <3>5. /\ MovedTo(ptr, x, y) \in Pointers
          /\ MovedTo(ptr, x, y).at = ptr.at /\ MovedTo(ptr, x, y).daq = ptr.daq
          /\ MovedTo(ptr, x, y).odt = ptr.odt
          /\ MovedTo(ptr, x, y).entry = x /\ MovedTo(ptr, x, y).left = y
      BY <3>3, Moved
    <3>6. ptr' = MovedTo(ptr, x, y)
      BY <3>3, <3>4
    <3>. QED  BY <3>1, <3>4, <3>5, <3>6
  <2>2. ASSUME ptr.at = "live"
        PROVE  /\ ptr'.daq \in DOMAIN lists' /\ ptr'.odt \in DOMAIN lists'[ptr'.daq].odts
               /\ ptr'.entry \in 1..Len(lists'[ptr'.daq].odts[ptr'.odt].entries)
               /\ ptr'.left = Len(lists'[ptr'.daq].odts[ptr'.odt].entries) - ptr'.entry
    <3>. PICK n : n = Len(lists[ptr.daq].odts[ptr.odt].entries)
      OBVIOUS
    <3>1. Len(lists'[ptr'.daq].odts[ptr'.odt].entries) = n
      BY <2>1, <2>2 DEF Pointer, SameShape
    <3>2. PICK e \in Nat, k \in Nat : e = ptr.entry /\ k = ptr.left
      BY DEF Pointer, Pointers
    <3>3. e \in 1..n /\ k = n - e /\ k # 0
      BY <1>2, <2>2, <3>2 DEF Pointer
    <3>4. e + 1 \in 1..n /\ k - 1 = n - (e + 1)
      BY <3>3
    <3>. QED  BY <2>1, <2>2, <3>1, <3>2, <3>4 DEF Pointer, SameShape
  <2>. QED  BY <2>1, <2>2 DEF Pointer
<1>. QED  BY <1>1, <1>2

\* Nothing but the pointer changes.
LEMMA ListsKept ==
  ASSUME IInv, Pointer', UNCHANGED <<setup, lists, maxDaq, block, fault>>
  PROVE  IInv'
<1>1. Chains'
  BY DEF IInv, Chains, MinDaq
<1>2. SameShape
  BY DEF SameShape
<1>3. Block'
  BY DEF IInv, Block
<1>. QED  BY <1>1, <1>2, <1>3, ShapeKept DEF IInv

\* Xcp_CmdSetDaqPtr, for numbers within the lists.
LEMMA SetPtrStep ==
  ASSUME IInv, NEW d \in Nat \ {0}, NEW o \in Nat \ {0}, NEW e \in Nat \ {0},
         d <= maxDaq, o <= Len(lists[d].odts), e <= Len(lists[d].odts[o].entries),
         SetDaqPtr(d, o, e), UNCHANGED setup
  PROVE  IInv'
<1>1. d \in DOMAIN lists /\ Len(lists) \in Nat /\ ~(d - 1 > Len(lists))
  BY DEF IInv, Chains
<1>2. /\ o \in DOMAIN lists[d].odts /\ ~(o > Len(lists[d].odts))
      /\ OdtSound(lists[d].odts[o])
  BY <1>1, OdtAt DEF IInv
<1>3. PICK n \in Nat : n = Len(lists[d].odts[o].entries)
  BY <1>2 DEF OdtSound, Odts
<1>4. /\ ptr' = [at |-> "live", daq |-> d, odt |-> o, entry |-> e, left |-> n - e]
      /\ UNCHANGED <<lists, maxDaq, block, fault>>
  BY <1>1, <1>2, <1>3 DEF SetDaqPtr
<1>5. n - e \in Nat /\ e \in 1..n
  BY <1>3
<1>6. Pointer'
  BY <1>1, <1>2, <1>3, <1>4, <1>5 DEF Pointer, Pointers, Places
<1>. QED  BY <1>4, <1>6, ListsKept

\* Xcp_CmdReadDaq, with a pointer that leads somewhere.
LEMMA ReadStep ==
  ASSUME IInv, ptr.at = "live", ReadDaq, UNCHANGED setup
  PROVE  IInv'
<1>1. Advance /\ UNCHANGED <<lists, maxDaq, block, fault>>
  BY DEF ReadDaq
<1>2. SameShape
  BY <1>1 DEF SameShape
<1>3. Pointer'
  BY <1>1, <1>2, AdvanceStep DEF IInv
<1>. QED  BY <1>1, <1>3, ListsKept

\* An ODT of a list is replaced, and nothing else.
Replaces(d, o, odt) == lists' = [lists EXCEPT ![d].odts[o] = odt]

Replaced(d, o, odt) ==
  /\ lists'[d].odts[o] = odt /\ DOMAIN lists' = DOMAIN lists
  /\ \A i \in DOMAIN lists :
       /\ DOMAIN lists'[i].odts = DOMAIN lists[i].odts
       /\ \A j \in DOMAIN lists[i].odts : <<i, j>> # <<d, o>> => lists'[i].odts[j] = lists[i].odts[j]

\* It is replaced by one with the same identification.
LEMMA OdtReplaced ==
  ASSUME IInv, NEW d \in DOMAIN lists, NEW o \in DOMAIN lists[d].odts, NEW odt,
         ~lists[d].running, OdtSound(odt), odt.pid = lists[d].odts[o].pid,
         Replaces(d, o, odt), UNCHANGED <<setup, maxDaq>>
  PROVE  Chains' /\ Numbered' /\ Replaced(d, o, odt)
<1>1. PICK l : l = lists[d] /\ ListSound(l) /\ ~l.running /\ l \in DaqLists
  BY OdtAt DEF IInv, ListSound
<1>2. PICK odts : odts = [l.odts EXCEPT ![o] = odt]
  OBVIOUS
<1>3. /\ odts \in Seq(Odts) /\ Len(odts) = Len(l.odts) /\ DOMAIN odts = DOMAIN l.odts
      /\ odts[o] = odt /\ \A j \in DOMAIN odts : j # o => odts[j] = l.odts[j]
  BY <1>1, <1>2 DEF OdtSound, DaqLists
<1>4. \A j \in DOMAIN odts : OdtSound(odts[j])
  BY <1>1, <1>3 DEF ListSound
<1>5. PICK new : new = [l EXCEPT !.odts = odts]
  OBVIOUS
<1>6. lists' = [lists EXCEPT ![d] = new] /\ new.odts = odts
  BY <1>1, <1>2, <1>5 DEF DaqLists, Replaces
<1>7. ListSound(new)
  BY <1>1, <1>3, <1>4, <1>5, ListEdited
<1>8. Chains'
  BY <1>6, <1>7, ListReplaced DEF IInv
<1>9. DOMAIN lists' = DOMAIN lists /\ lists'[d] = new /\ \A i \in DOMAIN lists : i # d => lists'[i] = lists[i]
  BY <1>6 DEF IInv, Chains
<1>10. \A i \in DOMAIN lists :
         /\ DOMAIN lists'[i].odts = DOMAIN lists[i].odts
         /\ \A j \in DOMAIN lists[i].odts :
              /\ <<i, j>> # <<d, o>> => lists'[i].odts[j] = lists[i].odts[j]
              /\ lists'[i].odts[j].pid = lists[i].odts[j].pid
  <2>. SUFFICES ASSUME NEW i \in DOMAIN lists
                PROVE  /\ DOMAIN lists'[i].odts = DOMAIN lists[i].odts
                       /\ \A j \in DOMAIN lists[i].odts :
                            /\ <<i, j>> # <<d, o>> => lists'[i].odts[j] = lists[i].odts[j]
                            /\ lists'[i].odts[j].pid = lists[i].odts[j].pid
    OBVIOUS
  <2>1. CASE i = d
    BY <1>1, <1>3, <1>6, <1>9, <2>1
  <2>2. CASE i # d
    BY <1>9, <2>2
  <2>. QED  BY <2>1, <2>2
<1>11. Numbered'
  BY <1>9, <1>10 DEF IInv, Numbered, InitPid
<1>. QED  BY <1>3, <1>6, <1>8, <1>9, <1>10, <1>11 DEF Replaced

\* Xcp_CmdWriteDaq, with a pointer that leads somewhere.
LEMMA WriteStep ==
  ASSUME IInv, ptr.at = "live", NEW new \in {"data", "empty"}, WriteDaq(new), UNCHANGED setup
  PROVE  IInv'
<1>. DEFINE d == ptr.daq
            o == ptr.odt
<1>1. /\ ~lists[d].running /\ Advance /\ UNCHANGED <<maxDaq, block, fault>>
      /\ lists' = [lists EXCEPT ![d].odts[o] = WriteEntry(@, new)]
  BY DEF WriteDaq, Writable
<1>2. d \in DOMAIN lists /\ o \in DOMAIN lists[d].odts
      /\ ptr.entry \in 1..Len(lists[d].odts[o].entries)
  BY DEF IInv, Pointer
<1>3. PICK old : old = lists[d].odts[o] /\ OdtSound(old) /\ ptr.entry \in DOMAIN old.entries
  <2>1. OdtSound(lists[d].odts[o])
    BY <1>2, OdtAt DEF IInv
  <2>2. ptr.entry \in DOMAIN lists[d].odts[o].entries
    BY <1>2, <2>1 DEF OdtSound, Odts
  <2>. QED  BY <2>1, <2>2
<1>4. PICK odt : odt = WriteEntry(old, new)
  OBVIOUS
<1>5. OdtSound(odt) /\ odt.pid = old.pid /\ Len(odt.entries) = Len(old.entries)
  BY <1>3, <1>4, WrittenSound
<1>6. Replaces(d, o, odt)
  BY <1>1, <1>3, <1>4 DEF Replaces
<1>. HIDE DEF d, o
<1>7. Chains' /\ Numbered' /\ Replaced(d, o, odt)
  BY <1>1, <1>2, <1>3, <1>5, <1>6, OdtReplaced
<1>8. SameShape
  <2>1. ASSUME NEW i \in DOMAIN lists, NEW j \in DOMAIN lists[i].odts
        PROVE  /\ lists'[i].odts[j].pid = lists[i].odts[j].pid
               /\ Len(lists'[i].odts[j].entries) = Len(lists[i].odts[j].entries)
    <3>1. CASE i = d /\ j = o
      BY <1>3, <1>5, <1>7, <3>1 DEF Replaced
    <3>2. CASE <<i, j>> # <<d, o>>
      BY <1>7, <3>2 DEF Replaced
    <3>. QED  BY <3>1, <3>2
  <2>. QED  BY <1>7, <2>1 DEF SameShape, Replaced
<1>9. Pointer'
  BY <1>1, <1>8, AdvanceStep DEF IInv
<1>10. Block'
  <2>1. lists = <<>> => FALSE
    BY <1>2
  <2>. QED  BY <1>1, <2>1 DEF IInv, Block
<1>. QED  BY <1>1, <1>7, <1>9, <1>10 DEF IInv

\* Xcp_CmdStartStopDaqList, for a list that is filled in, or runs.
LEMMA StartStopStep ==
  ASSUME IInv, NEW d \in Nat \ {0}, NEW start \in BOOLEAN, StartStop(d, start), UNCHANGED setup,
         Written(lists[d])
  PROVE  IInv'
<1>1. d \in DOMAIN lists
  BY DEF IInv, Chains, StartStop
<1>2. PICK l : l = lists[d] /\ ListSound(l) /\ Written(l) /\ l \in DaqLists
  BY <1>1, OdtAt DEF IInv, ListSound
<1>3. PICK new : new = [l EXCEPT !.running = start]
  OBVIOUS
<1>4. lists' = [lists EXCEPT ![d] = new] /\ UNCHANGED <<maxDaq, ptr, block, fault>>
  BY <1>2, <1>3 DEF StartStop, Written
<1>5. /\ new \in DaqLists /\ new.odts = l.odts /\ new.odtCount = l.odtCount
      /\ new.maxOdt = l.maxOdt /\ new.running = start
  BY <1>2, <1>3 DEF DaqLists
<1>6. ListSound(new)
  BY <1>2, <1>5 DEF ListSound, Written
<1>7. Chains'
  BY <1>1, <1>4, <1>6, ListReplaced DEF IInv
<1>8. SameShape
  BY <1>1, <1>2, <1>4, <1>5 DEF SameShape, IInv, Chains
<1>9. Block'
  <2>1. lists = <<>> => FALSE
    BY <1>1
  <2>. QED  BY <1>4, <2>1 DEF IInv, Block
<1>. QED  BY <1>4, <1>7, <1>8, <1>9, ShapeKept DEF IInv

-----------------------------------------------------------------------------
(* Building                                                                *)

\* No list runs, whatever is built.
Stopped == \A d \in DOMAIN lists : ~lists[d].running

\* A pointer that was live is not any more.
LEMMA PointerGone ==
  ASSUME Pointer, ptr' = ptr \/ (\E what \in {"freed", "leaked"} : ptr' = [ptr EXCEPT !.at = what]),
         ptr'.at # "live"
  PROVE  Pointer'
BY DEF Pointer, Pointers, Places

\* A command out of order changes the state of the ALLOC commands only.
LEMMA OutOfOrderStep ==
  ASSUME IInv, UNCHANGED <<setup, lists, maxDaq, ptr, block, fault>>
  PROVE  IInv'
<1>1. Pointer'
  BY DEF IInv, Pointer
<1>. QED  BY <1>1, ListsKept

\* Xcp_CmdFreeDaq
LEMMA FreeStep ==
  ASSUME SoundSetups, IInv, setup.dynamic, FreeDaq, UNCHANGED setup
  PROVE  IInv'
<1>1. MinDaq = 0 /\ MinDaq' = 0
  BY SetupType DEF IInv, MinDaq
<1>2. block # "zero" /\ \A d \in DOMAIN lists : Walkable(lists[d])
  <2>1. ASSUME NEW d \in DOMAIN lists PROVE Walkable(lists[d])
    <3>1. PICK l : l = lists[d] /\ ListSound(l)
      BY OdtAt DEF IInv
    <3>2. PICK n \in Nat : n = Len(l.odts) /\ DOMAIN l.odts = 1..n /\ l.odtCount = n
      BY <3>1 DEF ListSound, DaqLists
    <3>3. Walkable(l)
      BY <3>1, <3>2 DEF Walkable, ListSound, OdtSound, Odts
    <3>. QED  BY <3>1, <3>3
  <2>. QED  BY <2>1 DEF IInv, Block
<1>3. \A d \in DynamicLists : d \in DOMAIN lists
  BY <1>1 DEF DynamicLists, IInv, Chains
<1>4. /\ lists' = Predefined /\ maxDaq' = MinDaq /\ block' = "none" /\ fault' = fault
      /\ ptr' = PtrAfter(ptr.daq > MinDaq, "freed")
  BY <1>2, <1>3 DEF FreeDaq
<1>5. lists' = <<>>
  <2>1. PICK n \in Nat : n = Len(lists)
    BY DEF IInv, Chains
  <2>2. Predefined = SubSeq(lists, 1, 0)
    BY <1>1, <2>1 DEF Predefined, Least
  <2>. QED  BY <1>4, <2>2 DEF IInv, Chains
<1>6. Chains'
  BY <1>1, <1>4, <1>5, EmptySeq DEF Chains
<1>7. ptr'.at # "live"
  <2>1. ptr.at = "live" => ptr.daq > MinDaq
    BY <1>1 DEF IInv, Pointer, Chains
  <2>2. CASE ptr.at = "live"
    BY <1>4, <2>1, <2>2 DEF PtrAfter, IInv, Pointer, Pointers
  <2>3. CASE ptr.at # "live"
    BY <1>4, <2>3 DEF PtrAfter
  <2>. QED  BY <2>2, <2>3
<1>8. Pointer'
  BY <1>4, <1>7, PointerGone DEF PtrAfter, IInv
<1>9. Numbered'
  BY <1>5 DEF Numbered
<1>. QED  BY <1>4, <1>5, <1>6, <1>8, <1>9 DEF IInv, Block

\* Xcp_CmdAllocDaq, of at least one list where there is none.
LEMMA AllocDaqStep ==
  ASSUME SoundSetups, IInv, setup.dynamic, NEW n \in Nat \ {0}, block = "none",
         AllocDaq(n), UNCHANGED setup
  PROVE  IInv'
<1>1. MinDaq = 0 /\ MinDaq' = 0 /\ lists = <<>>
  BY SetupType DEF IInv, MinDaq, Block
<1>2. CASE UNCHANGED <<lists, maxDaq, ptr, block, fault>>
  BY <1>2, OutOfOrderStep
<1>3. CASE /\ lists' = Predefined \o [d \in 1..n |-> NewList]
           /\ maxDaq' = MinDaq + n /\ block' = "lists" /\ fault' = fault
           /\ ptr' = PtrAfter(ptr.daq > MinDaq, "leaked")
  <2>1. NewList \in DaqLists /\ ListSound(NewList)
    BY EmptySeq DEF NewList, DaqLists, ListSound
  <2>2. PICK new \in Seq(DaqLists) : new = [d \in 1..n |-> NewList]
    <3>1. [d \in 1..n |-> NewList] \in Seq(DaqLists)
      BY <2>1
    <3>. QED  BY <3>1
  <2>3. Len(new) = n /\ DOMAIN new = 1..n /\ \A d \in 1..n : new[d] = NewList
    BY <2>2
  <2>4. Predefined = <<>>
    BY <1>1 DEF Predefined, Least
  <2>5. lists' = new
    BY <1>3, <2>2, <2>4
  <2>6. Chains'
    <3>0. maxDaq' = n
      BY <1>1, <1>3
    <3>1. Len(lists') = maxDaq' /\ MinDaq' <= maxDaq' /\ lists' \in Seq(DaqLists)
      BY <1>1, <2>3, <2>5, <3>0
    <3>2. \A d \in DOMAIN lists' : ListSound(lists'[d])
      BY <2>1, <2>3, <2>5
    <3>. QED  BY <3>1, <3>2 DEF Chains
  <2>7. ptr.at # "live" /\ ptr' = ptr
    BY <1>1, <1>3 DEF IInv, Pointer, PtrAfter
  <2>8. Pointer'
    BY <2>7 DEF IInv, Pointer
  <2>9. Numbered'
    BY <2>3, <2>5 DEF Numbered, NewList
  <2>. QED  BY <1>3, <2>6, <2>8, <2>9 DEF IInv, Block
<1>. QED  BY <1>1, <1>2, <1>3 DEF AllocDaq, OutOfOrder

LEMMA RoomForAll ==
  ASSUME Room, NEW n \in Nat \ {0}, n <= MaxOdts \/ n <= MaxEntries
  PROVE  Least(AtLeast1(n), HeapSize - used) = n /\ AtLeast1(n) = n
<1>1. /\ MaxOdts \in Nat /\ MaxEntries \in Nat /\ HeapSize \in Nat
  BY ConfigAssumption
<1>2. AtLeast1(n) = n /\ n <= HeapSize - used
  BY <1>1 DEF Room, AtLeast1
<1>. QED  BY <1>2 DEF Least

\* Xcp_CmdAllocOdt, of at least one ODT for a list without any.
LEMMA AllocOdtStep ==
  ASSUME SoundSetups, IInv, Room, Stopped, setup.dynamic, NEW d \in Nat \ {0},
         NEW n \in Nat \ {0}, n <= MaxOdts,
         d <= maxDaq, lists[d].odts = <<>>, AllocOdt(d, n), UNCHANGED setup
  PROVE  IInv'
<1>1. CASE UNCHANGED <<lists, maxDaq, ptr, block, fault>>
  BY <1>1, OutOfOrderStep
<1>. DEFINE odts == [i \in 1..n |-> NewOdt(i)]
<1>2. CASE /\ lists' = [lists EXCEPT ![d].odts = odts, ![d].odtCount = n, ![d].maxOdt = n]
           /\ ptr' = PtrAfter(ptr.daq = d, "leaked")
           /\ UNCHANGED <<maxDaq, block, fault>>
  <2>1. d \in DOMAIN lists
    BY DEF IInv, Chains
  <2>2. PICK l : l = lists[d] /\ ListSound(l) /\ l \in DaqLists /\ ~l.running
    BY <2>1, OdtAt DEF IInv, ListSound, Stopped
  <2>3. \A i \in 1..n : OdtSound(NewOdt(i)) /\ NewOdt(i).pid = i - 1
    BY NewOdtSound
  <2>4. PICK chain \in Seq(Odts) : chain = odts
    <3>1. \A i \in 1..n : NewOdt(i) \in Odts
      BY <2>3 DEF OdtSound
    <3>2. odts \in Seq(Odts)
      BY <3>1
    <3>. QED  BY <3>2
  <2>5. Len(chain) = n /\ DOMAIN chain = 1..n /\ \A i \in 1..n : chain[i] = NewOdt(i)
    BY <2>4
  <2>6. PICK one, two, new : /\ one = [l EXCEPT !.odts = chain] /\ two = [one EXCEPT !.odtCount = n]
                             /\ new = [two EXCEPT !.maxOdt = n]
    OBVIOUS
  <2>. /\ new \in DaqLists /\ new.odts = chain /\ new.odtCount = n /\ new.maxOdt = n
       /\ new.running = l.running
    <3>1. one \in DaqLists /\ one.odts = chain /\ one.running = l.running
      BY <2>2, <2>6 DEF DaqLists
    <3>2. two \in DaqLists /\ two.odts = chain /\ two.odtCount = n /\ two.running = l.running
      BY <2>6, <3>1 DEF DaqLists
    <3>. QED  BY <2>6, <3>2 DEF DaqLists
  <2>7. lists' = [lists EXCEPT ![d] = new]
    <3>4. PICK a : a = [lists EXCEPT ![d] = one]
      OBVIOUS
    <3>5. PICK b : b = [a EXCEPT ![d].odtCount = n]
      OBVIOUS
    <3>6. lists' = [b EXCEPT ![d].maxOdt = n]
      BY <1>2, <2>2, <2>4, <2>6, <3>4, <3>5
    <3>7. b = [lists EXCEPT ![d] = two]
      BY <2>1, <2>6, <3>4, <3>5
    <3>. QED  BY <2>1, <2>6, <3>6, <3>7
  <2>8. ListSound(new)
    BY <2>2, <2>3, <2>5 DEF ListSound
  <2>9. Chains'
    BY <1>2, <2>1, <2>7, <2>8, ListReplaced DEF IInv
  <2>10. DOMAIN lists' = DOMAIN lists /\ lists'[d] = new /\ \A i \in DOMAIN lists : i # d => lists'[i] = lists[i]
    BY <2>7, <2>1 DEF IInv, Chains
  <2>11. ptr.at = "live" => ptr.daq # d
    BY EmptySeq DEF IInv, Pointer
  <2>12. ptr' = ptr
    BY <1>2, <2>11 DEF PtrAfter
  <2>13. Pointer'
    BY <2>10, <2>11, <2>12 DEF IInv, Pointer
  <2>14. Numbered'
    <3>1. \A i \in 1..n : lists'[d].odts[i].pid = i - 1
      BY <2>3, <2>5, <2>10
    <3>2. DOMAIN lists'[d].odts = 1..n /\ setup'.dynamic
      BY <2>5, <2>10
    <3>3. ASSUME NEW i \in DOMAIN lists', NEW o \in DOMAIN lists'[i].odts
          PROVE  lists'[i].odts[o].pid = o - 1
      <4>1. CASE i = d
        BY <3>1, <3>2, <3>3, <4>1
      <4>2. CASE i # d
        BY <2>10, <3>3, <4>2 DEF IInv, Numbered
      <4>. QED  BY <4>1, <4>2
    <3>. QED  BY <3>2, <3>3 DEF Numbered
  <2>15. Block'
    <3>1. lists = <<>> => FALSE
      BY <2>1
    <3>. QED  BY <1>2, <3>1 DEF IInv, Block
  <2>. QED  BY <1>2, <2>9, <2>13, <2>14, <2>15 DEF IInv
<1>3. Least(AtLeast1(n), HeapSize - used) = n /\ AtLeast1(n) = n
  BY RoomForAll
<1>. QED  BY <1>1, <1>2, <1>3 DEF AllocOdt, OutOfOrder, OdtCount

\* Xcp_CmdAllocOdtEntry, of at least one entry for an ODT without any.
LEMMA AllocOdtEntryStep ==
  ASSUME SoundSetups, IInv, Room, Stopped, setup.dynamic, NEW d \in Nat \ {0}, NEW o \in Nat \ {0},
         NEW n \in Nat \ {0}, n <= MaxEntries,
         d <= maxDaq, o <= Len(lists[d].odts), lists[d].odts[o].entries = <<>>,
         AllocOdtEntry(d, o, n), UNCHANGED setup
  PROVE  IInv'
<1>1. CASE UNCHANGED <<lists, maxDaq, ptr, block, fault>>
  BY <1>1, OutOfOrderStep
<1>2. ASSUME NEW content \in {"empty", "garbage"},
             lists' = [lists EXCEPT ![d].odts[o] = Rebuild(@, n, [i \in 1..n |-> content], n)],
             ptr' = PtrAfter(ptr.daq = d /\ ptr.odt = o /\ n > 0, "leaked"),
             UNCHANGED <<maxDaq, block, fault>>
      PROVE  IInv'
  <2>1. d \in DOMAIN lists /\ o \in DOMAIN lists[d].odts
    <3>1. d \in DOMAIN lists
      BY DEF IInv, Chains
    <3>. QED  BY <3>1, OdtAt DEF IInv
  <2>2. PICK old : old = lists[d].odts[o] /\ OdtSound(old) /\ old \in Odts
    BY <2>1, OdtAt DEF IInv, OdtSound
  <2>3. PICK odt : odt = Alike(old.pid, n, content, n)
    OBVIOUS
  <2>4. OdtSound(odt) /\ odt.pid = old.pid
    <3>1. old.pid \in Nat
      BY <2>2 DEF Odts
    <3>2. OdtSound(Alike(old.pid, n, content, n))
      BY <3>1, BuiltSound DEF Contents
    <3>. QED  BY <2>3, <3>2 DEF Alike
  <2>5. Rebuild(old, n, [i \in 1..n |-> content], n) = odt
    BY <2>2, <2>3, Rebuilt DEF Alike
  <2>6. Replaces(d, o, odt)
    BY <1>2, <2>2, <2>5 DEF Replaces
  <2>7. Chains' /\ Numbered' /\ Replaced(d, o, odt)
    <3>1. odt.pid = lists[d].odts[o].pid /\ UNCHANGED <<setup, maxDaq>> /\ ~lists[d].running
      BY <1>2, <2>1, <2>2, <2>4 DEF Stopped
    <3>. QED  BY <2>1, <2>4, <2>6, <3>1, OdtReplaced
  <2>8. ptr.at = "live" => <<ptr.daq, ptr.odt>> # <<d, o>>
    BY EmptySeq DEF IInv, Pointer
  <2>9. ptr' = ptr
    BY <1>2, <2>8 DEF PtrAfter
  <2>10. Pointer'
    BY <2>7, <2>8, <2>9 DEF IInv, Pointer, Replaced
  <2>11. Block'
    <3>1. lists = <<>> => FALSE
      BY <2>1
    <3>. QED  BY <1>2, <3>1 DEF IInv, Block
  <2>. QED  BY <1>2, <2>7, <2>10, <2>11 DEF IInv
<1>3. Least(AtLeast1(n), HeapSize - used) = n /\ AtLeast1(n) = n /\ n > 0
  BY RoomForAll
<1>4. ~(o > Len(lists[d].odts))
  <2>1. d \in DOMAIN lists
    BY DEF IInv, Chains
  <2>2. Len(lists[d].odts) \in Nat
    BY <2>1, OdtAt DEF IInv
  <2>. QED  BY <2>2
<1>. QED  BY <1>1, <1>2, <1>3, <1>4 DEF AllocOdtEntry, OutOfOrder, Entries, ValidNew, Rebuild

-----------------------------------------------------------------------------
(* All steps                                                               *)

LEMMA FillStep ==
  ASSUME Habits = AllHabits, IInv, Fill, UNCHANGED setup
  PROVE  IInv'
<1>1. \A care \in BOOLEAN : Takes("RANGES", care) \/ Takes("POINTER", care) => care
  BY DEF Takes, AllHabits
<1>2. ASSUME NEW d \in 1..MaxDaqs + 2, NEW o \in 1..MaxOdts, NEW e \in 1..MaxEntries + 2,
             Takes("RANGES", /\ d <= maxDaq /\ o <= Len(lists[d].odts)
                             /\ e <= Len(lists[d].odts[o].entries)),
             SetDaqPtr(d, o, e)
      PROVE  IInv'
  <2>1. d <= maxDaq /\ o <= Len(lists[d].odts) /\ e <= Len(lists[d].odts[o].entries)
    BY <1>2 DEF Takes, AllHabits
  <2>2. d \in Nat \ {0} /\ o \in Nat \ {0} /\ e \in Nat \ {0}
    OBVIOUS
  <2>. QED  BY <1>2, <2>1, <2>2, SetPtrStep
<1>3. Takes("POINTER", ptr.at = "live") => ptr.at = "live"
  BY DEF Takes, AllHabits
<1>4. ASSUME NEW new \in {"data", "empty"}, Takes("POINTER", ptr.at = "live"), WriteDaq(new)
      PROVE  IInv'
  BY <1>3, <1>4, WriteStep
<1>5. ASSUME Takes("POINTER", ptr.at = "live"), ReadDaq PROVE IInv'
  BY <1>3, <1>5, ReadStep
<1>6. ASSUME NEW d \in 1..MaxDaqs, ClearDaqList(d) PROVE IInv'
  <2>. d \in Nat
    OBVIOUS
  <2>. QED  BY <1>6, ClearStep
<1>. QED  BY <1>2, <1>4, <1>5, <1>6 DEF Fill

LEMMA RunStep ==
  ASSUME Habits = AllHabits, IInv, Run, UNCHANGED setup
  PROVE  IInv'
<1>. PICK d \in 1..MaxDaqs, start \in BOOLEAN :
       /\ Takes("FILLED", d <= maxDaq /\ (IF start THEN Written(lists[d]) ELSE lists[d].running))
       /\ StartStop(d, start)
  BY DEF Run
<1>1. d <= maxDaq /\ (IF start THEN Written(lists[d]) ELSE lists[d].running)
  BY DEF Takes, AllHabits
<1>2. d \in DOMAIN lists /\ d \in Nat \ {0}
  BY <1>1 DEF IInv, Chains
<1>3. Written(lists[d])
  <2>1. ListSound(lists[d])
    BY <1>2, OdtAt DEF IInv
  <2>. QED  BY <1>1, <2>1 DEF ListSound
<1>. QED  BY <1>2, <1>3, StartStopStep

LEMMA BuildStep ==
  ASSUME SoundSetups, Habits = AllHabits, IInv, Room, setup.dynamic, Build, UNCHANGED setup
  PROVE  IInv'
<1>1. Building => Stopped
  <2>1. MinDaq = 0
    BY SetupType DEF IInv
  <2>. QED  BY <2>1 DEF Building, Takes, AllHabits, Stopped, IInv, Chains
<1>2. ASSUME Building, FreeDaq PROVE IInv'
  BY <1>2, FreeStep
<1>3. ASSUME NEW n \in 0..MaxDaqs, Building, Takes("ONCE", n > 0 /\ block = "none"), AllocDaq(n)
      PROVE  IInv'
  <2>1. n > 0 /\ block = "none"
    BY <1>3 DEF Takes, AllHabits
  <2>2. n \in Nat \ {0}
    BY <2>1
  <2>. QED  BY <1>3, <2>1, <2>2, AllocDaqStep
<1>4. ASSUME NEW d \in 1..MaxDaqs, NEW n \in 0..MaxOdts, Building,
             Takes("ONCE", n > 0 /\ d <= maxDaq /\ lists[d].odts = <<>>), AllocOdt(d, n)
      PROVE  IInv'
  <2>1. n > 0 /\ d <= maxDaq /\ lists[d].odts = <<>>
    BY <1>4 DEF Takes, AllHabits
  <2>2. n \in Nat \ {0} /\ n <= MaxOdts /\ d \in Nat \ {0}
    BY <2>1
  <2>. QED  BY <1>1, <1>4, <2>1, <2>2, AllocOdtStep
<1>5. ASSUME NEW d \in 1..MaxDaqs, NEW o \in 1..MaxOdts, NEW n \in 0..MaxEntries, Building,
             Takes("ONCE", /\ n > 0 /\ d <= maxDaq /\ o <= Len(lists[d].odts)
                           /\ lists[d].odts[o].entries = <<>>),
             AllocOdtEntry(d, o, n)
      PROVE  IInv'
  <2>1. n > 0 /\ d <= maxDaq /\ o <= Len(lists[d].odts) /\ lists[d].odts[o].entries = <<>>
    BY <1>5 DEF Takes, AllHabits
  <2>2. n \in Nat \ {0} /\ n <= MaxEntries /\ d \in Nat \ {0} /\ o \in Nat \ {0}
    BY <2>1
  <2>. QED  BY <1>1, <1>5, <2>1, <2>2, AllocOdtEntryStep
<1>. QED  BY <1>2, <1>3, <1>4, <1>5 DEF Build

LEMMA NextInv ==
  ASSUME SoundSetups, Habits = AllHabits
  PROVE  IInv /\ Room /\ [Next]_vars => IInv'
<1>. SUFFICES ASSUME IInv, Room, [Next]_vars PROVE IInv'
  OBVIOUS
<1>1. CASE UNCHANGED vars
  BY <1>1, OutOfOrderStep DEF vars
<1>2. CASE Next
  <2>1. CASE Fill
    BY <1>2, <2>1, FillStep DEF Next
  <2>2. CASE Run
    BY <1>2, <2>2, RunStep DEF Next
  <2>3. CASE setup.dynamic /\ Build
    BY <1>2, <2>3, BuildStep DEF Next
  <2>. QED  BY <1>2, <2>1, <2>2, <2>3 DEF Next
<1>. QED  BY <1>1, <1>2

LEMMA Inductive ==
  ASSUME SoundSetups, Habits = AllHabits
  PROVE  Spec /\ []Room => []IInv
<1>1. Init => IInv
  BY InitInv
<1>2. IInv /\ Room /\ [Next]_vars => IInv'
  BY NextInv
<1>. QED  BY <1>1, <1>2, PTL DEF Spec

-----------------------------------------------------------------------------
(* Theorems                                                                *)

\* For a master with all habits, and as long as there is room on the heap, no
\* command follows a pointer or a chain to where nothing is, whatever is
\* built, filled in, run and freed in between.
THEOREM AccessesGood ==
  ASSUME SoundSetups, Habits = AllHabits
  PROVE  Spec /\ []Room => []NoBadAccess
<1>1. IInv => NoBadAccess
  BY DEF IInv, NoBadAccess
<1>. QED  BY <1>1, Inductive, PTL

\* Under the same conditions the counters say how long the chains are.
THEOREM CountersMatch ==
  ASSUME SoundSetups, Habits = AllHabits
  PROVE  Spec /\ []Room => []CountsMatch
<1>1. IInv => CountsMatch
  BY DEF IInv, Chains, ListSound, OdtSound, CountsMatch
<1>. QED  BY <1>1, Inductive, PTL

\* A list that is filled in is sent with all of its ODTs.
LEMMA SentWhole ==
  ASSUME NEW l, ListSound(l), Written(l)
  PROVE  \A o \in DOMAIN l.odts :
           /\ o \in Sends(l)
           /\ \A e \in DOMAIN l.odts[o].entries : l.odts[o].entries[e] = "data"
<1>1. PICK n \in Nat : n = Len(l.odts) /\ DOMAIN l.odts = 1..n /\ l.odtCount = n
  BY DEF ListSound, DaqLists
<1>2. ASSUME NEW k \in 1..n PROVE l.odts[k].valid # 0
  <2>1. PICK odt : odt = l.odts[k] /\ OdtSound(odt) /\ odt.entries \in Seq(Contents) /\ odt.entries # <<>>
                   /\ \A e \in DOMAIN odt.entries : odt.entries[e] = "data"
    BY <1>1 DEF ListSound, OdtSound, Odts, Written
  <2>2. 1 \in DOMAIN odt.entries
    BY <2>1
  <2>3. NonEmpty(odt.entries) # {}
    BY <2>1, <2>2 DEF NonEmpty
  <2>4. Cardinality(NonEmpty(odt.entries)) \in Nat /\ Cardinality(NonEmpty(odt.entries)) # 0
    BY <2>1, <2>3, NonEmptyFinite, FS_EmptySet
  <2>. QED  BY <2>1, <2>4 DEF OdtSound, Odts
<1>3. Least(l.odtCount, Len(l.odts)) = n
  BY <1>1 DEF Least
<1>4. \A o \in 1..n : o \in Sends(l)
  BY <1>2, <1>3 DEF Sends
<1>. QED  BY <1>1, <1>4 DEF Written

\* Under the same conditions each ODT of a list that runs is sent, whatever was
\* written, cleared and written again before the list was started.
THEOREM ListsSampled ==
  ASSUME SoundSetups, Habits = AllHabits
  PROVE  Spec /\ []Room => []AllSampled
<1>1. IInv => AllSampled
  <2>. SUFFICES ASSUME IInv, NEW d \in DOMAIN lists, lists[d].running, NEW o \in DOMAIN lists[d].odts
                PROVE  /\ o \in Sends(lists[d])
                       /\ \A e \in DOMAIN lists[d].odts[o].entries : lists[d].odts[o].entries[e] # "garbage"
    BY DEF AllSampled
  <2>1. ListSound(lists[d]) /\ Written(lists[d])
    BY OdtAt DEF IInv, ListSound
  <2>. QED  BY <2>1, SentWhole
<1>. QED  BY <1>1, Inductive, PTL

LEMMA PlacesApart ==
  ASSUME NEW n \in Nat \ {0}, NEW d \in Nat \ {0}, NEW e \in Nat \ {0}, NEW o \in 1..n, NEW p \in 1..n,
         (d - 1) * n + o - 1 = (e - 1) * n + p - 1
  PROVE  d = e /\ o = p
<1>1. PICK x \in Nat, y \in Nat : x = (d - 1) * n /\ y = (e - 1) * n
  OBVIOUS
<1>2. ASSUME d < e PROVE FALSE
  <2>1. PICK k \in Nat : e = d + 1 + k
    <3>1. e - d - 1 \in Nat /\ e = d + 1 + (e - d - 1)
      BY <1>2
    <3>. QED  BY <3>1
  <2>2. PICK z \in Nat : z = k * n
    OBVIOUS
  <2>3. y = x + n + z
    BY <1>1, <2>1, <2>2
  <2>. QED  BY <1>1, <2>3
<1>3. ASSUME e < d PROVE FALSE
  <2>1. PICK k \in Nat : d = e + 1 + k
    <3>1. d - e - 1 \in Nat /\ d = e + 1 + (d - e - 1)
      BY <1>3
    <3>. QED  BY <3>1
  <2>2. PICK z \in Nat : z = k * n
    OBVIOUS
  <2>3. x = y + n + z
    BY <1>1, <2>1, <2>2
  <2>. QED  BY <1>1, <2>3
<1>4. d = e
  BY <1>2, <1>3
<1>. QED  BY <1>1, <1>4

\* Under the same conditions, and with static lists identified absolutely and
\* dynamic lists relatively, no two ODTs share an identification.
THEOREM IdentifiedApart ==
  ASSUME SoundSetups, Habits = AllHabits, \A s \in Setups : s.absolute <=> ~s.dynamic
  PROVE  Spec /\ []Room => []OdtsIdentified
<1>1. IInv => OdtsIdentified
  <2>. SUFFICES ASSUME IInv, NEW d \in DOMAIN lists, NEW e \in DOMAIN lists,
                       NEW o \in DOMAIN lists[d].odts, NEW p \in DOMAIN lists[e].odts,
                       setup.absolute \/ d = e, lists[d].odts[o].pid = lists[e].odts[p].pid
                PROVE  d = e /\ o = p
    BY DEF OdtsIdentified
  <2>1. d \in Nat \ {0} /\ e \in Nat \ {0}
    BY DEF IInv, Chains
  <2>2. o \in Nat \ {0} /\ p \in Nat \ {0}
    BY OdtAt DEF IInv
  <2>3. setup.absolute <=> ~setup.dynamic
    BY DEF IInv
  <2>4. PICK n \in Nat \ {0} : n = setup.odts
    BY SetupType DEF IInv
  <2>5. CASE setup.dynamic
    BY <2>2, <2>3, <2>5 DEF IInv, Numbered
  <2>6. CASE ~setup.dynamic
    <3>1. /\ o <= n /\ lists[d].odts[o].pid = (d - 1) * n + o - 1
          /\ p <= n /\ lists[e].odts[p].pid = (e - 1) * n + p - 1
      BY <2>3, <2>4, <2>6 DEF IInv, Numbered, InitPid
    <3>2. o \in 1..n /\ p \in 1..n
      BY <2>2, <3>1
    <3>3. (d - 1) * n + o - 1 = (e - 1) * n + p - 1
      BY <3>1
    <3>. QED  BY <2>1, <2>4, <3>2, <3>3, PlacesApart
  <2>. QED  BY <2>5, <2>6
<1>. QED  BY <1>1, Inductive, PTL
=============================================================================
