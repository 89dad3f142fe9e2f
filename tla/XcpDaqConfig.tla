----------------------------- MODULE XcpDaqConfig -----------------------------
(***************************************************************************)
(* Configuration of DAQ lists (Xcp.c): the lists, their ODTs and the       *)
(* entries of those hang in linked chains with counters next to them.      *)
(* FREE_DAQ and the ALLOC commands build them at run time, SET_DAQ_PTR,    *)
(* WRITE_DAQ, READ_DAQ and CLEAR_DAQ_LIST fill them in through a pointer   *)
(* kept between commands (Xcp_DaqState), and Xcp_ProcessDaq walks them.    *)
(*                                                                         *)
(* A chain is a sequence; a walk past its end, through a freed pointer or  *)
(* outside a block sets fault, after which nothing can be said.  An entry  *)
(* is "empty" (length 0), "data" or the "garbage" malloc returned.  A      *)
(* command that is refused and changes nothing is a stuttering step.       *)
(***************************************************************************)
EXTENDS Integers, Sequences, FiniteSets, SequencesExt

CONSTANTS Setups,    \* the configurations the slave may have been built with, see below
          MaxDaqs, MaxOdts, MaxEntries,  \* bounds: what the master asks for
          HeapSize,  \* how many objects malloc and calloc have room for
          Habits     \* what the master takes care of, see below

\* dynamic   XCP_FEATURE_DAQSTIM_DYNAMIC
\* absolute  XCP_IDENTIFICATION is XCP_IDENTIFICATION_ABSOLUTE
\* minDaq    XcpMinDaq, the number of predefined lists
\* daqs      lists of the configuration, each with
\* odts      ODTs (XcpMaxOdt), of which
\* odtCount  the configuration says that they are there (XcpOdtCount)
IsSetup(s) ==
  /\ {s.dynamic, s.absolute} \subseteq BOOLEAN
  /\ s.minDaq \in Nat /\ s.daqs \in Nat /\ s.minDaq <= s.daqs
  /\ s.dynamic => s.daqs = s.minDaq
  /\ s.odts \in Nat \ {0} /\ s.odtCount \in {0, s.odts}

\* RANGES     no list, ODT or entry number beyond the last one
\* POINTER    no WRITE_DAQ without a SET_DAQ_PTR that still holds
\* ONCE       at least one object in each ALLOC, and no ALLOC repeated
\* STOPPED    lists are stopped before they are freed or built up
\* FILLED     a list is started when all of its ODTs have been written
AllHabits == {"RANGES", "POINTER", "ONCE", "STOPPED", "FILLED"}
Takes(habit, care) == habit \in Habits => care

ASSUME ConfigAssumption ==
  /\ \A s \in Setups : IsSetup(s)
  /\ {MaxDaqs, MaxOdts, MaxEntries} \subseteq Nat \ {0}
  /\ HeapSize \in Nat /\ Habits \subseteq AllHabits

VARIABLES
  setup,   \* the configuration, chosen once
  lists,   \* the chain from Xcp_Config.XcpDaqList
  maxDaq,  \* Xcp_Config.XcpMaxDaq
  dyn,     \* Xcp_DaqState.dyn
  ptr,     \* Xcp_DaqState.daq, .odt and .ptr: where, and entries behind it
  block,   \* the block ALLOC_DAQ linked in: none, of no size, or lists
  used,    \* objects on the heap
  fault    \* "none", or the first bad access: null, freed or outside

vars == <<setup, lists, maxDaq, dyn, ptr, block, used, fault>>

MinDaq == setup.minDaq

Least(i, j) == IF i <= j THEN i ELSE j
AtLeast1(n) == IF n = 0 THEN 1 ELSE n
NoPtr == [at |-> "null", daq |-> 0, odt |-> 0, entry |-> 0, left |-> 0]

\* Fault: pid is reset for each list.
InitPidPerList(d, o) == o - 1

\* Xcp_Init: pid is reset for each ODT, unless identification is absolute.
InitPid(d, o) == IF setup.absolute THEN (d - 1) * setup.odts + o - 1 ELSE 0

\* Predefined lists come filled in, the others empty.
StaticOdt(d, o) ==
  LET entry == IF d <= MinDaq THEN "data" ELSE "empty"
  IN [pid |-> InitPid(d, o), count |-> MaxEntries, entries |-> [e \in 1..MaxEntries |-> entry],
      valid |-> IF d <= MinDaq THEN MaxEntries ELSE 0]

StaticList(d) == [odts |-> [o \in 1..setup.odts |-> StaticOdt(d, o)],
                  odtCount |-> IF d <= MinDaq THEN setup.odts ELSE setup.odtCount,
                  maxOdt |-> setup.odts, running |-> FALSE]

Init == /\ setup \in Setups
        /\ lists = [d \in 1..setup.daqs |-> StaticList(d)]
        /\ maxDaq = setup.daqs
        /\ dyn = "UNDEFINED" /\ ptr = NoPtr
        /\ block = "none" /\ used = 0 /\ fault = "none"

\* A walk that stays on the chains of a list: as many objects as are counted.
Walkable(l) == /\ l.odtCount <= Len(l.odts)
               /\ \A o \in 1..l.odtCount : l.odts[o].count <= Len(l.odts[o].entries)

Faults(kind) == fault' = kind /\ UNCHANGED <<lists, maxDaq, dyn, ptr, block, used>>
Sane == fault = "none" /\ UNCHANGED fault

-----------------------------------------------------------------------------
(* Filling in: CLEAR_DAQ_LIST, SET_DAQ_PTR, WRITE_DAQ, READ_DAQ            *)

\* Fault: the entries keep their length.
ClearedKeepsEntries(odt) == [odt EXCEPT !.valid = 0]

Cleared(odt) == [odt EXCEPT !.valid = 0,
                            !.entries = [e \in DOMAIN @ |-> IF e <= odt.count THEN "empty" ELSE @[e]]]

\* Xcp_CmdClearDaqList
ClearDaqList(d) ==
  /\ d \in MinDaq + 1..maxDaq /\ d <= Len(lists) /\ ~lists[d].running
  /\ IF Walkable(lists[d])
     THEN /\ lists' = [lists EXCEPT ![d].odts =
                         [o \in DOMAIN @ |-> IF o <= lists[d].odtCount THEN Cleared(@[o]) ELSE @[o]]]
          /\ UNCHANGED <<maxDaq, dyn, ptr, block, used, fault>>
     ELSE Faults("null")

\* Xcp_CmdSetDaqPtr: both walks come before the check of the number.
SetDaqPtr(d, o, e) ==
  IF d - 1 > Len(lists) THEN Faults("null")
  ELSE /\ d <= maxDaq /\ ~lists[d].running /\ o <= lists[d].maxOdt
       /\ LET odts == lists[d].odts
          IN IF o > Len(odts) THEN Faults("null")
             ELSE IF e - 1 > Len(odts[o].entries) THEN Faults("null")
             ELSE /\ e <= odts[o].count
                  /\ ptr' = [at |-> IF e <= Len(odts[o].entries) THEN "live" ELSE "end",
                             daq |-> d, odt |-> o, entry |-> e,
                             left |-> Len(odts[o].entries) - e]
                  /\ UNCHANGED <<lists, maxDaq, dyn, block, used, fault>>

\* The next entry of the ODT; behind the last one all three are NULL.
Advance == ptr' = IF ptr.left = 0 THEN NoPtr ELSE [ptr EXCEPT !.entry = @ + 1, !.left = @ - 1]

\* One more or one less entry that is not empty.
Valid(odt, new) ==
  LET old == odt.entries[ptr.entry]
  IN odt.valid + (IF new = "data" /\ old = "empty" THEN 1
                  ELSE IF new = "empty" /\ old # "empty" THEN -1 ELSE 0)

WriteEntry(odt, new) == [odt EXCEPT !.valid = Valid(odt, new), !.entries[ptr.entry] = new]

Writable(d) == d > MinDaq /\ ~lists[d].running

\* Xcp_CmdWriteDaq: the number of the list is read first, through
\* Xcp_DaqState.daq. An object that is replaced but not freed can be written.
WriteDaq(new) ==
  \/ ptr.at \in {"null", "freed"} /\ Faults(ptr.at)
  \/ /\ ptr.at = "live" /\ Writable(ptr.daq)
     /\ lists' = [lists EXCEPT ![ptr.daq].odts[ptr.odt] = WriteEntry(@, new)]
     /\ Advance
     /\ UNCHANGED <<maxDaq, dyn, block, used, fault>>
  \/ /\ ptr.at = "leaked"
     /\ Advance
     /\ UNCHANGED <<lists, maxDaq, dyn, block, used, fault>>

\* Xcp_CmdReadDaq
ReadDaq ==
  \/ ptr.at = "freed" /\ Faults("freed")
  \/ /\ ptr.at \in {"live", "leaked"}
     /\ Advance
     /\ UNCHANGED <<lists, maxDaq, dyn, block, used, fault>>

\* Xcp_CmdStartStopDaqList: the answer reads the first ODT of the list.
StartStop(d, start) ==
  /\ d <= maxDaq /\ d <= Len(lists)
  /\ IF lists[d].odts = <<>> THEN Faults("null")
     ELSE /\ lists' = [lists EXCEPT ![d].running = start]
          /\ UNCHANGED <<maxDaq, dyn, ptr, block, used, fault>>

-----------------------------------------------------------------------------
(* Building: FREE_DAQ, ALLOC_DAQ, ALLOC_ODT, ALLOC_ODT_ENTRY               *)

DynamicLists == {d \in MinDaq + 1..Len(lists) : setup.dynamic}
Predefined == SubSeq(lists, 1, Least(MinDaq, Len(lists)))

\* What becomes of the pointer when the objects it may point to go.
PtrAfter(gone, what) == IF ptr.at = "live" /\ gone THEN [ptr EXCEPT !.at = what] ELSE ptr

SumOf(f, set) == FoldFunctionOnSet(+, 0, f, set)

\* Fault: the entries stay on the heap.
CountedOdts(l) == l.odtCount

Counted(l) == l.odtCount + SumOf([o \in 1..l.odtCount |-> l.odts[o].count], 1..l.odtCount)

BlockFreed == IF block = "none" THEN 0 ELSE 1

\* Xcp_CmdFreeDaq: as many ODTs and entries are freed as are counted, then
\* the block the lists are in.
FreeDaq ==
  IF block = "zero" THEN Faults("outside")
  ELSE IF \E d \in DynamicLists : ~Walkable(lists[d]) THEN Faults("null")
  ELSE /\ lists' = Predefined
       /\ maxDaq' = MinDaq
       /\ dyn' = "FREE_DAQ"
       /\ ptr' = PtrAfter(ptr.daq > MinDaq, "freed")
       /\ block' = "none"
       /\ used' = used - BlockFreed - SumOf([d \in DynamicLists |-> Counted(lists[d])], DynamicLists)
       /\ UNCHANGED fault

\* The order of the ALLOC commands is enforced; another one starts over.
InOrder(states) == dyn \in states
OutOfOrder(states) == /\ dyn \notin states
                      /\ dyn' = "UNDEFINED"
                      /\ UNCHANGED <<lists, maxDaq, ptr, block, used, fault>>

NewList == [odts |-> <<>>, odtCount |-> 0, maxOdt |-> 0, running |-> FALSE]

\* Xcp_CmdAllocDaq: the last predefined list is reached as the element before
\* the block. A block of no size is linked in too.
AllocDaq(n) ==
  \/ OutOfOrder({"FREE_DAQ", "ALLOC_DAQ"})
  \/ /\ InOrder({"FREE_DAQ", "ALLOC_DAQ"}) /\ used < HeapSize
     /\ IF n > 0 /\ MinDaq > 0 THEN Faults("outside")
        ELSE /\ lists' = Predefined \o [d \in 1..n |-> NewList]
             /\ maxDaq' = MinDaq + n
             /\ dyn' = "ALLOC_DAQ"
             /\ ptr' = PtrAfter(ptr.daq > MinDaq, "leaked")
             /\ block' = IF n = 0 THEN "zero" ELSE "lists"
             /\ used' = used + 1
             /\ UNCHANGED fault

\* Fault: no number.
NewOdtUnnumbered(i) == [pid |-> 0, count |-> 0, entries |-> <<>>, valid |-> 0]

NewOdt(i) == [pid |-> i - 1, count |-> 0, entries |-> <<>>, valid |-> 0]

\* Fault: the count of an earlier ALLOC_ODT stays.
OdtCountKept(d, n) == lists[d].odtCount
OdtCount(d, n) == n

\* Xcp_CmdAllocOdt: one ODT at least. When the heap is full the ODTs that
\* there was room for stay linked, without being counted.
AllocOdt(d, n) ==
  \/ OutOfOrder({"ALLOC_DAQ", "ALLOC_ODT"})
  \/ /\ InOrder({"ALLOC_DAQ", "ALLOC_ODT"}) /\ d \in MinDaq + 1..maxDaq
     /\ LET got == Least(AtLeast1(n), HeapSize - used)
            new == [i \in 1..got |-> NewOdt(i)]
        IN /\ got > 0
           /\ used' = used + got
           /\ ptr' = PtrAfter(ptr.daq = d, "leaked")
           /\ IF got = AtLeast1(n)
              THEN /\ lists' = [lists EXCEPT ![d].odts = new, ![d].odtCount = OdtCount(d, n), ![d].maxOdt = n]
                   /\ dyn' = "ALLOC_ODT"
              ELSE lists' = [lists EXCEPT ![d].odts = new] /\ UNCHANGED dyn
     /\ UNCHANGED <<maxDaq, block, fault>>

\* Fault: one entry less than is counted.
EntriesShort(n) == IF n > 1 THEN n - 1 ELSE 1
Entries(n) == AtLeast1(n)

\* Fault: the new entries do not count as valid.
ValidNone(n) == 0
ValidNew(n) == n

\* Xcp_CmdAllocOdtEntry: the count is set first, the entries are what malloc
\* returned, and all of them count as valid.
AllocOdtEntry(d, o, n) ==
  \/ OutOfOrder({"ALLOC_ODT", "ALLOC_ODT_ENTRY"})
  \/ /\ InOrder({"ALLOC_ODT", "ALLOC_ODT_ENTRY"})
     /\ d \in MinDaq + 1..maxDaq /\ o <= lists[d].maxOdt
     /\ IF o > Len(lists[d].odts) THEN Faults("null")
        ELSE \E content \in {"empty", "garbage"} :
               LET got == Least(Entries(n), HeapSize - used)
                   new == [i \in 1..got |-> content]
                   all == got = Entries(n)
               IN /\ used' = used + got
                  /\ ptr' = PtrAfter(ptr.daq = d /\ ptr.odt = o /\ got > 0, "leaked")
                  /\ lists' = [lists EXCEPT ![d].odts[o] =
                       [@ EXCEPT !.count = n,
                                 !.entries = IF got > 0 THEN new ELSE @,
                                 !.valid = IF all THEN ValidNew(n) ELSE @]]
                  /\ dyn' = IF all THEN "ALLOC_ODT_ENTRY" ELSE dyn
                  /\ UNCHANGED <<maxDaq, block, fault>>

-----------------------------------------------------------------------------
(* The master: what it asks for, and its habits                            *)

Building == Takes("STOPPED", \A d \in DOMAIN lists : d > MinDaq => ~lists[d].running)
Written(l) == /\ l.odts # <<>>
              /\ \A o \in DOMAIN l.odts :
                   LET entries == l.odts[o].entries
                   IN entries # <<>> /\ \A e \in DOMAIN entries : entries[e] = "data"

Fill ==
  \/ \E d \in 1..MaxDaqs + 2, o \in 1..MaxOdts, e \in 1..MaxEntries + 2 :
       /\ Takes("RANGES", /\ d <= maxDaq /\ o <= Len(lists[d].odts)
                          /\ e <= Len(lists[d].odts[o].entries))
       /\ SetDaqPtr(d, o, e)
  \/ \E new \in {"data", "empty"} : Takes("POINTER", ptr.at = "live") /\ WriteDaq(new)
  \/ Takes("POINTER", ptr.at = "live") /\ ReadDaq
  \/ \E d \in 1..MaxDaqs : ClearDaqList(d)

Build ==
  \/ Building /\ FreeDaq
  \/ \E n \in 0..MaxDaqs : Building /\ Takes("ONCE", n > 0 /\ block = "none") /\ AllocDaq(n)
  \/ \E d \in 1..MaxDaqs, n \in 0..MaxOdts :
       Building /\ Takes("ONCE", n > 0 /\ d <= maxDaq /\ lists[d].odts = <<>>) /\ AllocOdt(d, n)
  \/ \E d \in 1..MaxDaqs, o \in 1..MaxOdts, n \in 0..MaxEntries :
       /\ Building
       /\ Takes("ONCE", /\ n > 0 /\ d <= maxDaq /\ o <= Len(lists[d].odts)
                        /\ lists[d].odts[o].entries = <<>>)
       /\ AllocOdtEntry(d, o, n)

Run == \E d \in 1..MaxDaqs, start \in BOOLEAN :
         /\ Takes("FILLED", d <= maxDaq /\ (IF start THEN Written(lists[d]) ELSE lists[d].running))
         /\ StartStop(d, start)

Next == /\ fault = "none"
        /\ Fill \/ Run \/ (setup.dynamic /\ Build)
        /\ UNCHANGED setup

Spec == Init /\ [][Next]_vars

-----------------------------------------------------------------------------
(* Properties                                                              *)

\* No command walks off a chain, follows a freed pointer or writes outside a
\* block (Xcp_CmdSetDaqPtr, Xcp_CmdWriteDaq, Xcp_CmdFreeDaq, Xcp_CmdAllocDaq).
NoBadAccess == fault = "none"

\* The counters say how long the chains are, between any two commands.
CountsMatch ==
  /\ Len(lists) = maxDaq
  /\ \A d \in DOMAIN lists :
       /\ lists[d].odtCount = Len(lists[d].odts) /\ lists[d].maxOdt = lists[d].odtCount
       /\ \A o \in DOMAIN lists[d].odts : lists[d].odts[o].count = Len(lists[d].odts[o].entries)

\* XcpOdtEntriesValid is the "Number of non zero entries" (Xcp_ConfigTypes.h).
ValidCount ==
  \A d \in DOMAIN lists : \A o \in DOMAIN lists[d].odts :
    LET odt == lists[d].odts[o]
    IN odt.valid = Cardinality({e \in DOMAIN odt.entries : odt.entries[e] # "empty"})

\* The ODTs Xcp_ProcessDaq sends of a list: the loop counts on but stays on
\* the first ODT without a valid entry.
Sends(l) == {o \in 1..Least(l.odtCount, Len(l.odts)) : \A k \in 1..o : l.odts[k].valid # 0}

\* Each ODT of a running list that has an entry written is sent, and with it
\* nothing that was never written ("Process all entries in DAQ").
AllSampled ==
  \A d \in DOMAIN lists : lists[d].running =>
    \A o \in DOMAIN lists[d].odts :
      /\ (\E e \in DOMAIN lists[d].odts[o].entries : lists[d].odts[o].entries[e] = "data")
           => o \in Sends(lists[d])
      /\ o \in Sends(lists[d]) =>
           \A e \in DOMAIN lists[d].odts[o].entries : lists[d].odts[o].entries[e] # "garbage"

\* The identification tells the ODTs of a list apart, or those of the slave
\* if it is absolute (README.txt, XCP_IDENTIFICATION).
OdtsIdentified ==
  \A d, e \in DOMAIN lists : \A o \in DOMAIN lists[d].odts, p \in DOMAIN lists[e].odts :
    (setup.absolute \/ d = e) /\ <<d, o>> # <<e, p>> => lists[d].odts[o].pid # lists[e].odts[p].pid

\* What is on the heap can be reached, so that FREE_DAQ returns all of it.
NothingLeaks ==
  used = (IF block = "none" THEN 0 ELSE 1)
         + SumOf([d \in DynamicLists |->
                    Len(lists[d].odts) + SumOf([o \in DOMAIN lists[d].odts |-> Len(lists[d].odts[o].entries)],
                                               DOMAIN lists[d].odts)],
                 DynamicLists)
=============================================================================
