--------------------------- MODULE XcpEventChannels ---------------------------
(***************************************************************************)
(* Event channels and DAQ lists (Xcp.c): each channel keeps an array of    *)
(* references to the lists it triggers, which SET_DAQ_LIST_MODE rearranges *)
(* entry by entry while Xcp_ProcessChannel walks it in the context of the  *)
(* channel's task.  FREE_DAQ takes the dynamic lists out of the arrays and *)
(* frees them, ALLOC_DAQ makes them anew.  What a list samples is left to  *)
(* XcpDaqRun, here it is sampled as a whole.                               *)
(*                                                                         *)
(* A step is what one context does between two accesses to the arrays.     *)
(* With Preemptive the contexts interleave at these steps, else each runs  *)
(* to its end once it has started.                                         *)
(***************************************************************************)
EXTENDS Integers, Sequences, FiniteSets

CONSTANTS Lists,       \* Xcp_Config.XcpDaqList
          NoList,      \* NULL
          Channels,    \* Xcp_Config.XcpEventChannel
          NoChannel,   \* 0xFFFF
          CanStim,     \* lists and channels with the STIM property, all have DAQ
          Fixings,     \* configurations to look at: the predefined list with the
                       \* EVENTFIXED property, or NULL
          FixedTo,     \* the channel the configuration puts it into
          Prescalers,  \* what the master asks for
          CounterMod,  \* 256, the range of the uint8 XcpEventChannelCounter
          Capacity,    \* XcpEventChannelMaxDaqList
          Preemptive   \* TRUE: channel tasks and Xcp_MainFunction interleave

ASSUME EventAssumption ==
  /\ IsFiniteSet(Lists) /\ NoList \notin Lists
  /\ IsFiniteSet(Channels) /\ NoChannel \notin Channels
  /\ CanStim \subseteq Lists \cup Channels
  /\ Fixings \subseteq Lists \cup {NoList} /\ FixedTo \in Channels
  /\ Prescalers \subseteq 0..255
  /\ CounterMod \in Nat \ {0} /\ Capacity \in Nat \ {0}
  /\ Preemptive \in BOOLEAN

VARIABLES
  fixed,      \* the configuration
  connected,  \* Xcp_Connected
  present,    \* the lists that are allocated
  mode,       \* XcpParams.Mode of each list, a set of flags
  channel,    \* XcpParams.EventChannel
  prescaler,  \* XcpParams.Prescaler
  refs,       \* XcpEventChannelTriggeredDaqListRef of each channel
  count,      \* XcpEventChannelDaqCount
  counter,    \* XcpEventChannelCounter
  main,       \* what the running command has still to do with the arrays
  task,       \* where each channel task is: pc and d of Xcp_ProcessChannel
  sampled,    \* what each channel task has sampled in this run of it
  due,        \* what it has to sample: found running at its start and since
  since,      \* events of its channel since a list was sampled or started
  first       \* the lists that were not sampled since they were started

params == <<fixed, connected, present, mode, channel, prescaler>>
arrays == <<refs, count>>
run == <<counter, task>>
history == <<sampled, due, since, first>>
vars == <<params, arrays, run, main, history>>

\* The model's arrays have an entry more than there are lists.
Entries == 0..Cardinality(Lists)
Quiet == [pc |-> "idle", d |-> 0]
NoCommand == [pc |-> "idle"]

\* The lists behind XcpMinDaq, which the master allocates; here there are
\* some at first.
Dynamic == Lists \ {fixed}

Init == /\ fixed \in Fixings
        /\ connected = FALSE
        /\ present = Lists
        /\ mode = [l \in Lists |-> {}]
        /\ channel = [l \in Lists |-> IF l = fixed THEN FixedTo ELSE NoChannel]
        /\ prescaler = [l \in Lists |-> 1]
        /\ refs = [c \in Channels |-> [i \in Entries |-> IF c = FixedTo /\ i = 0 THEN fixed ELSE NoList]]
        /\ count = [c \in Channels |-> IF c = FixedTo /\ fixed # NoList THEN 1 ELSE 0]
        /\ counter = [c \in Channels |-> 0]
        /\ main = NoCommand
        /\ task = [c \in Channels |-> Quiet]
        /\ sampled = [c \in Channels |-> <<>>]
        /\ due = [c \in Channels |-> {}]
        /\ since = [l \in Lists |-> 0] /\ first = Lists

Running(l) == "RUNNING" \in mode[l]
TaskMayRun == Preemptive \/ main.pc = "idle"
MainMayRun == Preemptive \/ \A c \in Channels : task[c].pc = "idle"

-----------------------------------------------------------------------------
(* Xcp_ProcessChannel, in the task of channel c                            *)

\* A prescaler of 0 traps, see NoTrap; the model then samples nothing.
Triggers(c, l) == /\ Running(l) /\ connected
                  /\ prescaler[l] # 0 /\ counter[c] % prescaler[l] = 0

StartChannel(c) ==
  /\ TaskMayRun /\ task[c].pc = "idle"
  /\ task' = [task EXCEPT ![c] = [pc |-> "check", d |-> 0]]
  /\ due' = [due EXCEPT ![c] = {l \in Lists : channel[l] = c /\ Triggers(c, l)}]
  /\ UNCHANGED <<params, arrays, counter, main, sampled, since, first>>

\* Fault: a list that does not pass ends the loop.
CheckEntryBreaks(c) ==
  /\ TaskMayRun /\ task[c].pc = "check" /\ task[c].d < count[c]
  /\ LET l == refs[c][task[c].d]
     IN IF l # NoList /\ Triggers(c, l)
        THEN task' = [task EXCEPT ![c].pc = "process"]
        ELSE task' = [task EXCEPT ![c].d = count[c]]
  /\ UNCHANGED <<params, arrays, counter, main, history>>

\* The entry is read and its list checked, one that does not pass is skipped.
CheckEntry(c) ==
  /\ TaskMayRun /\ task[c].pc = "check" /\ task[c].d < count[c]
  /\ LET l == refs[c][task[c].d]
     IN IF l # NoList /\ Triggers(c, l)
        THEN task' = [task EXCEPT ![c].pc = "process"]
        ELSE task' = [task EXCEPT ![c].d = @ + 1]
  /\ UNCHANGED <<params, arrays, counter, main, history>>

\* Xcp_ProcessDaq of the entry, which is read a second time.
ProcessEntry(c) ==
  /\ TaskMayRun /\ task[c].pc = "process"
  /\ LET l == refs[c][task[c].d]
     IN /\ sampled' = [sampled EXCEPT ![c] = Append(@, l)]
        /\ since' = [k \in Lists |-> IF k = l THEN 0 ELSE since[k]]
        /\ first' = first \ {l}
  /\ task' = [task EXCEPT ![c] = [pc |-> "check", d |-> @.d + 1]]
  /\ UNCHANGED <<params, arrays, counter, main, due>>

\* A run of the channel is over: its lists are one event older.
Over(c) ==
  /\ sampled' = [sampled EXCEPT ![c] = <<>>]
  /\ due' = [due EXCEPT ![c] = {}]
  /\ since' = [l \in Lists |-> IF channel[l] = c /\ Running(l) /\ connected
                             THEN since[l] + 1 ELSE since[l]]

\* Fault: the counter does not reach 0 again.
EndChannelSkipsZero(c) ==
  /\ TaskMayRun /\ task[c].pc = "check" /\ task[c].d >= count[c]
  /\ counter' = [counter EXCEPT ![c] = IF @ = CounterMod - 1 THEN 1 ELSE @ + 1]
  /\ task' = [task EXCEPT ![c] = Quiet]
  /\ Over(c)
  /\ UNCHANGED <<params, arrays, main, first>>

EndChannel(c) ==
  /\ TaskMayRun /\ task[c].pc = "check" /\ task[c].d >= count[c]
  /\ counter' = [counter EXCEPT ![c] = (@ + 1) % CounterMod]
  /\ task' = [task EXCEPT ![c] = Quiet]
  /\ Over(c)
  /\ UNCHANGED <<params, arrays, main, first>>

Event(c) == StartChannel(c) \/ CheckEntry(c) \/ ProcessEntry(c) \/ EndChannel(c)

-----------------------------------------------------------------------------
(* The commands, in the context of Xcp_MainFunction                        *)

Command == MainMayRun /\ main.pc = "idle" /\ UNCHANGED run

\* The lists of set are not sampled any more.
Forget(set) == /\ due' = [c \in Channels |-> due[c] \ set]
               /\ since' = [l \in Lists |-> IF l \in set THEN 0 ELSE since[l]]
               /\ first' = first \cup set

\* Xcp_CmdConnect, Xcp_CmdDisconnect: the lists are left as they are.
Connect == /\ Command
           /\ connected' = TRUE
           /\ UNCHANGED <<fixed, present, mode, channel, prescaler, arrays, main, history>>

Disconnect == /\ Command /\ connected
              /\ connected' = FALSE
              /\ Forget(Lists)
              /\ UNCHANGED <<fixed, present, mode, channel, prescaler, arrays, main, sampled>>

\* The conditions of Xcp_CmdSetDaqListMode, those on the two properties last.
Allowed(l, c, stim) == /\ l \in present /\ ~Running(l)
                       /\ stim => {l, c} \subseteq CanStim
                       /\ l = fixed => c = FixedTo

SetDaqListMode(l, c, p, stim) ==
  /\ Command /\ connected /\ Allowed(l, c, stim)
  /\ mode' = [mode EXCEPT ![l] = IF stim THEN @ \cup {"STIM"} ELSE @ \ {"STIM"}]
  /\ main' = [pc |-> IF channel[l] = NoChannel THEN "append" ELSE "find",
              list |-> l, to |-> c, pre |-> p, i |-> 0, then |-> "append", rest |-> {}]
  /\ UNCHANGED <<fixed, connected, present, channel, prescaler, arrays, history>>

\* Xcp_CmdSetDaqListMode_EventChannel, and the same loop in Xcp_CmdFreeDaq:
\* the entry of the list in its old channel, if there is one, is cleared ...
At(pc) == MainMayRun /\ main.pc = pc /\ UNCHANGED run
Old == channel[main.list]

Places == {i \in 0..count[Old] - 1 : refs[Old][i] = main.list}

Find == /\ At("find")
        /\ IF Places = {}
           THEN main' = [main EXCEPT !.pc = main.then] /\ UNCHANGED refs
           ELSE LET i == CHOOSE i \in Places : \A j \in Places : i <= j
                IN /\ refs' = [refs EXCEPT ![Old][i] = NoList]
                   /\ main' = [main EXCEPT !.pc = "shift", !.i = i]
        /\ UNCHANGED <<params, count, history>>

\* ... those behind it move up ...
Shift == /\ At("shift") /\ main.i < count[Old] - 1
         /\ refs' = [refs EXCEPT ![Old][main.i] = refs[Old][main.i + 1]]
         /\ main' = [main EXCEPT !.i = @ + 1]
         /\ UNCHANGED <<params, count, history>>

\* Fault: the count of the old channel is kept.
ShrinkNot == /\ At("shift") /\ main.i >= count[Old] - 1
             /\ main' = [main EXCEPT !.pc = main.then]
             /\ UNCHANGED <<params, refs, count, history>>

Shrink == /\ At("shift") /\ main.i >= count[Old] - 1
          /\ count' = [count EXCEPT ![Old] = @ - 1]
          /\ main' = [main EXCEPT !.pc = main.then]
          /\ UNCHANGED <<params, refs, history>>

\* ... and the list becomes the last one of its new channel.
AppendRef == /\ At("append")
             /\ refs' = [refs EXCEPT ![main.to][count[main.to]] = main.list]
             /\ main' = [main EXCEPT !.pc = "grow"]
             /\ UNCHANGED <<params, count, history>>

Grow == /\ At("grow")
        /\ count' = [count EXCEPT ![main.to] = @ + 1]
        /\ channel' = [channel EXCEPT ![main.list] = main.to]
        /\ prescaler' = [prescaler EXCEPT ![main.list] = main.pre]
        /\ main' = NoCommand
        /\ UNCHANGED <<fixed, connected, present, mode, refs, history>>

\* Xcp_CmdFreeDaq: one list after the other leaves its channel, then all are
\* freed, whether they run or not.
FreeDaq == /\ Command /\ connected
           /\ main' = [pc |-> "free", then |-> "free", rest |-> present \cap Dynamic]
           /\ Forget(Dynamic)
           /\ UNCHANGED <<params, arrays, sampled>>

\* Fault: the lists stay in their channels.
FreeNextKeepsRefs == /\ At("free")
                     /\ \E l \in main.rest : main' = [main EXCEPT !.rest = @ \ {l}]
                     /\ UNCHANGED <<params, arrays, history>>

FreeNext == /\ At("free")
            /\ \E l \in main.rest :
                 main' = [pc |-> IF channel[l] = NoChannel THEN "free" ELSE "find", then |-> "free",
                          list |-> l, i |-> 0, rest |-> main.rest \ {l}]
            /\ UNCHANGED <<params, arrays, history>>

\* What the lists are set to until they are allocated again.
Reset(set) == /\ mode' = [l \in Lists |-> IF l \in set THEN {} ELSE mode[l]]
              /\ channel' = [l \in Lists |-> IF l \in set THEN NoChannel ELSE channel[l]]
              /\ prescaler' = [l \in Lists |-> IF l \in set THEN 1 ELSE prescaler[l]]

FreeDone == /\ At("free") /\ main.rest = {}
            /\ present' = present \ Dynamic
            /\ Reset(Dynamic)
            /\ main' = NoCommand
            /\ UNCHANGED <<fixed, connected, arrays, history>>

\* Xcp_CmdAllocDaq and what follows it, by a master that frees the lists
\* first: they are set to no channel, and none runs.
AllocDaq == /\ Command /\ connected /\ present \cap Dynamic = {}
            /\ present' = Lists
            /\ UNCHANGED <<fixed, connected, mode, channel, prescaler, arrays, main, history>>

\* The lists of set are started or stopped; the selected flag goes if asked.
Start(set, flags) ==
  /\ set \subseteq present
  /\ mode' = [l \in Lists |-> IF l \in set THEN (mode[l] \cup {"RUNNING"}) \ flags ELSE mode[l] \ flags]
  /\ UNCHANGED <<fixed, connected, present, channel, prescaler, arrays, main, history>>

Stop(set, flags) ==
  /\ set \subseteq present
  /\ mode' = [l \in Lists |-> IF l \in set THEN mode[l] \ (flags \cup {"RUNNING"}) ELSE mode[l]]
  /\ Forget(set)
  /\ UNCHANGED <<fixed, connected, present, channel, prescaler, arrays, main, sampled>>

Selected == {l \in Lists : "SELECTED" \in mode[l]}

\* Xcp_CmdStartStopDaqList, modes 0, 1 and 2.
StopDaqList(l) == Command /\ connected /\ Stop({l}, {})
StartDaqList(l) == Command /\ connected /\ Start({l}, {})
SelectDaqList(l) == /\ Command /\ connected /\ l \in present
                    /\ mode' = [mode EXCEPT ![l] = @ \cup {"SELECTED"}]
                    /\ UNCHANGED <<fixed, connected, present, channel, prescaler, arrays, main, history>>

\* Xcp_CmdStartStopSynch, modes 0, 1 and 2.
StopAll == Command /\ connected /\ Stop(present, {"SELECTED"})
StartSelected == Command /\ connected /\ Start(Selected, {"SELECTED"})
StopSelected == Command /\ connected /\ Stop(Selected, {"SELECTED"})

Main == \/ Connect \/ Disconnect
        \/ \E l \in Lists, c \in Channels, p \in Prescalers, stim \in BOOLEAN :
             SetDaqListMode(l, c, p, stim)
        \/ Find \/ Shift \/ Shrink \/ AppendRef \/ Grow
        \/ FreeDaq \/ FreeNext \/ FreeDone \/ AllocDaq
        \/ \E l \in Lists : StopDaqList(l) \/ StartDaqList(l) \/ SelectDaqList(l)
        \/ StopAll \/ StartSelected \/ StopSelected

Next == Main \/ \E c \in Channels : Event(c)

Spec == Init /\ [][Next]_vars

-----------------------------------------------------------------------------
(* Properties                                                              *)

TypeOK ==
  /\ connected \in BOOLEAN
  /\ Lists \ Dynamic \subseteq present /\ present \subseteq Lists
  /\ mode \in [Lists -> SUBSET {"RUNNING", "SELECTED", "STIM"}]
  /\ channel \in [Lists -> Channels \cup {NoChannel}]
  /\ prescaler \in [Lists -> Prescalers \cup {1}]
  /\ refs \in [Channels -> [Entries -> Lists \cup {NoList}]]
  /\ count \in [Channels -> Entries]
  /\ counter \in [Channels -> 0..CounterMod - 1]
  /\ \A c \in Channels : task[c].pc \in {"idle", "check", "process"} /\ task[c].d \in Entries

InUse(c) == 0..count[c] - 1

\* Between two commands the arrays say what the lists say: a channel refers
\* to each list that was set to it, once, and to nothing else, least of all
\* to a list that was freed (Xcp_CmdSetDaqListMode_EventChannel,
\* Xcp_CmdFreeDaq).
RefsMatch ==
  main.pc = "idle" =>
    \A c \in Channels :
      /\ \A i, j \in InUse(c) : refs[c][i] = refs[c][j] => i = j
      /\ {refs[c][i] : i \in InUse(c)} = {l \in present : channel[l] = c}

Times(c, l) == Cardinality({i \in DOMAIN sampled[c] : sampled[c][i] = l})

\* One run of Xcp_ProcessChannel samples every list that is due, and none
\* twice; a list that is stopped meanwhile may be missing, one that is started
\* may be there.
EventComplete ==
  [][\A c \in Channels : task[c].pc # "idle" /\ task'[c].pc = "idle" =>
       \A l \in Lists : Times(c, l) <= 1 /\ (l \in due[c] => Times(c, l) = 1)]_vars

\* The list that is processed is the one that was checked: it runs.
SamplesRunning ==
  \A c \in Channels : task[c].pc = "process" => refs[c][task[c].d] \in Lists

\* The division in Xcp_ProcessChannel is by a prescaler that is not 0.
NoTrap ==
  \A c \in Channels :
    task[c].pc = "check" /\ task[c].d < count[c] =>
      LET l == refs[c][task[c].d]
      IN l # NoList /\ Running(l) /\ connected => prescaler[l] # 0

\* Prescaling: two samples of a list are as many events apart as its
\* prescaler says, unless the counter has started again at 0 in between,
\* where Xcp_ProcessChannel samples whatever the prescaler is.
PrescalerKept ==
  [][\A c \in Channels :
       LET l == sampled'[c][Len(sampled'[c])]
       IN Len(sampled'[c]) > Len(sampled[c]) /\ l \notin first
            => since[l] = prescaler[l] \/ (counter[c] = 0 /\ since[l] < prescaler[l])]_vars

\* XcpEventChannelMaxDaqList is the "Maximum number of entries" of the array
\* (Xcp_ConfigTypes.h).
WithinCapacity == \A c \in Channels : count[c] <= Capacity
=============================================================================
