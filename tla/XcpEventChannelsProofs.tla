----------------------- MODULE XcpEventChannelsProofs -----------------------
(***************************************************************************)
(* Proofs about XcpEventChannels, for every set of lists and channels.     *)
(*                                                                         *)
(* First the arrays, which only the commands change: between two commands  *)
(* and at every step of one it is known which lists they hold.  Then, for  *)
(* cooperative contexts, what a run of Xcp_ProcessChannel has sampled, and *)
(* how the age of a list and the counter of its channel go together.       *)
(***************************************************************************)
EXTENDS XcpEventChannels, SequenceTheorems, FiniteSetTheorems, TLAPS

-----------------------------------------------------------------------------
(* The inductive invariant of the arrays                                   *)

\* What the running command may have to do: nothing, SET_DAQ_LIST_MODE or
\* FREE_DAQ, which looks at one list after the other.
Moving == [pc : {"find", "shift", "append", "grow"}, list : Lists, to : Channels,
           pre : Prescalers, i : Entries, then : {"append"}, rest : {{}}]
Freeing == [pc : {"free"}, then : {"free"}, rest : SUBSET Lists]
FreeingOne == [pc : {"find", "shift", "free"}, then : {"free"}, list : Lists, i : Entries,
               rest : SUBSET Lists]
Commands == [pc : {"idle"}] \cup Moving \cup Freeing \cup FreeingOne

Typed ==
  /\ fixed \in Fixings
  /\ TypeOK
  /\ main \in Commands
  /\ task \in [Channels -> [pc : {"idle", "check", "process"}, d : Entries]]
  /\ \A c \in Channels : task[c].pc = "process" => task[c].d + 1 \in Entries

\* The list on its way from one channel to another, and those that FREE_DAQ
\* has taken out.
Moved == IF main.pc \in {"shift", "append", "grow"} THEN {main.list} ELSE {}
Freed == IF main.pc # "idle" /\ main.then = "free"
         THEN (present \cap Dynamic) \ (main.rest \cup IF main.pc = "find" THEN {main.list} ELSE {})
         ELSE {}

\* The lists that the array of a channel holds, and the entries they are in:
\* all in use, but for the one that is being filled from behind.
Listed(c) == {l \in Lists : channel[l] = c} \ (Moved \cup Freed)
Filled(c) == InUse(c) \ (IF main.pc = "shift" /\ c = Old THEN {main.i} ELSE {})

Holds(c, entries, set) ==
  /\ \A i, j \in entries : refs[c][i] = refs[c][j] => i = j
  /\ \A i \in entries : refs[c][i] \in set
  /\ \A l \in set : \E i \in entries : refs[c][i] = l

\* What the command in hand relies on.
Sound ==
  /\ \A l \in Lists \ present : channel[l] = NoChannel
  /\ main.pc \in {"find", "shift"} => channel[main.list] \in Channels
  /\ main.pc # "idle" /\ main.then = "append" => main.list \in present /\ ~Running(main.list)
  /\ main.pc # "idle" /\ main.then = "free" =>
       /\ main.rest \subseteq present \cap Dynamic
       /\ main.pc \in {"find", "shift"} => main.list \in (present \cap Dynamic) \ main.rest
  /\ main.pc = "shift" => main.i \in InUse(Old)
  /\ main.pc = "grow" => refs[main.to][count[main.to]] = main.list

ArraysInv == Typed /\ Sound /\ \A c \in Channels : Holds(c, Filled(c), Listed(c))

-----------------------------------------------------------------------------
(* The invariant of the runs, for cooperative contexts                     *)

\* What a channel task has done so far: it has sampled lists of entries it
\* has passed, each once, and all of those that are due.
Passed(c) == {refs[c][i] : i \in 0..task[c].d - 1}

RunInv(c) ==
  IF task[c].pc = "idle" THEN sampled[c] = <<>>
  ELSE /\ main.pc = "idle"
       /\ due[c] = {l \in Lists : channel[l] = c /\ Triggers(c, l)}
       /\ task[c].d <= count[c]
       /\ \A i, j \in DOMAIN sampled[c] : sampled[c][i] = sampled[c][j] => i = j
       /\ \A i \in DOMAIN sampled[c] : sampled[c][i] \in Passed(c) \cap due[c]
       /\ \A l \in Passed(c) \cap due[c] : \E i \in DOMAIN sampled[c] : sampled[c][i] = l
       /\ task[c].pc = "process" => task[c].d < count[c] /\ refs[c][task[c].d] \in due[c]

InRun(c, l) == \E i \in DOMAIN sampled[c] : sampled[c][i] = l

\* The age of a list that has been sampled since it was started: in the run
\* that samples it 0, else the events since then, which are as many as the
\* counter has advanced unless it started again.
Aged(l) ==
  LET c == channel[l]
      p == prescaler[l]
  IN /\ Running(l) /\ connected /\ c \in Channels /\ p # 0
     /\ IF InRun(c, l) THEN since[l] = 0 /\ counter[c] % p = 0
        ELSE /\ since[l] \in 1..p
             /\ counter[c] # 0 => since[l] <= counter[c] /\ (counter[c] - since[l]) % p = 0

\* A list that is not sampled any more.
Resting ==
  /\ main.pc # "idle" /\ main.then = "append" => main.list \in first
  /\ main.pc # "idle" /\ main.then = "free" => Dynamic \subseteq first

AgesInv == /\ since \in [Lists -> Nat] /\ first \subseteq Lists
           /\ Resting
           /\ \A l \in Lists \ first : Aged(l)

Recorded == sampled \in [Channels -> Seq(Lists)] /\ due \in [Channels -> SUBSET Lists]

CoopInv == ArraysInv /\ Recorded /\ (\A c \in Channels : RunInv(c)) /\ AgesInv

-----------------------------------------------------------------------------
(* Arrays                                                                  *)

\* An array without a repetition has fewer entries in use than there are
\* lists, if one of the lists is not in it.
LEMMA RoomForOne ==
  ASSUME NEW c \in Channels, NEW l \in Lists, count[c] \in Nat,
         NEW set \in SUBSET (Lists \ {l}), Holds(c, InUse(c), set)
  PROVE  count[c] + 1 \in Entries
<1> DEFINE f == [i \in InUse(c) |-> refs[c][i]]
<1>1. IsFiniteSet(Lists \ {l}) /\ Cardinality(Lists \ {l}) = Cardinality(Lists) - 1
      /\ Cardinality(Lists) \in Nat
  BY EventAssumption, FS_RemoveElement, FS_CardinalityType
<1>2. f \in Injection(InUse(c), Lists \ {l})
  BY DEF Injection, IsInjective, Holds
<1>3. Cardinality(InUse(c)) <= Cardinality(Lists \ {l})
  BY <1>1, <1>2, FS_Injection
<1>4. Cardinality(InUse(c)) = count[c]
  BY FS_Interval DEF InUse
<1>. QED  BY <1>1, <1>3, <1>4 DEF Entries

\* The last entry is behind those in use.
LEMMA EntriesType ==
  Cardinality(Lists) \in Nat /\ Entries = 0..Cardinality(Lists) /\ Entries \subseteq Nat
BY EventAssumption, FS_CardinalityType DEF Entries

LEMMA ArraysInit == Init => ArraysInv
<1>. SUFFICES ASSUME Init PROVE ArraysInv
  OBVIOUS
<1>. USE DEF Init
<1>1. Typed
  <2>1. TypeOK
    <3>1. 0 \in Entries
      BY EntriesType
    <3>2. fixed \in Lists \cup {NoList} /\ FixedTo \in Channels
      BY EventAssumption
    <3>3. count \in [Channels -> Entries]
      <4>1. CASE fixed = NoList
        BY <3>1, <4>1
      <4>2. CASE fixed \in Lists
        <5>1. Cardinality(Lists) # 0
          BY <4>2, EventAssumption, FS_EmptySet
        <5>. QED  BY <3>1, <4>2, <5>1, EntriesType
      <4>. QED  BY <3>2, <4>1, <4>2
    <3>4. refs \in [Channels -> [Entries -> Lists \cup {NoList}]]
      BY <3>2
    <3>5. channel \in [Lists -> Channels \cup {NoChannel}]
      BY <3>2
    <3>6. counter \in [Channels -> 0..CounterMod - 1]
      BY EventAssumption
    <3>. QED  BY <3>1, <3>3, <3>4, <3>5, <3>6 DEF TypeOK, Dynamic, Quiet
  <2>2. main \in Commands
    BY DEF NoCommand, Commands
  <2>. QED  BY <2>1, <2>2, EntriesType DEF Typed, Quiet
<1>2. Sound
  BY DEF Sound, NoCommand
<1>3. ASSUME NEW c \in Channels PROVE Holds(c, Filled(c), Listed(c))
  <2>1. Moved = {} /\ Freed = {} /\ Filled(c) = InUse(c)
    BY DEF Moved, Freed, Filled, NoCommand
  <2>2. fixed \in Lists \cup {NoList} /\ NoList \notin Lists /\ NoChannel \notin Channels
    BY EventAssumption
  <2>3. Listed(c) = IF c = FixedTo /\ fixed # NoList THEN {fixed} ELSE {}
    BY <2>1, <2>2 DEF Listed
  <2>4. 0 \in Entries
    BY EntriesType
  <2>5. InUse(c) = IF c = FixedTo /\ fixed # NoList THEN {0} ELSE {}
    <3>1. count[c] = IF c = FixedTo /\ fixed # NoList THEN 1 ELSE 0
      OBVIOUS
    <3>2. 0..1 - 1 = {0} /\ 0..0 - 1 = {}
      OBVIOUS
    <3>. QED  BY <3>1, <3>2 DEF InUse
  <2>6. CASE c = FixedTo /\ fixed # NoList
    BY <2>1, <2>3, <2>4, <2>5, <2>6 DEF Holds
  <2>7. CASE ~(c = FixedTo /\ fixed # NoList)
    BY <2>1, <2>3, <2>5, <2>7 DEF Holds
  <2>. QED  BY <2>6, <2>7
<1>. QED  BY <1>1, <1>2, <1>3 DEF ArraysInv

\* The types of main, by what it has to do.
LEMMA MainType ==
  ASSUME main \in Commands
  PROVE  /\ main.pc \in {"idle", "find", "shift", "append", "grow", "free"}
         /\ main.pc \in {"find", "shift"} => main \in Moving \cup FreeingOne
         /\ main.pc \in {"append", "grow"} => main \in Moving
         /\ main.pc = "free" => main \in Freeing \cup FreeingOne
BY DEF Commands, Moving, Freeing, FreeingOne

\* A step that leaves what is in the arrays alone.
LEMMA ArraysSame ==
  ASSUME ArraysInv, UNCHANGED <<refs, count, channel, main>>, Typed',
         fixed' = fixed,
         present' = present \/ main.pc = "idle",
         \A l \in Lists \ present' : channel[l] = NoChannel,
         main.pc = "idle" \/ mode' = mode
  PROVE  ArraysInv'
<1>1. Sound'
  BY MainType DEF ArraysInv, Sound, Typed, Running, Old, InUse, Dynamic
<1>2. Moved' = Moved /\ Freed' = Freed
  BY DEF Moved, Freed, Dynamic
<1>3. ASSUME NEW c \in Channels PROVE Holds(c, Filled(c), Listed(c))'
  <2>1. Filled(c)' = Filled(c) /\ Listed(c)' = Listed(c)
    BY <1>2 DEF Filled, Listed, InUse, Old
  <2>. QED  BY <2>1 DEF Holds, ArraysInv
<1>. QED  BY <1>1, <1>3 DEF ArraysInv

LEMMA ArraysTask ==
  ASSUME ArraysInv, NEW c \in Channels, Event(c)
  PROVE  ArraysInv'
<1>. USE DEF Event, StartChannel, CheckEntry, ProcessEntry, EndChannel, Over
<1>1. Typed
  BY DEF ArraysInv
<1>2. UNCHANGED <<params, arrays, main>>
  BY DEF history
<1>3. task' \in [Channels -> [pc : {"idle", "check", "process"}, d : Entries]]
      /\ \A k \in Channels : task'[k].pc = "process" => task'[k].d + 1 \in Entries
  <2>1. task[c] \in [pc : {"idle", "check", "process"}, d : Entries] /\ count[c] \in Entries
    BY <1>1 DEF Typed, TypeOK
  <2>2. CASE StartChannel(c)
    BY <1>1, <2>2, EntriesType DEF Typed
  <2>3. CASE CheckEntry(c)
    BY <1>1, <2>1, <2>3, EntriesType DEF Typed
  <2>4. CASE ProcessEntry(c)
    BY <1>1, <2>1, <2>4, EntriesType DEF Typed
  <2>5. CASE EndChannel(c)
    BY <1>1, <2>5, EntriesType DEF Typed, Quiet
  <2>. QED  BY <2>2, <2>3, <2>4, <2>5
<1>4. counter' \in [Channels -> 0..CounterMod - 1]
  <2>1. counter \in [Channels -> 0..CounterMod - 1] /\ CounterMod \in Nat \ {0}
    BY <1>1, EventAssumption DEF Typed, TypeOK
  <2>2. (counter[c] + 1) % CounterMod \in 0..CounterMod - 1
    BY <2>1
  <2>. QED  BY <2>1, <2>2
<1>5. Typed'
  BY <1>1, <1>2, <1>3, <1>4 DEF Typed, TypeOK, params, arrays, Dynamic
<1>. QED  BY <1>2, <1>5, ArraysSame DEF params, arrays, ArraysInv, Sound

\* The commands that take one step.
Simple == \/ Connect \/ Disconnect \/ AllocDaq
          \/ \E l \in Lists : StopDaqList(l) \/ StartDaqList(l) \/ SelectDaqList(l)
          \/ StopAll \/ StartSelected \/ StopSelected

LEMMA ArraysSimple ==
  ASSUME ArraysInv, Simple
  PROVE  ArraysInv'
<1>. USE DEF Command
<1>1. Typed
  BY DEF ArraysInv
<1>2. main.pc = "idle" /\ UNCHANGED <<fixed, refs, count, channel, prescaler, main, counter, task>>
  BY DEF Simple, Connect, Disconnect, AllocDaq, StopDaqList, StartDaqList, SelectDaqList,
         StopAll, StartSelected, StopSelected, Start, Stop, arrays, run
<1>3. present' = present \/ present' = Lists
  BY DEF Simple, Connect, Disconnect, AllocDaq, StopDaqList, StartDaqList, SelectDaqList,
         StopAll, StartSelected, StopSelected, Start, Stop
<1>4. connected' \in BOOLEAN /\ mode' \in [Lists -> SUBSET {"RUNNING", "SELECTED", "STIM"}]
  <2>1. mode \in [Lists -> SUBSET {"RUNNING", "SELECTED", "STIM"}] /\ connected \in BOOLEAN
    BY <1>1 DEF Typed, TypeOK
  <2>2. CASE Connect \/ Disconnect \/ AllocDaq
    BY <2>1, <2>2 DEF Connect, Disconnect, AllocDaq
  <2>3. ASSUME NEW set, NEW flags, Start(set, flags) \/ Stop(set, flags)
        PROVE  connected' \in BOOLEAN /\ mode' \in [Lists -> SUBSET {"RUNNING", "SELECTED", "STIM"}]
    BY <2>1, <2>3 DEF Start, Stop
  <2>4. ASSUME NEW l \in Lists, SelectDaqList(l)
        PROVE  connected' \in BOOLEAN /\ mode' \in [Lists -> SUBSET {"RUNNING", "SELECTED", "STIM"}]
    BY <2>1, <2>4 DEF SelectDaqList
  <2>. QED  BY <2>2, <2>3, <2>4 DEF Simple, StopDaqList, StartDaqList, StopAll, StartSelected, StopSelected
<1>5. Typed'
  BY <1>1, <1>2, <1>3, <1>4 DEF Typed, TypeOK, Dynamic
<1>. QED  BY <1>2, <1>3, <1>5, ArraysSame DEF ArraysInv, Sound

LEMMA ArraysSetMode ==
  ASSUME ArraysInv, NEW l \in Lists, NEW c \in Channels, NEW p \in Prescalers,
         NEW stim \in BOOLEAN, SetDaqListMode(l, c, p, stim)
  PROVE  ArraysInv'
<1>. USE DEF SetDaqListMode, Command
<1>1. /\ Typed /\ Sound /\ main.pc = "idle" /\ l \in present /\ ~Running(l)
      /\ UNCHANGED <<fixed, connected, present, channel, prescaler, refs, count, counter, task>>
  BY DEF ArraysInv, Allowed, arrays, run
<1>2. main' \in Moving /\ main'.list = l /\ main'.pc \in {"find", "append"} /\ main'.then = "append"
      /\ (main'.pc = "find" => channel[l] # NoChannel) /\ main'.rest = {}
  BY EntriesType DEF Moving
<1>3. mode' \in [Lists -> SUBSET {"RUNNING", "SELECTED", "STIM"}] /\ ~Running(l)'
  BY <1>1 DEF Typed, TypeOK, Running
<1>4. Typed'
  BY <1>1, <1>2, <1>3 DEF Typed, TypeOK, Commands, Dynamic
<1>5. Sound'
  BY <1>1, <1>2, <1>3 DEF Sound, Typed, TypeOK
<1>6. ASSUME NEW k \in Channels PROVE Holds(k, Filled(k), Listed(k))'
  <2>1. /\ Freed = {} /\ Freed' = {} /\ Moved = {}
        /\ Moved' = IF channel[l] = NoChannel THEN {l} ELSE {}
    BY <1>1, <1>2 DEF Freed, Moved
  <2>2. Filled(k)' = Filled(k)
    BY <1>1, <1>2 DEF Filled, InUse
  <2>3. Listed(k)' = Listed(k)
    BY <1>1, <2>1, EventAssumption DEF Listed
  <2>. QED  BY <1>1, <2>2, <2>3 DEF Holds, ArraysInv
<1>. QED  BY <1>4, <1>5, <1>6 DEF ArraysInv

\* The list that is looked for is in the array of its channel.
LEMMA ArraysFind ==
  ASSUME ArraysInv, Find
  PROVE  ArraysInv'
<1>. USE DEF Find, At
<1>1. /\ Typed /\ Sound /\ main.pc = "find" /\ main \in Moving \cup FreeingOne
      /\ UNCHANGED <<params, count, counter, task>>
  BY MainType DEF ArraysInv, Typed, run
<1>2. Old \in Channels /\ main.list \in Lists
  BY <1>1 DEF Sound, Old, Moving, FreeingOne
<1>3. Moved = {} /\ main.list \notin Freed /\ main.list \in Listed(Old)
  BY <1>1, <1>2 DEF Moved, Freed, Listed, Old
<1>4. Filled(Old) = InUse(Old)
  BY <1>1 DEF Filled
<1>5. Places # {} /\ Places \subseteq InUse(Old)
  BY <1>2, <1>3, <1>4 DEF ArraysInv, Holds, Places, InUse
<1>6. PICK n \in InUse(Old) : /\ refs[Old][n] = main.list
                              /\ refs' = [refs EXCEPT ![Old][n] = NoList]
                              /\ main' = [main EXCEPT !.pc = "shift", !.i = n]
  <2> DEFINE n == CHOOSE i \in Places : \A j \in Places : i <= j
  <2>1. \A i \in Places, j \in Places : refs[Old][i] = refs[Old][j]
    BY DEF Places
  <2>2. \E i \in Places : \A j \in Places : i <= j
    <3>1. \A i, j \in Places : i = j
      BY <1>2, <1>4, <1>5, <2>1 DEF ArraysInv, Holds
    <3>2. PICK i \in Places : TRUE
      BY <1>5
    <3>3. i \in Int
      BY <3>2 DEF Places
    <3>. QED  BY <3>1, <3>2, <3>3
  <2>3. n \in Places
    BY <2>2
  <2>. QED  BY <1>5, <2>3 DEF Places
<1>7. count[Old] \in Entries /\ InUse(Old) \subseteq Entries /\ count \in [Channels -> Entries]
      /\ refs \in [Channels -> [Entries -> Lists \cup {NoList}]]
  BY <1>1, <1>2, EntriesType DEF Typed, TypeOK, InUse
<1>8. main' \in Moving \cup FreeingOne
  <2>1. CASE main \in Moving
    BY <1>6, <1>7, <2>1 DEF Moving
  <2>2. CASE main \in FreeingOne
    BY <1>6, <1>7, <2>2 DEF FreeingOne
  <2>. QED  BY <1>1, <2>1, <2>2
<1>9. main'.pc = "shift" /\ main'.i = n /\ main'.list = main.list /\ main'.then = main.then
      /\ main'.rest = main.rest
  BY <1>1, <1>6 DEF Moving, FreeingOne
<1>10. Typed'
  <2>1. refs' \in [Channels -> [Entries -> Lists \cup {NoList}]]
    BY <1>6, <1>7
  <2>. QED  BY <1>1, <1>8, <2>1 DEF Typed, TypeOK, Commands, params, Dynamic
<1>11. Sound'
  BY <1>1, <1>2, <1>6, <1>9 DEF Sound, Old, InUse, params, Dynamic, Running
<1>12. ASSUME NEW c \in Channels PROVE Holds(c, Filled(c), Listed(c))'
  <2>1. Moved' = {main.list} /\ Freed' \cup {main.list} = Freed \cup {main.list}
    BY <1>1, <1>9 DEF Moved, Freed, params, Dynamic
  <2>2. Listed(c)' = Listed(c) \ {main.list}
    BY <1>1, <1>3, <2>1 DEF Listed, params
  <2>3. Filled(c)' = IF c = Old THEN InUse(c) \ {n} ELSE Filled(c)
    BY <1>1, <1>9 DEF Filled, InUse, Old, params
  <2>4. CASE c = Old
    <3>1. \A i \in InUse(Old) \ {n} : refs'[Old][i] = refs[Old][i]
      BY <1>2, <1>6, <1>7
    <3>2. Holds(Old, InUse(Old), Listed(Old))
      BY <1>2, <1>4 DEF ArraysInv
    <3>3. Holds(Old, InUse(Old) \ {n}, Listed(Old) \ {main.list})
      BY <1>6, <3>2 DEF Holds
    <3>. QED  BY <2>2, <2>3, <2>4, <3>1, <3>3 DEF Holds
  <2>5. CASE c # Old
    <3>1. refs'[c] = refs[c]
      BY <1>6, <1>7, <2>5
    <3>2. main.list \notin Listed(c)
      BY <2>5 DEF Listed, Old
    <3>. QED  BY <2>2, <2>3, <2>5, <3>1, <3>2 DEF Holds, ArraysInv
  <2>. QED  BY <2>4, <2>5
<1>. QED  BY <1>10, <1>11, <1>12 DEF ArraysInv

LEMMA ArraysShift ==
  ASSUME ArraysInv, Shift
  PROVE  ArraysInv'
<1>. USE DEF Shift, At
<1>1. /\ Typed /\ Sound /\ main.pc = "shift" /\ main \in Moving \cup FreeingOne
      /\ UNCHANGED <<params, count, counter, task>>
  BY MainType DEF ArraysInv, Typed, run
<1>2. Old \in Channels /\ main.list \in Lists /\ main.i \in InUse(Old)
  BY <1>1 DEF Sound, Old, Moving, FreeingOne
<1>3. count[Old] \in Entries /\ InUse(Old) \subseteq Entries /\ count \in [Channels -> Entries]
      /\ refs \in [Channels -> [Entries -> Lists \cup {NoList}]]
  BY <1>1, <1>2, EntriesType DEF Typed, TypeOK, InUse
<1>4. main.i + 1 \in InUse(Old)
  BY <1>2, <1>3, EntriesType DEF InUse
<1>5. main' \in Moving \cup FreeingOne
  <2>1. main' = [main EXCEPT !.i = main.i + 1] /\ main.i + 1 \in Entries
    BY <1>3, <1>4
  <2>2. CASE main \in Moving
    BY <2>1, <2>2 DEF Moving
  <2>3. CASE main \in FreeingOne
    BY <2>1, <2>3 DEF FreeingOne
  <2>. QED  BY <1>1, <2>2, <2>3
<1>6. main'.pc = "shift" /\ main'.i = main.i + 1 /\ main'.list = main.list /\ main'.then = main.then
      /\ main'.rest = main.rest
  BY <1>1 DEF Moving, FreeingOne
<1>7. Typed'
  <2>1. refs' \in [Channels -> [Entries -> Lists \cup {NoList}]]
    BY <1>2, <1>3, <1>4
  <2>. QED  BY <1>1, <1>5, <2>1 DEF Typed, TypeOK, Commands, params, Dynamic
<1>8. Sound'
  BY <1>1, <1>2, <1>4, <1>6 DEF Sound, Old, InUse, params, Dynamic, Running
<1>9. ASSUME NEW c \in Channels PROVE Holds(c, Filled(c), Listed(c))'
  <2>1. Listed(c)' = Listed(c)
    BY <1>1, <1>6 DEF Listed, Moved, Freed, params, Dynamic
  <2>2. Filled(c)' = IF c = Old THEN InUse(c) \ {main.i + 1} ELSE Filled(c)
    BY <1>1, <1>6 DEF Filled, InUse, Old, params
  <2>3. CASE c = Old
    <3> DEFINE i == main.i
    <3>1. /\ refs'[Old][i] = refs[Old][i + 1]
          /\ \A j \in InUse(Old) \ {i} : refs'[Old][j] = refs[Old][j]
      BY <1>2, <1>3
    <3>2. Holds(Old, InUse(Old) \ {i}, Listed(Old))
      BY <1>1, <1>2 DEF ArraysInv, Filled
    <3>3. i # i + 1 /\ i \in InUse(Old) /\ i + 1 \in InUse(Old)
      BY <1>2, <1>4 DEF InUse
    <3>4. \A j, k \in InUse(Old) \ {i + 1} : refs'[Old][j] = refs'[Old][k] => j = k
      BY <3>1, <3>2, <3>3 DEF Holds
    <3>5. \A j \in InUse(Old) \ {i + 1} : refs'[Old][j] \in Listed(Old)
      BY <3>1, <3>2, <3>3 DEF Holds
    <3>6. ASSUME NEW l \in Listed(Old)
          PROVE  \E j \in InUse(Old) \ {i + 1} : refs'[Old][j] = l
      <4>1. PICK j \in InUse(Old) \ {i} : refs[Old][j] = l
        BY <3>2 DEF Holds
      <4>2. CASE j = i + 1
        BY <3>1, <3>3, <4>1, <4>2
      <4>3. CASE j # i + 1
        BY <3>1, <4>1, <4>3
      <4>. QED  BY <4>2, <4>3
    <3>. QED  BY <2>1, <2>2, <2>3, <3>4, <3>5, <3>6 DEF Holds
  <2>4. CASE c # Old
    <3>1. refs'[c] = refs[c]
      BY <1>3, <2>4
    <3>. QED  BY <2>1, <2>2, <2>4, <3>1 DEF Holds, ArraysInv
  <2>. QED  BY <2>3, <2>4
<1>. QED  BY <1>7, <1>8, <1>9 DEF ArraysInv

LEMMA ArraysShrink ==
  ASSUME ArraysInv, Shrink
  PROVE  ArraysInv'
<1>. USE DEF Shrink, At
<1>1. /\ Typed /\ Sound /\ main.pc = "shift" /\ main \in Moving \cup FreeingOne
      /\ UNCHANGED <<params, refs, counter, task>>
  BY MainType DEF ArraysInv, Typed, run
<1>2. Old \in Channels /\ main.list \in Lists /\ main.i \in InUse(Old)
  BY <1>1 DEF Sound, Old, Moving, FreeingOne
<1>3. count[Old] \in Entries /\ count \in [Channels -> Entries]
  BY <1>1, <1>2, EntriesType DEF Typed, TypeOK
<1>4. main.i = count[Old] - 1 /\ count[Old] - 1 \in Entries
  BY <1>2, <1>3, EntriesType DEF InUse
<1>5. /\ main'.pc = main.then /\ main'.list = main.list /\ main'.then = main.then
      /\ main'.rest = main.rest /\ main.then \in {"append", "free"}
      /\ main' \in Moving \cup FreeingOne
  <2>1. CASE main \in Moving
    BY <2>1 DEF Moving
  <2>2. CASE main \in FreeingOne
    BY <2>2 DEF FreeingOne
  <2>. QED  BY <1>1, <2>1, <2>2
<1>6. Typed'
  <2>1. count' \in [Channels -> Entries]
    BY <1>3, <1>4
  <2>. QED  BY <1>1, <1>5, <2>1 DEF Typed, TypeOK, Commands, params, Dynamic
<1>7. Sound'
  BY <1>1, <1>2, <1>5 DEF Sound, Old, params, Dynamic, Running
<1>8. ASSUME NEW c \in Channels PROVE Holds(c, Filled(c), Listed(c))'
  <2>1. Listed(c)' = Listed(c)
    <3>1. CASE main.then = "append"
      BY <1>1, <1>5, <3>1 DEF Listed, Moved, Freed, params, Dynamic
    <3>2. CASE main.then = "free"
      <4>1. main.list \in (present \cap Dynamic) \ main.rest
        BY <1>1, <3>2 DEF Sound
      <4>. QED  BY <1>1, <1>5, <3>2, <4>1 DEF Listed, Moved, Freed, params, Dynamic
    <3>. QED  BY <1>5, <3>1, <3>2
  <2>2. Filled(c)' = Filled(c)
    <3>1. Filled(c)' = 0..count'[c] - 1
      BY <1>5 DEF Filled, InUse
    <3>2. CASE c = Old
      <4>1. count'[c] = count[c] - 1
        BY <1>2, <1>3, <3>2
      <4>2. Filled(c) = (0..count[c] - 1) \ {count[c] - 1}
        BY <1>1, <1>4, <3>2 DEF Filled, InUse
      <4>. QED  BY <1>3, <3>1, <3>2, <4>1, <4>2, EntriesType
    <3>3. CASE c # Old
      BY <1>2, <1>3, <3>1, <3>3 DEF Filled, InUse
    <3>. QED  BY <3>2, <3>3
  <2>. QED  BY <1>1, <2>1, <2>2 DEF Holds, ArraysInv
<1>. QED  BY <1>6, <1>7, <1>8 DEF ArraysInv

\* There is room for the list behind the last entry of its new channel.
LEMMA ArraysAppend ==
  ASSUME ArraysInv, AppendRef
  PROVE  ArraysInv'
<1>. USE DEF AppendRef, At
<1>1. /\ Typed /\ Sound /\ main.pc = "append" /\ main \in Moving
      /\ UNCHANGED <<params, count, counter, task>>
  BY MainType DEF ArraysInv, Typed, run
<1>2. main.list \in Lists /\ main.to \in Channels
  BY <1>1 DEF Moving
<1>3. /\ count \in [Channels -> Entries]
      /\ refs \in [Channels -> [Entries -> Lists \cup {NoList}]]
      /\ \A c \in Channels : count[c] \in Nat /\ InUse(c) \subseteq Entries
  BY <1>1, EntriesType DEF Typed, TypeOK, InUse
<1>4. main'.pc = "grow" /\ main'.list = main.list /\ main'.then = main.then
      /\ main'.to = main.to /\ main'.rest = main.rest /\ main' \in Moving
  BY <1>1 DEF Moving
<1>5. Typed'
  <2>1. refs' \in [Channels -> [Entries -> Lists \cup {NoList}]]
    BY <1>2, <1>3
  <2>. QED  BY <1>1, <1>4, <2>1 DEF Typed, TypeOK, Commands, params, Dynamic
<1>6. Sound'
  BY <1>1, <1>2, <1>3, <1>4 DEF Sound, Old, params, Dynamic, Running, Moving
<1>7. ASSUME NEW c \in Channels PROVE Holds(c, Filled(c), Listed(c))'
  <2>1. Listed(c)' = Listed(c) /\ Filled(c)' = InUse(c) /\ Filled(c) = InUse(c)
    BY <1>1, <1>4 DEF Listed, Moved, Freed, params, Dynamic, Filled, InUse
  <2>2. \A i \in InUse(c) : refs'[c][i] = refs[c][i]
    BY <1>2, <1>3 DEF InUse
  <2>. QED  BY <2>1, <2>2 DEF Holds, ArraysInv
<1>. QED  BY <1>5, <1>6, <1>7 DEF ArraysInv

LEMMA ArraysGrow ==
  ASSUME ArraysInv, Grow
  PROVE  ArraysInv'
<1>. USE DEF Grow, At
<1>1. /\ Typed /\ Sound /\ main.pc = "grow" /\ main \in Moving
      /\ UNCHANGED <<fixed, connected, present, mode, refs, counter, task>>
      /\ main'.pc = "idle"
  BY MainType DEF ArraysInv, Typed, run, NoCommand
<1> DEFINE l == main.list
           to == main.to
<1>2. l \in Lists /\ to \in Channels /\ main.pre \in Prescalers /\ l \in present
      /\ refs[to][count[to]] = l /\ main.then = "append"
  BY <1>1 DEF Moving, Sound
<1>3. /\ count \in [Channels -> Entries] /\ channel \in [Lists -> Channels \cup {NoChannel}]
      /\ prescaler \in [Lists -> Prescalers \cup {1}]
      /\ \A c \in Channels : count[c] \in Nat
  BY <1>1, EntriesType DEF Typed, TypeOK
<1>4. \A c \in Channels : /\ Filled(c) = InUse(c)
                          /\ Listed(c) = {k \in Lists : channel[k] = c} \ {l}
                          /\ Filled(c)' = InUse(c)'
                          /\ Listed(c)' = {k \in Lists : channel'[k] = c}
  BY <1>1, <1>2 DEF Filled, Listed, Moved, Freed
<1>5. count[to] + 1 \in Entries
  <2>1. Holds(to, InUse(to), Listed(to)) /\ Listed(to) \subseteq Lists \ {l}
    BY <1>2, <1>4 DEF ArraysInv
  <2>. QED  BY <1>2, <1>3, <2>1, RoomForOne
<1>6. Typed'
  <2>1. count' \in [Channels -> Entries] /\ channel' \in [Lists -> Channels \cup {NoChannel}]
        /\ prescaler' \in [Lists -> Prescalers \cup {1}]
    BY <1>2, <1>3, <1>5
  <2>2. main' \in Commands
    BY DEF NoCommand, Commands
  <2>. QED  BY <1>1, <2>1, <2>2 DEF Typed, TypeOK, Dynamic
<1>7. Sound'
  <2>1. \A k \in Lists \ present : channel'[k] = NoChannel
    BY <1>1, <1>2, <1>3 DEF Sound
  <2>. QED  BY <1>1, <2>1 DEF Sound
<1>8. ASSUME NEW c \in Channels PROVE Holds(c, Filled(c), Listed(c))'
  <2>1. Holds(c, InUse(c), Listed(c))
    BY <1>4 DEF ArraysInv
  <2>2. CASE c = to
    <3>1. InUse(c)' = InUse(c) \cup {count[c]} /\ count[c] \notin InUse(c)
      <4>1. count'[c] = count[c] + 1
        BY <1>2, <1>3, <2>2
      <4>. QED  BY <1>3, <4>1 DEF InUse
    <3>2. Listed(c)' = Listed(c) \cup {l} /\ l \notin Listed(c)
      BY <1>2, <1>3, <1>4, <2>2
    <3>. QED  BY <1>1, <1>2, <1>4, <2>1, <2>2, <3>1, <3>2 DEF Holds
  <2>3. CASE c # to
    <3>1. InUse(c)' = InUse(c)
      BY <1>2, <1>3, <2>3 DEF InUse
    <3>2. Listed(c)' = Listed(c)
      BY <1>2, <1>3, <1>4, <2>3
    <3>. QED  BY <1>1, <1>4, <2>1, <3>1, <3>2 DEF Holds
  <2>. QED  BY <2>2, <2>3
<1>. QED  BY <1>6, <1>7, <1>8 DEF ArraysInv

\* FREE_DAQ: what it takes out of the arrays is what it has gone through.
LEMMA ArraysFree ==
  ASSUME ArraysInv, FreeDaq \/ FreeNext \/ FreeDone
  PROVE  ArraysInv'
<1>1. Typed /\ Sound
  BY DEF ArraysInv
<1>2. CASE FreeDaq
  <2>. USE <1>2 DEF FreeDaq, Command
  <2>1. main.pc = "idle" /\ UNCHANGED <<params, refs, count, counter, task>>
    BY DEF run, arrays
  <2>2. main'.pc = "free" /\ main'.then = "free" /\ main'.rest = present \cap Dynamic /\ main' \in Freeing
    BY <1>1 DEF Freeing, Typed, TypeOK
  <2>3. Typed'
    BY <1>1, <2>1, <2>2 DEF Typed, TypeOK, Commands, params, Dynamic
  <2>4. Sound'
    BY <1>1, <2>1, <2>2 DEF Sound, params, Dynamic
  <2>5. ASSUME NEW c \in Channels PROVE Holds(c, Filled(c), Listed(c))'
    <3>1. Filled(c)' = Filled(c) /\ Listed(c)' = Listed(c)
      BY <2>1, <2>2 DEF Filled, Listed, Moved, Freed, InUse, params, Dynamic
    <3>. QED  BY <2>1, <3>1 DEF Holds, ArraysInv
  <2>. QED  BY <2>3, <2>4, <2>5 DEF ArraysInv
<1>3. CASE FreeNext
  <2>. USE <1>3 DEF FreeNext, At
  <2>1. main.pc = "free" /\ UNCHANGED <<params, refs, count, counter, task>>
        /\ main \in Freeing \cup FreeingOne
    BY <1>1, MainType DEF run, arrays, Typed
  <2>2. PICK l \in main.rest :
           main' = [pc |-> IF channel[l] = NoChannel THEN "free" ELSE "find", then |-> "free",
                    list |-> l, i |-> 0, rest |-> main.rest \ {l}]
    OBVIOUS
  <2>3. main.then = "free" /\ main.rest \subseteq present \cap Dynamic /\ main.rest \subseteq Lists
    BY <1>1, <2>1 DEF Sound, Freeing, FreeingOne
  <2>4. main' \in FreeingOne /\ main'.pc \in {"free", "find"}
    BY <2>2, <2>3, EntriesType DEF FreeingOne
  <2>5. Typed'
    BY <1>1, <2>1, <2>4 DEF Typed, TypeOK, Commands, params, Dynamic
  <2>6. Sound'
    BY <1>1, <2>1, <2>2, <2>3 DEF Sound, params, Dynamic, Typed, TypeOK
  <2>7. ASSUME NEW c \in Channels PROVE Holds(c, Filled(c), Listed(c))'
    <3>1. Filled(c)' = Filled(c)
      BY <2>1, <2>2 DEF Filled, InUse, params
    <3>2. Listed(c)' = Listed(c)
      <4>1. Moved = {} /\ Moved' = {} /\ Freed = (present \cap Dynamic) \ main.rest
        BY <2>1, <2>2, <2>3 DEF Moved, Freed
      <4>2. CASE channel[l] = NoChannel
        <5>1. Freed' = Freed \cup {l}
          BY <2>1, <2>2, <2>3, <4>1, <4>2 DEF Freed, params, Dynamic
        <5>. QED  BY <2>1, <4>1, <4>2, <5>1, EventAssumption DEF Listed, params
      <4>3. CASE channel[l] # NoChannel
        <5>1. Freed' = Freed
          BY <2>1, <2>2, <2>3, <4>1, <4>3 DEF Freed, params, Dynamic
        <5>. QED  BY <2>1, <4>1, <5>1 DEF Listed, params
      <4>. QED  BY <4>2, <4>3
    <3>. QED  BY <2>1, <3>1, <3>2 DEF Holds, ArraysInv
  <2>. QED  BY <2>5, <2>6, <2>7 DEF ArraysInv
<1>4. CASE FreeDone
  <2>. USE <1>4 DEF FreeDone, At
  <2>1. main.pc = "free" /\ main.rest = {} /\ UNCHANGED <<fixed, connected, refs, count, counter, task>>
        /\ main'.pc = "idle" /\ main \in Freeing \cup FreeingOne
    BY <1>1, MainType DEF run, arrays, NoCommand, Typed
  <2>2. main.then = "free"
    BY <2>1 DEF Freeing, FreeingOne
  <2>3. Typed'
    <3>1. main' \in Commands
      BY DEF NoCommand, Commands
    <3>2. /\ mode' \in [Lists -> SUBSET {"RUNNING", "SELECTED", "STIM"}]
          /\ channel' \in [Lists -> Channels \cup {NoChannel}]
          /\ prescaler' \in [Lists -> Prescalers \cup {1}]
      BY <1>1 DEF Reset, Typed, TypeOK
    <3>3. Lists \ Dynamic' \subseteq present' /\ present' \subseteq Lists
      BY <1>1, <2>1 DEF Typed, TypeOK, Dynamic
    <3>. QED  BY <1>1, <2>1, <3>1, <3>2, <3>3 DEF Typed, TypeOK
  <2>4. Sound'
    BY <1>1, <2>1 DEF Sound, Reset
  <2>5. ASSUME NEW c \in Channels PROVE Holds(c, Filled(c), Listed(c))'
    <3>1. Filled(c)' = Filled(c)
      BY <2>1 DEF Filled, InUse
    <3>2. Listed(c)' = Listed(c)
      <4>1. Moved = {} /\ Moved' = {} /\ Freed = present \cap Dynamic /\ Freed' = {}
        BY <2>1, <2>2 DEF Moved, Freed
      <4>2. \A l \in Lists : channel'[l] = c <=> l \notin Dynamic /\ channel[l] = c
        BY EventAssumption DEF Reset
      <4>3. \A l \in Lists : channel[l] = c => l \in present
        BY <1>1, EventAssumption DEF Sound
      <4>. QED  BY <4>1, <4>2, <4>3 DEF Listed
    <3>. QED  BY <2>1, <3>1, <3>2 DEF Holds, ArraysInv
  <2>. QED  BY <2>3, <2>4, <2>5 DEF ArraysInv
<1>. QED  BY <1>2, <1>3, <1>4

LEMMA ArraysStep == ArraysInv /\ [Next]_vars => ArraysInv'
<1>. SUFFICES ASSUME ArraysInv, [Next]_vars PROVE ArraysInv'
  OBVIOUS
<1>1. CASE Simple
  BY <1>1, ArraysSimple
<1>2. CASE \E l \in Lists, c \in Channels, p \in Prescalers, stim \in BOOLEAN :
             SetDaqListMode(l, c, p, stim)
  BY <1>2, ArraysSetMode
<1>3. CASE Find \/ Shift \/ Shrink \/ AppendRef \/ Grow
  BY <1>3, ArraysFind, ArraysShift, ArraysShrink, ArraysAppend, ArraysGrow
<1>4. CASE FreeDaq \/ FreeNext \/ FreeDone
  BY <1>4, ArraysFree
<1>5. ASSUME NEW c \in Channels, Event(c) PROVE ArraysInv'
  BY <1>5, ArraysTask
<1>6. CASE UNCHANGED vars
  <2>1. Typed'
    BY <1>6 DEF ArraysInv, Typed, TypeOK, vars, params, arrays, run, history, Dynamic
  <2>. QED  BY <1>6, <2>1, ArraysSame DEF vars, params, arrays, run, ArraysInv, Sound
<1>. QED  BY <1>1, <1>2, <1>3, <1>4, <1>5, <1>6 DEF Next, Main, Simple

\* The variables keep their types, and every index that is used is within
\* the arrays, for any scheduling of the contexts.
THEOREM TypeCorrect == Spec => []TypeOK
<1>1. ArraysInv => TypeOK
  BY DEF ArraysInv, Typed
<1>. QED  BY <1>1, ArraysInit, ArraysStep, PTL DEF Spec

\* Between two commands the array of each channel refers to the lists that
\* were set to the channel, to each once and to no other, for any scheduling of
\* the contexts: Xcp_CmdSetDaqListMode_EventChannel and Xcp_CmdFreeDaq leave
\* no reference behind and lose none.
THEOREM ReferencesMatch == Spec => []RefsMatch
<1>1. ASSUME ArraysInv PROVE RefsMatch
  <2>. SUFFICES ASSUME main.pc = "idle", NEW c \in Channels
                PROVE  /\ \A i, j \in InUse(c) : refs[c][i] = refs[c][j] => i = j
                       /\ {refs[c][i] : i \in InUse(c)} = {l \in present : channel[l] = c}
    BY DEF RefsMatch
  <2>1. Filled(c) = InUse(c) /\ Listed(c) = {l \in Lists : channel[l] = c}
    BY DEF Filled, Listed, Moved, Freed
  <2>2. Listed(c) = {l \in present : channel[l] = c}
    BY <1>1, <2>1, EventAssumption DEF ArraysInv, Sound, Typed, TypeOK
  <2>3. Holds(c, InUse(c), {l \in present : channel[l] = c})
    BY <1>1, <2>1, <2>2 DEF ArraysInv
  <2>. QED  BY <2>3 DEF Holds
<1>. QED  BY <1>1, ArraysInit, ArraysStep, PTL DEF Spec

-----------------------------------------------------------------------------
(* Runs of a channel, with cooperative contexts                            *)

\* Numbers of the form q * p: the least one that is not 0 is p.
LEMMA Quotient ==
  ASSUME NEW k \in Nat, NEW p \in Nat \ {0}, k % p = 0
  PROVE  k = (k \div p) * p
OBVIOUS

LEMMA QuotientMod ==
  ASSUME NEW q \in Nat, NEW p \in Nat \ {0}
  PROVE  (q * p) % p = 0
OBVIOUS

LEMMA NextMultiple ==
  ASSUME NEW k \in Nat, NEW p \in Nat \ {0}, NEW s \in 1..p, s <= k, (k - s) % p = 0
  PROVE  k % p = 0 <=> s = p
<1> DEFINE q == (k - s) \div p
<1>1. k - s \in Nat /\ k - s = q * p /\ q \in Nat
  BY Quotient
<1>2. ASSUME s = p PROVE k % p = 0
  <2>1. k = (q + 1) * p /\ q + 1 \in Nat
    BY <1>1, <1>2
  <2>2. PICK m \in Nat : k = m * p
    BY <2>1
  <2>3. (m * p) % p = 0
    BY QuotientMod
  <2>. QED  BY <2>2, <2>3, Zenon
<1>3. ASSUME k % p = 0 PROVE s = p
  <2> DEFINE n == k \div p
  <2>1. k = n * p /\ n \in Nat
    BY <1>3, Quotient
  <2>2. s = (n - q) * p /\ n - q \in Int
    BY <1>1, <2>1
  <2>3. n - q >= 1 /\ n - q <= 1
    BY <2>2
  <2>. QED  BY <2>2, <2>3
<1>. QED  BY <1>2, <1>3, Zenon

LEMMA CoopInit == Init => CoopInv
<1>. SUFFICES ASSUME Init PROVE CoopInv
  OBVIOUS
<1>1. ArraysInv
  BY ArraysInit
<1>2. \A c \in Channels : RunInv(c)
  BY DEF Init, RunInv, Quiet
<1>3. AgesInv
  BY DEF Init, AgesInv, Resting, NoCommand
<1>4. Recorded
  BY EmptySeq DEF Init, Recorded
<1>. QED  BY <1>1, <1>2, <1>3, <1>4 DEF CoopInv

\* A list has one place in the array of its channel, and is in no other.
LEMMA OnePlace ==
  ASSUME ArraysInv, main.pc = "idle", NEW c \in Channels
  PROVE  /\ count[c] \in Nat
         /\ \A i, j \in 0..count[c] - 1 : refs[c][i] = refs[c][j] => i = j
         /\ \A i \in 0..count[c] - 1 : refs[c][i] \in Lists /\ channel[refs[c][i]] = c
         /\ \A l \in Lists : channel[l] = c => \E i \in 0..count[c] - 1 : refs[c][i] = l
<1>1. Filled(c) = 0..count[c] - 1 /\ Listed(c) = {l \in Lists : channel[l] = c}
  BY DEF Filled, Listed, Moved, Freed, InUse
<1>2. Holds(c, Filled(c), Listed(c))
  BY DEF ArraysInv
<1>3. count[c] \in Nat
  BY EntriesType DEF ArraysInv, Typed, TypeOK
<1>. QED  BY <1>1, <1>2, <1>3 DEF Holds

\* A run of one channel leaves those of the others alone.
LEMMA RunElsewhere ==
  ASSUME NEW c \in Channels, NEW k \in Channels, RunInv(k),
         task'[k] = task[k], sampled'[k] = sampled[k], due'[k] = due[k], counter'[k] = counter[k],
         UNCHANGED <<params, arrays, main>>
  PROVE  RunInv(k)'
<1>1. \A l : Triggers(k, l)' = Triggers(k, l)
  BY DEF Triggers, Running, params
<1>2. Passed(k)' = Passed(k)
  BY DEF Passed, arrays
<1>. QED  BY <1>1, <1>2 DEF RunInv, params, arrays

LEMMA RunStep ==
  ASSUME Preemptive = FALSE, CoopInv, NEW c \in Channels, Event(c)
  PROVE  RunInv(c)'
<1>. USE DEF TaskMayRun
<1>1. /\ Typed /\ ArraysInv /\ RunInv(c) /\ task[c] \in [pc : {"idle", "check", "process"}, d : Entries]
      /\ task \in [Channels -> [pc : {"idle", "check", "process"}, d : Entries]]
  BY DEF CoopInv, ArraysInv, Typed
<1>2. main.pc = "idle" /\ UNCHANGED <<params, refs, count, main>>
  BY DEF Event, StartChannel, CheckEntry, ProcessEntry, EndChannel, arrays, history, params
<1> DEFINE d == task[c].d
           l == refs[c][d]
<1>3. /\ d \in Nat /\ count[c] \in Nat
      /\ \A i, j \in 0..count[c] - 1 : refs[c][i] = refs[c][j] => i = j
      /\ \A i \in 0..count[c] - 1 : refs[c][i] \in Lists /\ channel[refs[c][i]] = c
  BY <1>1, <1>2, OnePlace, EntriesType
<1>4. \A k : Triggers(c, k)' = Triggers(c, k) \/ counter' # counter
  BY <1>2 DEF Triggers, Running, params
<1>5. sampled \in [Channels -> Seq(Lists)] /\ due \in [Channels -> SUBSET Lists]
  BY DEF CoopInv, Recorded
<1>6. CASE StartChannel(c)
  <2>1. task'[c].pc = "check" /\ task'[c].d = 0 /\ counter' = counter /\ sampled' = sampled
        /\ sampled[c] = <<>> /\ DOMAIN sampled[c] = {}
    BY <1>1, <1>6, EmptySeq DEF StartChannel, RunInv
  <2>2. due'[c] = {k \in Lists : channel[k] = c /\ Triggers(c, k)}
    BY <1>5, <1>6 DEF StartChannel
  <2>3. Passed(c)' = {}
    BY <2>1 DEF Passed
  <2>. QED  BY <1>2, <1>3, <1>4, <2>1, <2>2, <2>3 DEF RunInv, params
<1>7. CASE CheckEntry(c)
  <2>1. /\ task[c].pc = "check" /\ d < count[c] /\ UNCHANGED <<counter, sampled, due>>
        /\ IF l # NoList /\ Triggers(c, l)
           THEN task'[c].pc = "process" /\ task'[c].d = d
           ELSE task'[c].pc = "check" /\ task'[c].d = d + 1
    BY <1>1, <1>7 DEF CheckEntry, history
  <2>2. l \in Lists /\ channel[l] = c
    BY <1>3, <2>1
  <2>3. due[c] = {k \in Lists : channel[k] = c /\ Triggers(c, k)} /\ d <= count[c]
    BY <1>1, <2>1 DEF RunInv
  <2>4. CASE Triggers(c, l)
    <3>1. l \in due[c] /\ l # NoList
      BY <2>2, <2>3, <2>4, EventAssumption
    <3>2. Passed(c)' = Passed(c)
      BY <1>2, <2>1, <2>4, <3>1 DEF Passed
    <3>. QED  BY <1>1, <1>2, <1>4, <2>1, <2>3, <2>4, <3>1, <3>2 DEF RunInv, params
  <2>5. CASE ~Triggers(c, l)
    <3>1. l \notin due[c]
      BY <2>3, <2>5
    <3>2. Passed(c)' = Passed(c) \cup {l}
      BY <1>2, <1>3, <2>1, <2>5 DEF Passed
    <3>. QED  BY <1>1, <1>2, <1>3, <1>4, <2>1, <2>3, <2>5, <3>1, <3>2 DEF RunInv, params
  <2>. QED  BY <2>4, <2>5
<1>8. CASE ProcessEntry(c)
  <2>1. /\ task[c].pc = "process" /\ UNCHANGED <<counter, due>>
        /\ task'[c].pc = "check" /\ task'[c].d = d + 1
        /\ sampled'[c] = Append(sampled[c], l)
    BY <1>1, <1>5, <1>8 DEF ProcessEntry
  <2>2. d < count[c] /\ l \in due[c] /\ l \in Lists
        /\ due[c] = {k \in Lists : channel[k] = c /\ Triggers(c, k)}
    BY <1>1, <2>1 DEF RunInv
  <2>3. Passed(c)' = Passed(c) \cup {l} /\ l \notin Passed(c)
    <3>1. 0..task'[c].d - 1 = (0..d - 1) \cup {d}
      BY <1>3, <2>1
    <3>2. l \notin Passed(c)
      BY <1>3, <2>2 DEF Passed
    <3>. QED  BY <1>2, <3>1, <3>2 DEF Passed
  <2> DEFINE n == Len(sampled[c])
  <2>4. /\ n \in Nat /\ DOMAIN sampled[c] = 1..n /\ DOMAIN sampled'[c] = 1..n + 1
        /\ \A i \in 1..n : sampled'[c][i] = sampled[c][i]
        /\ sampled'[c][n + 1] = l
    BY <1>5, <2>1, <2>2, AppendProperties, LenProperties
  <2>5. \A i \in 1..n : sampled[c][i] # l
    BY <1>1, <2>1, <2>3, <2>4 DEF RunInv
  <2>6. \A i, j \in 1..n + 1 : sampled'[c][i] = sampled'[c][j] => i = j
    <3>1. \A i, j \in DOMAIN sampled[c] : sampled[c][i] = sampled[c][j] => i = j
      BY <1>1, <2>1, Zenon DEF RunInv
    <3>2. \A i \in 1..n + 1 : i \in 1..n \/ i = n + 1
      BY <2>4
    <3>. QED  BY <2>4, <2>5, <3>1, <3>2
  <2>7. \A i \in 1..n + 1 : sampled'[c][i] \in Passed(c)' \cap due'[c]
    <3>1. \A i \in DOMAIN sampled[c] : sampled[c][i] \in Passed(c) \cap due[c]
      BY <1>1, <2>1, Zenon DEF RunInv
    <3>2. \A i \in 1..n + 1 : i \in 1..n \/ i = n + 1
      BY <2>4
    <3>. QED  BY <2>1, <2>2, <2>3, <2>4, <3>1, <3>2
  <2>8. ASSUME NEW k \in Passed(c)' \cap due'[c]
        PROVE  \E i \in 1..n + 1 : sampled'[c][i] = k
    <3>1. CASE k = l
      BY <2>4, <3>1
    <3>2. CASE k # l
      <4>1. k \in Passed(c) \cap due[c]
        BY <2>1, <2>3, <3>2
      <4>. QED  BY <1>1, <2>1, <2>4, <4>1 DEF RunInv
    <3>. QED  BY <3>1, <3>2
  <2>9. due'[c] = {k \in Lists : channel'[k] = c /\ Triggers(c, k)'}
    BY <1>2, <1>4, <2>1, <2>2 DEF params
  <2>10. task'[c].d <= count'[c] /\ task'[c].pc = "check" /\ main'.pc = "idle"
    BY <1>2, <1>3, <2>1, <2>2
  <2>. QED  BY <2>4, <2>6, <2>7, <2>8, <2>9, <2>10 DEF RunInv
<1>9. CASE EndChannel(c)
  BY <1>1, <1>5, <1>9 DEF EndChannel, Over, RunInv, Quiet
<1>. QED  BY <1>6, <1>7, <1>8, <1>9 DEF Event

LEMMA RunsKept ==
  ASSUME Preemptive = FALSE, CoopInv, [Next]_vars
  PROVE  Recorded' /\ \A c \in Channels : RunInv(c)'
<1>1. /\ Recorded /\ \A c \in Channels : RunInv(c)
      /\ task \in [Channels -> [pc : {"idle", "check", "process"}, d : Entries]]
  BY DEF CoopInv, ArraysInv, Typed
<1>2. CASE Main
  <2>1. MainMayRun /\ UNCHANGED <<counter, task, sampled>>
    BY <1>2 DEF Main, Connect, Disconnect, AllocDaq, StopDaqList, StartDaqList, SelectDaqList, StopAll,
         StartSelected, StopSelected, Start, Stop, SetDaqListMode, Find, Shift, Shrink, AppendRef, Grow,
         FreeDaq, FreeNext, FreeDone, Command, At, run, history
  <2>2. due' = due \/ \E set : Forget(set)
    BY <1>2 DEF Main, Connect, Disconnect, AllocDaq, StopDaqList, StartDaqList, SelectDaqList, StopAll,
         StartSelected, StopSelected, Start, Stop, SetDaqListMode, Find, Shift, Shrink, AppendRef, Grow,
         FreeDaq, FreeNext, FreeDone, Command, At, run, history
  <2>3. due' \in [Channels -> SUBSET Lists]
    BY <1>1, <2>2 DEF Forget, Recorded
  <2>. QED  BY <1>1, <2>1, <2>3 DEF MainMayRun, RunInv, Recorded
<1>3. ASSUME NEW c \in Channels, Event(c)
      PROVE  Recorded' /\ \A k \in Channels : RunInv(k)'
  <2>1. /\ UNCHANGED <<params, arrays, main>>
        /\ \A k \in Channels \ {c} : task'[k] = task[k] /\ sampled'[k] = sampled[k]
                                     /\ due'[k] = due[k] /\ counter'[k] = counter[k]
        /\ Recorded'
    <3>1. counter \in [Channels -> 0..CounterMod - 1] /\ sampled \in [Channels -> Seq(Lists)]
          /\ due \in [Channels -> SUBSET Lists]
      BY DEF CoopInv, ArraysInv, Typed, TypeOK, Recorded
    <3>2. CASE StartChannel(c)
      BY <1>1, <3>1, <3>2 DEF StartChannel, Recorded
    <3>3. CASE CheckEntry(c)
      BY <1>1, <3>1, <3>3 DEF CheckEntry, history, Recorded
    <3>4. CASE ProcessEntry(c)
      <4>1. refs[c][task[c].d] \in Lists
        BY <1>1, <3>4 DEF ProcessEntry, RunInv
      <4>2. Append(sampled[c], refs[c][task[c].d]) \in Seq(Lists)
        BY <3>1, <4>1, AppendProperties
      <4>. QED  BY <1>1, <3>1, <3>4, <4>2 DEF ProcessEntry, Recorded
    <3>5. CASE EndChannel(c)
      BY <1>1, <3>1, <3>5, EmptySeq DEF EndChannel, Over, Recorded
    <3>. QED  BY <1>3, <3>2, <3>3, <3>4, <3>5 DEF Event
  <2>2. RunInv(c)'
    BY <1>3, RunStep
  <2>3. \A k \in Channels \ {c} : RunInv(k)'
    BY <1>1, <1>3, <2>1, RunElsewhere
  <2>. QED  BY <2>1, <2>2, <2>3
<1>4. CASE UNCHANGED vars
  <2>1. \A c \in Channels : RunInv(c)'
    BY <1>1, <1>4, RunElsewhere DEF vars, params, arrays, run, history
  <2>. QED  BY <1>1, <1>4, <2>1 DEF vars, history, Recorded
<1>. QED  BY <1>2, <1>3, <1>4 DEF Next

-----------------------------------------------------------------------------
(* The age of a list, with cooperative contexts                            *)

\* A step that leaves a list and the counter of its channel alone.
LEMMA AgedSame ==
  ASSUME NEW l \in Lists, Aged(l), Running(l)', connected',
         channel'[l] = channel[l], prescaler'[l] = prescaler[l], since'[l] = since[l],
         counter'[channel[l]] = counter[channel[l]],
         InRun(channel[l], l)' <=> InRun(channel[l], l)
  PROVE  Aged(l)'
BY DEF Aged, InRun

\* The uint8 counter of a channel goes on by one, or back to 0.
LEMMA NextCount ==
  ASSUME NEW k \in 0..CounterMod - 1
  PROVE  (k + 1) % CounterMod \in {0, k + 1}
<1>1. CounterMod \in Nat \ {0}
  BY EventAssumption
<1>2. CASE k + 1 = CounterMod
  BY <1>1, <1>2
<1>3. CASE k + 1 < CounterMod
  BY <1>1, <1>3
<1>. QED  BY <1>1, <1>2, <1>3

\* A list whose time has not come is one event older after the next.
LEMMA OneOlder ==
  ASSUME NEW k \in Nat, NEW p \in Nat \ {0}, NEW s \in 1..p, s <= k, (k - s) % p = 0, k % p # 0
  PROVE  s + 1 \in 1..p /\ s + 1 <= k + 1 /\ ((k + 1) - (s + 1)) % p = 0
<1>1. s # p
  BY NextMultiple
<1>2. (k + 1) - (s + 1) = k - s
  OBVIOUS
<1>. QED  BY <1>1, <1>2

\* At the end of a run a list of the channel is one event older: either it has
\* been sampled, or its time had not come.
LEMMA AgedEnd ==
  ASSUME Preemptive = FALSE, CoopInv, NEW c \in Channels, EndChannel(c),
         NEW l \in Lists, Aged(l), channel[l] = c
  PROVE  Aged(l)'
<1>1. /\ ArraysInv /\ RunInv(c) /\ main.pc = "idle"
      /\ prescaler \in [Lists -> Prescalers \cup {1}] /\ counter[c] \in 0..CounterMod - 1
      /\ since \in [Lists -> Nat] /\ counter \in [Channels -> 0..CounterMod - 1]
      /\ sampled \in [Channels -> Seq(Lists)]
  BY DEF CoopInv, ArraysInv, Typed, TypeOK, Recorded, AgesInv, EndChannel, TaskMayRun
<1>2. prescaler[l] \in Nat \ {0}
  <2>1. prescaler[l] # 0
    BY DEF Aged
  <2>2. Prescalers \cup {1} \subseteq Nat
    BY EventAssumption
  <2>. QED  BY <1>1, <2>1, <2>2
<1>3. PICK p \in Nat \ {0} : p = prescaler[l]
  BY <1>2
<1>4. PICK s \in Nat : s = since[l]
  BY <1>1
<1>5. PICK k \in 0..CounterMod - 1 : k = counter[c]
  BY <1>1
<1>6. k \in Nat /\ 0 % p = 0
  BY <1>3, <1>5, EventAssumption
<1>7. /\ UNCHANGED <<mode, connected, channel, prescaler>>
      /\ since'[l] = s + 1
      /\ sampled'[c] = <<>>
      /\ counter'[c] = (k + 1) % CounterMod
  BY <1>1, <1>4, <1>5 DEF EndChannel, Over, params, Aged
<1>8. ~InRun(c, l)' /\ Running(l)' /\ connected' /\ channel'[l] = c /\ prescaler'[l] = p
  BY <1>3, <1>7 DEF InRun, Running, Aged
<1>9. counter'[c] \in {0, k + 1}
  BY <1>5, <1>7, NextCount
<1>10. s + 1 \in 1..p /\ (k + 1 # 0 => s + 1 <= k + 1 /\ ((k + 1) - (s + 1)) % p = 0)
  <2>1. CASE InRun(c, l)
    <3>1. s = 0 /\ k % p = 0
      BY <1>3, <1>4, <1>5, <2>1 DEF Aged
    <3>2. (k + 1) - (s + 1) = k
      BY <1>6, <3>1
    <3>. QED  BY <1>3, <1>6, <3>1, <3>2
  <2>2. CASE ~InRun(c, l)
    <3>1. k % p # 0
      <4>1. \E i \in 0..count[c] - 1 : refs[c][i] = l
        BY <1>1, OnePlace
      <4>2. task[c].pc = "check" /\ task[c].d >= count[c] /\ count[c] \in Nat /\ task[c].d \in Nat
        BY <1>1, OnePlace, EntriesType DEF EndChannel, ArraysInv, Typed
      <4>3. l \in Passed(c)
        BY <4>1, <4>2 DEF Passed
      <4>4. l \notin due[c]
        BY <1>1, <2>2, <4>2, <4>3 DEF RunInv, InRun
      <4>5. ~Triggers(c, l)
        BY <1>1, <4>2, <4>4 DEF RunInv
      <4>. QED  BY <1>2, <1>3, <1>5, <4>5 DEF Triggers, Aged
    <3>2. s \in 1..p /\ s <= k /\ (k - s) % p = 0
      BY <1>3, <1>4, <1>5, <1>6, <2>2, <3>1 DEF Aged
    <3>. QED  BY <1>6, <3>1, <3>2, OneOlder
  <2>. QED  BY <2>1, <2>2
<1>. QED  BY <1>7, <1>8, <1>9, <1>10 DEF Aged

LEMMA AgesTask ==
  ASSUME Preemptive = FALSE, CoopInv, NEW c \in Channels, Event(c)
  PROVE  AgesInv'
<1>1. /\ ArraysInv /\ RunInv(c) /\ Resting /\ since \in [Lists -> Nat] /\ first \subseteq Lists
      /\ sampled \in [Channels -> Seq(Lists)] /\ counter \in [Channels -> 0..CounterMod - 1]
      /\ \A l \in Lists \ first : Aged(l)
  BY DEF CoopInv, AgesInv, Recorded, ArraysInv, Typed, TypeOK
<1>2. main.pc = "idle" /\ UNCHANGED <<params, arrays, main>> /\ first' \subseteq first
  BY DEF Event, StartChannel, CheckEntry, ProcessEntry, EndChannel, arrays, history, params, TaskMayRun
<1>3. Resting'
  BY <1>2 DEF Resting
<1>4. CASE StartChannel(c) \/ CheckEntry(c)
  <2>1. UNCHANGED <<counter, sampled, since, first>>
    BY <1>4 DEF StartChannel, CheckEntry, history
  <2>2. ASSUME NEW l \in Lists \ first PROVE Aged(l)'
    BY <1>1, <1>2, <2>1, AgedSame DEF params, Aged, Running, InRun
  <2>. QED  BY <1>1, <1>3, <2>1, <2>2 DEF AgesInv
<1>5. CASE ProcessEntry(c)
  <2> DEFINE n == Len(sampled[c])
  <2>1. PICK l \in Lists : l = refs[c][task[c].d] /\ channel[l] = c /\ Triggers(c, l)
    BY <1>1, <1>5 DEF RunInv, ProcessEntry
  <2>2. /\ UNCHANGED counter /\ first' = first \ {l}
        /\ since' = [k \in Lists |-> IF k = l THEN 0 ELSE since[k]]
        /\ sampled' = [sampled EXCEPT ![c] = Append(@, l)]
    BY <1>5, <2>1 DEF ProcessEntry
  <2>3. /\ n \in Nat /\ DOMAIN sampled[c] = 1..n /\ DOMAIN sampled'[c] = 1..n + 1
        /\ \A i \in 1..n : sampled'[c][i] = sampled[c][i]
        /\ sampled'[c][n + 1] = l
    BY <1>1, <2>1, <2>2, AppendProperties, LenProperties
  <2>4. Aged(l)'
    <3>1. InRun(c, l)'
      BY <2>3 DEF InRun
    <3>2. since'[l] = 0 /\ channel'[l] = c /\ prescaler'[l] = prescaler[l] /\ Running(l)' /\ connected'
      BY <1>2, <2>1, <2>2 DEF params, Running, Triggers
    <3>. QED  BY <2>1, <2>2, <3>1, <3>2 DEF Aged, Triggers
  <2>5. ASSUME NEW k \in Lists \ first, k # l PROVE Aged(k)'
    <3>1. Aged(k) /\ channel[k] \in Channels
      BY <1>1 DEF Aged
    <3>2. InRun(channel[k], k)' <=> InRun(channel[k], k)
      <4>1. CASE channel[k] = c
        <5>1. \A i \in 1..n + 1 : i \in 1..n \/ i = n + 1
          BY <2>3
        <5>2. \A i \in 1..n : i \in 1..n + 1
          BY <2>3
        <5>3. channel'[k] = c
          BY <1>2, <4>1 DEF params
        <5>. QED  BY <2>3, <2>5, <4>1, <5>1, <5>2, <5>3 DEF InRun
      <4>2. CASE channel[k] # c
        <5>1. sampled'[channel[k]] = sampled[channel[k]] /\ channel'[k] = channel[k]
          BY <1>1, <1>2, <2>2, <3>1, <4>2 DEF params
        <5>. QED  BY <5>1 DEF InRun
      <4>. QED  BY <4>1, <4>2
    <3>3. since'[k] = since[k]
      BY <2>2, <2>5
    <3>. QED  BY <1>2, <2>2, <3>1, <3>2, <3>3, AgedSame DEF params, Aged, Running
  <2>6. since' \in [Lists -> Nat]
    BY <1>1, <2>2
  <2>7. ASSUME NEW k \in Lists \ first' PROVE Aged(k)'
    BY <2>2, <2>4, <2>5, <2>7
  <2>. QED  BY <1>1, <1>2, <1>3, <2>6, <2>7 DEF AgesInv
<1>6. CASE EndChannel(c)
  <2>1. first' = first /\ since' \in [Lists -> Nat]
    BY <1>1, <1>6 DEF EndChannel, Over
  <2>2. ASSUME NEW l \in Lists \ first PROVE Aged(l)'
    <3>1. Aged(l) /\ channel[l] \in Channels
      BY <1>1 DEF Aged
    <3>2. CASE channel[l] = c
      BY <1>6, <3>1, <3>2, AgedEnd
    <3>3. CASE channel[l] # c
      <4>1. since'[l] = since[l] /\ counter'[channel[l]] = counter[channel[l]]
            /\ sampled'[channel[l]] = sampled[channel[l]]
        BY <1>1, <1>6, <3>1, <3>3 DEF EndChannel, Over
      <4>. QED  BY <1>2, <3>1, <4>1, AgedSame DEF params, Aged, Running, InRun
    <3>. QED  BY <3>2, <3>3
  <2>. QED  BY <1>1, <1>3, <2>1, <2>2 DEF AgesInv
<1>. QED  BY <1>4, <1>5, <1>6 DEF Event

LEMMA AgesMain ==
  ASSUME CoopInv, Main
  PROVE  AgesInv'
<1>1. /\ Typed /\ Resting /\ since \in [Lists -> Nat] /\ first \subseteq Lists
      /\ mode \in [Lists -> SUBSET {"RUNNING", "SELECTED", "STIM"}] /\ present \subseteq Lists
      /\ channel \in [Lists -> Channels \cup {NoChannel}] /\ prescaler \in [Lists -> Prescalers \cup {1}]
      /\ \A l \in Lists \ first : Aged(l)
  BY DEF CoopInv, AgesInv, ArraysInv, Typed, TypeOK
<1>2. UNCHANGED <<counter, sampled>>
  BY DEF Main, Connect, Disconnect, AllocDaq, StopDaqList, StartDaqList, SelectDaqList, StopAll,
         StartSelected, StopSelected, Start, Stop, SetDaqListMode, Find, Shift, Shrink, AppendRef, Grow,
         FreeDaq, FreeNext, FreeDone, Command, At, run, history
<1>3. ASSUME NEW l \in Lists \ first, Running(l)', connected', channel'[l] = channel[l],
             prescaler'[l] = prescaler[l], since'[l] = since[l]
      PROVE  Aged(l)'
  <2>1. InRun(channel[l], l)' <=> InRun(channel[l], l)
    BY <1>2, <1>3 DEF InRun
  <2>. QED  BY <1>1, <1>2, <1>3, <2>1, AgedSame
<1>4. ASSUME Resting', UNCHANGED <<channel, prescaler>>, first \subseteq first', first' \subseteq Lists,
             since' \in [Lists -> Nat],
             \A l \in Lists \ first' : since'[l] = since[l] /\ (Running(l) => Running(l)'),
             \A l \in Lists \ first' : connected => connected'
      PROVE  AgesInv'
  <2>1. \A l \in Lists \ first' : Running(l) /\ connected
    BY <1>1, <1>4 DEF Aged
  <2>. QED  BY <1>3, <1>4, <2>1 DEF AgesInv
<1>5. ASSUME NEW set, Forget(set), set \subseteq Lists
      PROVE  /\ first' = first \cup set /\ since' \in [Lists -> Nat]
             /\ \A l \in Lists \ first' : since'[l] = since[l]
  BY <1>1, <1>5 DEF Forget
<1>6. CASE Connect \/ AllocDaq \/ \E l \in Lists : SelectDaqList(l)
  <2>1. /\ UNCHANGED <<main, since, first, channel, prescaler>> /\ main.pc = "idle"
        /\ connected => connected'
    BY <1>6 DEF Connect, AllocDaq, SelectDaqList, Command, history
  <2>2. \A l \in Lists : Running(l) => Running(l)'
    BY <1>1, <1>6 DEF Connect, AllocDaq, SelectDaqList, Running
  <2>. QED  BY <1>1, <1>4, <2>1, <2>2 DEF Resting
<1>7. CASE Disconnect
  <2>1. Forget(Lists) /\ UNCHANGED <<main, mode, channel, prescaler>> /\ main.pc = "idle"
    BY <1>7 DEF Disconnect, Command
  <2>. QED  BY <1>1, <1>4, <1>5, <2>1 DEF Resting
<1>8. ASSUME NEW set, NEW flags, Start(set, flags), "RUNNING" \notin flags, Command PROVE AgesInv'
  <2>1. UNCHANGED <<connected, main, since, first, channel, prescaler>> /\ main.pc = "idle"
    BY <1>8 DEF Start, Command, history
  <2>2. \A l \in Lists : Running(l) => Running(l)'
    BY <1>1, <1>8 DEF Start, Running
  <2>. QED  BY <1>1, <1>4, <2>1, <2>2 DEF Resting
<1>9. ASSUME NEW set, NEW flags, Stop(set, flags), Command PROVE AgesInv'
  <2>1. UNCHANGED <<connected, main, channel, prescaler>> /\ main.pc = "idle"
        /\ Forget(set) /\ set \subseteq Lists
    BY <1>1, <1>9 DEF Stop, Command
  <2>2. \A l \in Lists \ first' : Running(l) => Running(l)'
    BY <1>1, <1>5, <1>9, <2>1 DEF Stop, Running
  <2>. QED  BY <1>1, <1>4, <1>5, <2>1, <2>2 DEF Resting
<1>10. ASSUME NEW l \in Lists, NEW c \in Channels, NEW p \in Prescalers, NEW stim \in BOOLEAN,
              SetDaqListMode(l, c, p, stim)
       PROVE  AgesInv'
  <2>1. /\ UNCHANGED <<connected, since, first, channel, prescaler>>
        /\ main'.then = "append" /\ main'.list = l /\ ~Running(l)
    BY <1>10 DEF SetDaqListMode, Allowed, history
  <2>2. \A k \in Lists : Running(k) => Running(k)'
    BY <1>1, <1>10 DEF SetDaqListMode, Running
  <2>3. l \in first
    BY <1>1, <2>1 DEF Aged
  <2>. QED  BY <1>1, <1>4, <2>1, <2>2, <2>3 DEF Resting
<1>11. CASE Find \/ Shift \/ Shrink \/ AppendRef
  <2>1. UNCHANGED <<params, history>> /\ main.pc \in {"find", "shift", "append"}
        /\ main \in Moving \cup FreeingOne
    BY <1>1, <1>11, MainType DEF Find, Shift, Shrink, AppendRef, At, Typed
  <2>2. main'.then = main.then /\ main'.list = main.list
    BY <1>11, <2>1 DEF Find, Shift, Shrink, AppendRef, At, Moving, FreeingOne
  <2>3. Resting'
    BY <1>1, <2>1, <2>2 DEF Resting, params, history, Dynamic
  <2>. QED  BY <1>1, <1>4, <2>1, <2>3 DEF params, history, Running
<1>12. CASE Grow
  <2>1. main.pc = "grow" /\ main \in Moving /\ main.list \in first /\ main'.pc = "idle"
        /\ UNCHANGED <<mode, connected, since, first>>
    <3>1. main.pc = "grow" /\ main \in Moving
      BY <1>1, <1>12, MainType DEF Grow, At, Typed
    <3>2. main.then = "append"
      BY <3>1 DEF Moving
    <3>. QED  BY <1>1, <1>12, <3>1, <3>2 DEF Grow, Resting, NoCommand, history
  <2>2. Resting'
    BY <2>1 DEF Resting
  <2>3. ASSUME NEW l \in Lists \ first' PROVE Aged(l)'
    <3>1. channel'[l] = channel[l] /\ prescaler'[l] = prescaler[l]
      BY <1>1, <1>12, <2>1 DEF Grow
    <3>2. Running(l)' /\ connected'
      BY <1>1, <2>1 DEF Aged, Running
    <3>. QED  BY <1>3, <2>1, <3>1, <3>2
  <2>. QED  BY <1>1, <2>1, <2>2, <2>3 DEF AgesInv
<1>13. CASE FreeDaq
  <2>1. Forget(Dynamic) /\ Dynamic \subseteq Lists /\ main'.then = "free"
        /\ UNCHANGED <<fixed, connected, mode, channel, prescaler>>
    BY <1>13 DEF FreeDaq, params, Dynamic
  <2>2. Resting'
    BY <1>5, <2>1 DEF Resting, Dynamic
  <2>. QED  BY <1>1, <1>4, <1>5, <2>1, <2>2 DEF Running
<1>14. CASE FreeNext
  <2>1. UNCHANGED <<params, history>> /\ main.pc = "free" /\ main \in Freeing \cup FreeingOne
        /\ main'.then = "free"
    BY <1>1, <1>14, MainType DEF FreeNext, At, Typed
  <2>2. Resting'
    BY <1>1, <2>1 DEF Resting, params, history, Dynamic, Freeing, FreeingOne
  <2>. QED  BY <1>1, <1>4, <2>1, <2>2 DEF params, history, Running
<1>15. CASE FreeDone
  <2>1. main.pc = "free" /\ main \in Freeing \cup FreeingOne /\ main'.pc = "idle"
        /\ UNCHANGED <<connected, since, first>>
    BY <1>1, <1>15, MainType DEF FreeDone, At, Typed, NoCommand, history
  <2>2. Dynamic \subseteq first
    BY <1>1, <2>1 DEF Resting, Freeing, FreeingOne
  <2>3. ASSUME NEW l \in Lists \ first' PROVE Aged(l)'
    <3>1. channel'[l] = channel[l] /\ prescaler'[l] = prescaler[l] /\ mode'[l] = mode[l]
      BY <1>15, <2>1, <2>2 DEF FreeDone, Reset
    <3>2. Running(l)' /\ connected'
      BY <1>1, <2>1, <3>1 DEF Aged, Running
    <3>. QED  BY <1>3, <2>1, <3>1, <3>2
  <2>. QED  BY <1>1, <2>1, <2>3 DEF AgesInv, Resting
<1>. QED  BY <1>6, <1>7, <1>8, <1>9, <1>10, <1>11, <1>12, <1>13, <1>14, <1>15
          DEF Main, StopDaqList, StartDaqList, StopAll, StartSelected, StopSelected

LEMMA CoopStep == Preemptive = FALSE /\ CoopInv /\ [Next]_vars => CoopInv'
<1>. SUFFICES ASSUME Preemptive = FALSE, CoopInv, [Next]_vars PROVE CoopInv'
  OBVIOUS
<1>1. ArraysInv'
  BY ArraysStep DEF CoopInv
<1>2. AgesInv'
  <2>1. CASE UNCHANGED vars
    <3>1. UNCHANGED <<fixed, mode, connected, channel, prescaler, counter, main, sampled, since, first>>
      BY <2>1 DEF vars, params, run, history
    <3>2. ASSUME NEW l \in Lists, Aged(l) PROVE Aged(l)'
      BY <3>1, <3>2, AgedSame DEF Aged, InRun, Running
    <3>. QED  BY <3>1, <3>2 DEF CoopInv, AgesInv, Resting, Dynamic
  <2>. QED  BY <2>1, AgesMain, AgesTask DEF Next
<1>. QED  BY <1>1, <1>2, RunsKept DEF CoopInv

LEMMA CoopAlways ==
  ASSUME Preemptive = FALSE
  PROVE  Spec => []CoopInv
<1>1. CoopInv /\ [Next]_vars => CoopInv'
  BY CoopStep
<1>. QED  BY CoopInit, <1>1, PTL DEF Spec

\* A list that is on its way to be sampled was not sampled before in the run.
LEMMA NotYet ==
  ASSUME CoopInv, NEW c \in Channels, main.pc = "idle", task[c].pc = "process"
  PROVE  ~InRun(c, refs[c][task[c].d])
<1>1. /\ RunInv(c) /\ ArraysInv /\ task[c].d \in Nat
  BY EntriesType DEF CoopInv, ArraysInv, Typed
<1>2. task[c].d < count[c] /\ \A i \in DOMAIN sampled[c] : sampled[c][i] \in Passed(c)
  BY <1>1 DEF RunInv
<1>3. refs[c][task[c].d] \notin Passed(c)
  BY <1>1, <1>2, OnePlace DEF Passed
<1>. QED  BY <1>2, <1>3 DEF InRun

\* With cooperative contexts a run of Xcp_ProcessChannel samples each list
\* that is due exactly once, and no list twice, whatever the commands did to the
\* arrays before it.
THEOREM EveryEventComplete ==
  ASSUME Preemptive = FALSE
  PROVE  Spec => EventComplete
<1>1. ASSUME CoopInv, [Next]_vars, NEW c \in Channels,
             task[c].pc # "idle", task'[c].pc = "idle", NEW l \in Lists
      PROVE  Times(c, l) <= 1 /\ (l \in due[c] => Times(c, l) = 1)
  <2>1. /\ ArraysInv /\ RunInv(c) /\ main.pc = "idle"
        /\ task \in [Channels -> [pc : {"idle", "check", "process"}, d : Entries]]
    BY <1>1 DEF CoopInv, ArraysInv, Typed, RunInv
  <2>2. EndChannel(c)
    <3>1. UNCHANGED task \/ \E k \in Channels : Event(k)
      BY <1>1 DEF Next, Main, Connect, Disconnect, AllocDaq, StopDaqList, StartDaqList, SelectDaqList,
         StopAll, StartSelected, StopSelected, SetDaqListMode, Find, Shift, Shrink, AppendRef, Grow,
         FreeDaq, FreeNext, FreeDone, Command, At, run, vars
    <3>2. PICK k \in Channels : Event(k)
      BY <1>1, <3>1
    <3>3. k = c
      BY <1>1, <2>1, <3>2 DEF Event, StartChannel, CheckEntry, ProcessEntry, EndChannel
    <3>. QED  BY <1>1, <2>1, <3>2, <3>3 DEF Event, StartChannel, CheckEntry, ProcessEntry
  <2> DEFINE S == {i \in DOMAIN sampled[c] : sampled[c][i] = l}
  <2>3. \A i, j \in S : i = j
    BY <1>1, <2>1 DEF RunInv
  <2>4. l \in due[c] => S # {}
    <3>1. task[c].d >= count[c] /\ task[c].d \in Nat /\ count[c] \in Nat
      BY <2>1, <2>2, OnePlace, EntriesType DEF EndChannel
    <3>2. l \in due[c] => l \in Passed(c)
      BY <1>1, <2>1, <3>1, OnePlace DEF RunInv, Passed
    <3>. QED  BY <1>1, <2>1, <3>2 DEF RunInv
  <2>5. CASE S = {}
    BY <2>4, <2>5, FS_EmptySet DEF Times
  <2>6. ASSUME NEW i \in S PROVE Cardinality(S) = 1
    <3>1. S = {i}
      BY <2>3
    <3>. QED  BY <3>1, FS_Singleton
  <2>. QED  BY <2>5, <2>6 DEF Times
<1>2. CoopInv /\ [Next]_vars =>
        [\A c \in Channels : task[c].pc # "idle" /\ task'[c].pc = "idle" =>
           \A l \in Lists : Times(c, l) <= 1 /\ (l \in due[c] => Times(c, l) = 1)]_vars
  BY <1>1
<1>. QED  BY <1>2, CoopAlways, PTL DEF Spec, EventComplete

\* With cooperative contexts two samples of a list are as many events apart
\* as its prescaler says, unless the counter of the channel started again at 0
\* in between: the uint8 counter and the prescalers need not fit each other.
THEOREM PrescalersKept ==
  ASSUME Preemptive = FALSE
  PROVE  Spec => PrescalerKept
<1> DEFINE Kept(c) ==
      LET l == sampled'[c][Len(sampled'[c])]
      IN Len(sampled'[c]) > Len(sampled[c]) /\ l \notin first
           => since[l] = prescaler[l] \/ (counter[c] = 0 /\ since[l] < prescaler[l])
<1>1. ASSUME CoopInv, [Next]_vars, NEW c \in Channels, Len(sampled'[c]) > Len(sampled[c])
      PROVE  Kept(c)
  <2>1. /\ ArraysInv /\ RunInv(c) /\ sampled \in [Channels -> Seq(Lists)]
        /\ prescaler \in [Lists -> Prescalers \cup {1}] /\ counter \in [Channels -> 0..CounterMod - 1]
    BY <1>1 DEF CoopInv, ArraysInv, Typed, TypeOK, Recorded
  <2>2. Len(sampled[c]) \in Nat
    BY <2>1, LenProperties
  <2>3. sampled'[c] # sampled[c] /\ sampled'[c] # <<>>
    BY <1>1, <2>2, EmptySeq
  <2>4. ProcessEntry(c)
    <3>1. UNCHANGED sampled \/ \E k \in Channels : Event(k)
      BY <1>1 DEF Next, Main, Connect, Disconnect, AllocDaq, StopDaqList, StartDaqList, SelectDaqList,
         StopAll, StartSelected, StopSelected, Start, Stop, SetDaqListMode, Find, Shift, Shrink,
         AppendRef, Grow, FreeDaq, FreeNext, FreeDone, history, vars
    <3>2. PICK k \in Channels : Event(k)
      BY <2>3, <3>1
    <3>. QED  BY <2>1, <2>3, <3>2 DEF Event, StartChannel, CheckEntry, ProcessEntry, EndChannel, Over,
                                  history
  <2>5. main.pc = "idle" /\ task[c].pc = "process"
    BY <2>1, <2>4 DEF ProcessEntry, RunInv
  <2>6. PICK l \in Lists : /\ l = refs[c][task[c].d] /\ channel[l] = c /\ Triggers(c, l)
    BY <2>1, <2>5 DEF RunInv
  <2>7. sampled'[c][Len(sampled'[c])] = l
    <3>1. sampled'[c] = Append(sampled[c], l)
      BY <2>1, <2>4, <2>6 DEF ProcessEntry
    <3>. QED  BY <2>1, <2>6, <3>1, AppendProperties
  <2>8. ASSUME l \notin first
        PROVE  since[l] = prescaler[l] \/ (counter[c] = 0 /\ since[l] < prescaler[l])
    <3>1. Aged(l) /\ ~InRun(c, l) /\ since[l] \in Nat
      BY <1>1, <2>5, <2>6, <2>8, NotYet DEF CoopInv, AgesInv
    <3>2. prescaler[l] \in Nat \ {0} /\ counter[c] \in Nat
      <4>1. Prescalers \cup {1} \subseteq Nat /\ CounterMod \in Nat
        BY EventAssumption
      <4>. QED  BY <2>1, <3>1, <4>1 DEF Aged
    <3>3. PICK p \in Nat \ {0}, k \in Nat, s \in Nat : p = prescaler[l] /\ k = counter[c] /\ s = since[l]
      BY <3>1, <3>2
    <3>4. k % p = 0
      BY <2>6, <3>3 DEF Triggers
    <3>5. s \in 1..p /\ (k # 0 => s <= k /\ (k - s) % p = 0)
      BY <2>6, <3>1, <3>3 DEF Aged
    <3>6. k # 0 => s = p
      BY <3>4, <3>5, NextMultiple
    <3>. QED  BY <3>3, <3>5, <3>6
  <2>. QED  BY <2>7, <2>8
<1>2. ASSUME CoopInv, [Next]_vars PROVE [\A c \in Channels : Kept(c)]_vars
  BY <1>1, <1>2
<1>3. CoopInv /\ [Next]_vars => [\A c \in Channels : Kept(c)]_vars
  BY <1>2
<1>. QED  BY <1>3, CoopAlways, PTL DEF Spec, PrescalerKept

\* With cooperative contexts the entry that is processed still holds the list
\* that was checked: the second read of the array finds the same list.
THEOREM CheckedIsSampled ==
  ASSUME Preemptive = FALSE
  PROVE  Spec => []SamplesRunning
<1>1. CoopInv => SamplesRunning
  <2>. SUFFICES ASSUME CoopInv, NEW c \in Channels, task[c].pc = "process"
                PROVE  refs[c][task[c].d] \in Lists
    BY DEF SamplesRunning
  <2>. QED  BY DEF CoopInv, RunInv
<1>. QED  BY <1>1, CoopAlways, PTL
=============================================================================
