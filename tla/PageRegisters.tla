---------------------------- MODULE PageRegisters ----------------------------
(***************************************************************************)
(* What the dialogue of a master and a slave about calibration pages       *)
(* promises: a command takes effect at most once, between the moment it is *)
(* given and the moment the master has its result or gives up, and the     *)
(* result is the one of that effect.  Only SET_CAL_PAGE changes pages, and *)
(* all of those asked for unless it reports an error.                      *)
(***************************************************************************)
CONSTANTS Segments,  \* the segments
          Kinds,     \* each segment has a page for the ECU and one for XCP
          Calls,     \* the commands
          None

VARIABLES page,     \* [Kinds -> [Segments -> page]]
          call,     \* the command in hand
          outcome,  \* what its effect was
          result    \* what the master was told last

vars == <<page, call, outcome, result>>

TypeOK == /\ call \in Calls \cup {None}
          /\ call = None => outcome = None
          /\ DOMAIN page = Kinds /\ \A k \in Kinds : DOMAIN page[k] = Segments

Init == call = None /\ outcome = None /\ result = None

Invoke == /\ call = None /\ call' \in Calls
          /\ UNCHANGED <<page, outcome, result>>

\* The pages that SET_CAL_PAGE is about.
Asked(c) == (c.mode \cap Kinds) \X (IF "ALL" \in c.mode THEN Segments ELSE {c.segm} \cap Segments)

OnlyTo(c, places) == \A k \in Kinds, s \in Segments :
                        page'[k][s] # page[k][s] => <<k, s>> \in places /\ page'[k][s] = c.page

Effect ==
  /\ call # None /\ outcome = None /\ outcome' # None
  /\ \/ /\ call.cmd = "SET_CAL_PAGE" /\ outcome'.kind = "RES"
        /\ \A p \in Asked(call) : page'[p[1]][p[2]] = call.page
        /\ OnlyTo(call, Asked(call))
     \/ /\ call.cmd = "SET_CAL_PAGE" /\ outcome'.kind = "ERR"
        /\ OnlyTo(call, IF "ALL" \in call.mode THEN Asked(call) ELSE {})
     \/ /\ call.cmd = "GET_CAL_PAGE" /\ outcome'.kind = "PAGE"
        /\ \E k \in call.mode : outcome'.page = page[k][call.segm]
        /\ UNCHANGED page
     \/ /\ call.cmd # "SET_CAL_PAGE" /\ outcome'.kind # "PAGE"
        /\ UNCHANGED page
  /\ UNCHANGED <<call, result>>

Return == /\ outcome # None
          /\ result' = outcome /\ call' = None /\ outcome' = None
          /\ UNCHANGED page

GiveUp == /\ call # None
          /\ result' = None /\ call' = None /\ outcome' = None
          /\ UNCHANGED page

Next == Invoke \/ Effect \/ Return \/ GiveUp

Spec == Init /\ [][Next]_vars
==============================================================================
