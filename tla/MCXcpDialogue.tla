---------------------------- MODULE MCXcpDialogue ----------------------------
(* Two segments, of which the second has one page only. *)
EXTENDS XcpDialogue

Pages == <<2, 1>>
Switch(mode, segm, p) == [cmd |-> "SET_CAL_PAGE", mode |-> mode, segm |-> segm, page |-> p]
Page(mode, segm) == [cmd |-> "GET_CAL_PAGE", mode |-> mode, segm |-> segm]
Info(mode, segm, info, mapi) ==
  [cmd |-> "GET_SEGMENT_INFO", mode |-> mode, segm |-> segm, info |-> info, mapi |-> mapi]
Transport(sub) == [cmd |-> "TRANSPORT_LAYER_CMD", sub |-> sub]

PageRequests ==
  {[cmd |-> "CONNECT"], Transport("GET_SLAVE_ID")}
  \cup {Switch({"ECU"}, 1, p) : p \in 1..2} \cup {Switch({"ECU", "XCP", "ALL"}, 1, p) : p \in 0..1}
  \cup {Switch({"XCP"}, 3, 0)}
  \cup {Page({"ECU"}, 1), Page({"XCP"}, 2)}

InfoRequests ==
  {[cmd |-> cmd] : cmd \in {"CONNECT", "GET_PAG_PROCESSOR_INFO", "GET_COMM_MODE_INFO", "USER_CMD"}}
  \cup {Transport("GET_DAQ_ID"), Page({"ECU"}, 3), Page({"ECU", "XCP"}, 1)}
  \cup {Info(1, 1, 0, 0), Info(1, 3, 0, 0), Info(0, 2, 1, 0), Info(2, 2, 3, 0), Info(2, 2, 0, 1)}

AllRequests == PageRequests \cup InfoRequests
==============================================================================
