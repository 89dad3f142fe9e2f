SPECIFICATION Spec
CONSTANTS
  Buffers = {b1, b2, b3}
  NoBuffer = NoBuffer
  RxContexts = {r1}
  DaqLists = {d1}
  StimLists = {s1}
  Packets = {"CONNECT", "DISCONNECT", "COMMAND", "SLAVE_ID", "TRANSPORT", s1}
  OdtCount = 2
  MaxUpload = 1
  Preemptive = FALSE
  StrictMaster = FALSE
  TransmitFast = TRUE
CHECK_DEADLOCK FALSE
SYMMETRY BufferSymmetry
INVARIANTS TypeOK IInv NoLeak
